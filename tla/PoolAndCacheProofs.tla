------------------------- MODULE PoolAndCacheProofs -------------------------
(***************************************************************************)
(* Exclusive use of checkers, for any number of goroutines, requests,      *)
(* files and checkers.  The argument: a semaphore's token identifies its   *)
(* holder (Tokens), a held slot has exactly one owner (Owners), and no two *)
(* slots ever contain the same object (Distinct).                          *)
(* Then what the pool keeps in order between two uses of a checker:        *)
(* canceled checkers, the idle timer, associations, discarded pools and    *)
(* global diagnostics.                                                     *)
(* And the owners of extended configuration files, which are exact unless  *)
(* one of three deviations of the code is met (OwnersAreExact); nobody     *)
(* waits for ever for their entries unless files extend each other in a    *)
(* circle (NobodyIsBlocked).                                               *)
(***************************************************************************)
EXTENDS CheckerPool, OwnerCache, SequenceTheorems, FiniteSetTheorems, WellFoundedInduction, TLAPS

\* A goroutine past its semaphore and not yet done with it asked for something.
CallOK ==
  /\ \A c \in Callers : pc[c] # "idle" => call[c].kind \in {"diagnostics", "query", "api"}
  /\ \A c \in Callers : pc[c] = "reacquire" =>
       call[c].request \in Requests /\ call[c].kind # "api"
  /\ \A c \in Callers : pc[c] = "using" => inst[c] \in Instances

TypeInv == TypeOK /\ CallOK

USE DEF NotHeld, Anonymous

\* The parts of a call.
LEMMA CallFields ==
  ASSUME NEW x \in Calls
  PROVE  /\ x.request \in Requests \cup {NoRequest}
         /\ x.file \in Files \cup {NoFile}
         /\ x.kind \in {"diagnostics", "query", "api", "none"}
  BY DEF Calls, NoCall

\* The types hold at the start.
LEMMA InitType == Init => TypeInv
<1> SUFFICES ASSUME Init PROVE TypeInv
  OBVIOUS
<1>1. NoSlot \in Nat /\ {NoSlot, DiagIndex} \subseteq Slots \cup {NoSlot}
  BY MaxCheckersAssumption DEF Slots, QuerySlots, DiagIndex, NoSlot
<1>2. NoCall \in Calls
  BY DEF Calls
<1>3. TypeOK
  BY <1>1, <1>2 DEF Init, TypeOK, PCs, Ages
<1>4. CallOK
  BY DEF Init, CallOK
<1> QED BY <1>3, <1>4 DEF TypeInv

\* Every step keeps the types.
LEMMA TypeStep == TypeInv /\ [Next]_vars => TypeInv'
<1> SUFFICES ASSUME TypeInv, [Next]_vars PROVE TypeInv'
  OBVIOUS
<1>a. /\ checkers \in [Slots -> Instances \cup {None}]
      /\ heldBy \in [Slots -> Requests \cup {Anonymous, NotHeld}]
      /\ lastReleased \in [Slots -> Ages]
  BY DEF TypeInv, TypeOK
<1>b. /\ fileAssociations \in [Files -> QuerySlots \cup {NoSlot}]
      /\ requestAssociations \in [Requests -> Slots \cup {NoSlot}]
      /\ afterFuncs \in [Requests -> Nat] /\ callbacks \in Nat
  BY DEF TypeInv, TypeOK
<1>c. /\ pc \in [Callers -> PCs] /\ call \in [Callers -> Calls]
      /\ slot \in [Callers -> Slots \cup {NoSlot}]
      /\ inst \in [Callers -> Instances \cup {None}]
      /\ CallOK
  BY DEF TypeInv, TypeOK
<1>d. /\ globalDiagAccumulated \in SUBSET Diags /\ globalDiagChanged \in BOOLEAN
      /\ globalDiagCount \in Nat /\ globals \in SUBSET Diags
      /\ canceled \in SUBSET Instances /\ persistentChecker \in Instances \cup {None}
  BY DEF TypeInv, TypeOK
<1>e. /\ DiagIndex \in Slots /\ QuerySlots \subseteq Slots
      /\ Unreferenced \subseteq Instances
  BY DEF Slots, Unreferenced
<1>f. ASSUME NEW x \in Requests \cup {NoRequest}
      PROVE  HoldTag(x) \in Requests \cup {Anonymous, NotHeld}
  BY DEF HoldTag
<1>g. ASSUME NEW x \in Requests \cup {NoRequest}, NEW k \in Slots, Associate(x, k)
      PROVE  /\ requestAssociations' \in [Requests -> Slots \cup {NoSlot}]
             /\ afterFuncs' \in [Requests -> Nat]
  BY <1>b, <1>g DEF Associate
<1>h. ASSUME NEW D, Dispose(D)
      PROVE  /\ checkers' \in [Slots -> Instances \cup {None}]
             /\ heldBy' \in [Slots -> Requests \cup {Anonymous, NotHeld}]
             /\ lastReleased' \in [Slots -> Ages]
             /\ fileAssociations' \in [Files -> QuerySlots \cup {NoSlot}]
             /\ requestAssociations' \in [Requests -> Slots \cup {NoSlot}]
             /\ globalDiagCount' \in Nat
  <2>1. /\ checkers' \in [Slots -> Instances \cup {None}]
        /\ heldBy' \in [Slots -> Requests \cup {Anonymous, NotHeld}]
        /\ lastReleased' \in [Slots -> Ages]
    BY <1>a, <1>h DEF Dispose, Ages
  <2>2. /\ fileAssociations' \in [Files -> QuerySlots \cup {NoSlot}]
        /\ requestAssociations' \in [Requests -> Slots \cup {NoSlot}]
    BY <1>b, <1>h DEF Dispose, ForgetAssociations, Without
  <2>3. globalDiagCount' \in Nat
    BY <1>d, <1>h DEF Dispose, ResetCount
  <2> QED BY <2>1, <2>2, <2>3
<1>i. ASSUME NEW c \in Callers, NEW i \in Slots \cup {NoSlot}, NEW x \in Instances,
             Return(c, i, x), pc[c] # "idle"
      PROVE  /\ pc' \in [Callers -> PCs] /\ call' \in [Callers -> Calls]
             /\ slot' \in [Callers -> Slots \cup {NoSlot}]
             /\ inst' \in [Callers -> Instances \cup {None}]
             /\ CallOK'
  BY <1>c, <1>i DEF Return, PCs, CallOK
<1>j. ASSUME NEW c \in Callers, pc' = [pc EXCEPT ![c] = "acquire"], pc[c] # "idle",
             UNCHANGED <<call, inst>>
      PROVE  pc' \in [Callers -> PCs] /\ CallOK'
  BY <1>c, <1>j DEF PCs, CallOK
<1>1. ASSUME NEW c \in Callers, NEW k \in Kinds, NEW r \in Requests \cup {NoRequest},
             NEW f \in Files \cup {NoFile}, Call(c, k, r, f)
      PROVE  TypeInv'
  <2>1. [kind |-> k, request |-> r, file |-> f] \in Calls
    BY KindsAssumption DEF Calls
  <2>2. pc' \in [Callers -> PCs] /\ call' \in [Callers -> Calls] /\ CallOK'
    BY <1>1, <1>c, <2>1, KindsAssumption DEF Call, PCs, CallOK
  <2> QED BY <1>1, <2>2
          DEF Call, poolVars, apiVars, semVars, diagVars, envVars, TypeInv, TypeOK
<1>2. ASSUME NEW c \in Callers, ClaimSemaphore(c) PROVE TypeInv'
  <2>1. call[c].request \in Requests \cup {NoRequest}
    BY <1>c, CallFields
  <2>2. pc' \in [Callers -> PCs] /\ CallOK'
    BY <1>2, <1>c, <2>1 DEF ClaimSemaphore, PCs, CallOK
  <2>3. diagSem' \in SUBSET Callers /\ querySem' \in SUBSET Callers
        /\ persistentSem' \in SUBSET Callers
    BY <1>2 DEF ClaimSemaphore, TypeInv, TypeOK
  <2> QED BY <1>2, <2>2, <2>3
          DEF ClaimSemaphore, poolVars, apiVars, diagVars, envVars, TypeInv, TypeOK
<1>3. ASSUME NEW c \in Callers, TryReacquire(c) PROVE TypeInv'
  <2> DEFINE r == call[c].request
             i == requestAssociations[r]
  <2>1. r \in Requests /\ pc[c] # "idle"
    BY <1>3, <1>c DEF TryReacquire, CallOK
  <2>2. CASE /\ i # NoSlot /\ Idle(i) /\ heldBy' = [heldBy EXCEPT ![i] = r]
             /\ Return(c, i, checkers[i]) /\ UNCHANGED requestAssociations
    <3>1. i \in Slots
      BY <1>b, <2>1, <2>2
    <3>2. checkers[i] \in Instances
          /\ heldBy' \in [Slots -> Requests \cup {Anonymous, NotHeld}]
      BY <1>a, <2>1, <2>2, <3>1 DEF Idle, Present
    <3>3. /\ pc' \in [Callers -> PCs] /\ call' \in [Callers -> Calls]
          /\ slot' \in [Callers -> Slots \cup {NoSlot}]
          /\ inst' \in [Callers -> Instances \cup {None}]
          /\ CallOK'
      <4>1. i \in Slots \cup {NoSlot}
        BY <3>1
      <4> HIDE DEF i
      <4> QED BY <1>i, <2>1, <2>2, <3>2, <4>1
    <3> QED BY <1>3, <2>2, <3>2, <3>3
            DEF TryReacquire, apiVars, semVars, diagVars, envVars, TypeInv, TypeOK
  <2>3. CASE /\ requestAssociations' = [requestAssociations EXCEPT ![r] = NoSlot]
             /\ pc' = [pc EXCEPT ![c] = "acquire"] /\ UNCHANGED <<heldBy, call, slot, inst>>
    <3>1. requestAssociations' \in [Requests -> Slots \cup {NoSlot}]
      BY <1>b, <2>3
    <3>2. pc' \in [Callers -> PCs] /\ CallOK'
      BY <1>j, <2>1, <2>3
    <3> QED BY <1>3, <2>3, <3>1, <3>2
            DEF TryReacquire, apiVars, semVars, diagVars, envVars, TypeInv, TypeOK
  <2>4. CASE /\ pc' = [pc EXCEPT ![c] = "acquire"]
             /\ UNCHANGED <<heldBy, requestAssociations, call, slot, inst>>
    <3>1. pc' \in [Callers -> PCs] /\ CallOK'
      BY <1>j, <2>1, <2>4
    <3> QED BY <1>3, <2>4, <3>1
            DEF TryReacquire, apiVars, semVars, diagVars, envVars, TypeInv, TypeOK
  <2> QED BY <1>3, <2>2, <2>3, <2>4 DEF TryReacquire
<1>4. ASSUME NEW c \in Callers, AcquireDiagnostics(c) PROVE TypeInv'
  <2>1. call[c].request \in Requests \cup {NoRequest} /\ pc[c] # "idle"
    BY <1>4, <1>c, CallFields DEF AcquireDiagnostics
  <2>2. /\ requestAssociations' \in [Requests -> Slots \cup {NoSlot}]
        /\ afterFuncs' \in [Requests -> Nat]
    BY <1>4, <1>e, <1>g, <2>1 DEF AcquireDiagnostics
  <2>3. heldBy' \in [Slots -> Requests \cup {Anonymous, NotHeld}]
    BY <1>4, <1>a, <1>f, <2>1 DEF AcquireDiagnostics
  <2>4. PICK x \in Instances :
          /\ Return(c, DiagIndex, x)
          /\ checkers' \in [Slots -> Instances \cup {None}]
          /\ globals' \in SUBSET Diags
    BY <1>4, <1>a, <1>d, <1>e DEF AcquireDiagnostics, Present
  <2>5. /\ pc' \in [Callers -> PCs] /\ call' \in [Callers -> Calls]
        /\ slot' \in [Callers -> Slots \cup {NoSlot}]
        /\ inst' \in [Callers -> Instances \cup {None}]
        /\ CallOK'
    BY <1>e, <1>i, <2>1, <2>4
  <2> QED BY <1>4, <2>2, <2>3, <2>4, <2>5
          DEF AcquireDiagnostics, apiVars, semVars, TypeInv, TypeOK
<1>5. ASSUME NEW c \in Callers, AcquireQuery(c) PROVE TypeInv'
  <2> DEFINE r == call[c].request
  <2>1. r \in Requests \cup {NoRequest} /\ pc[c] # "idle"
    BY <1>5, <1>c, CallFields DEF AcquireQuery
  <2>2. PICK i \in QuerySlots :
          /\ heldBy' = [heldBy EXCEPT ![i] = HoldTag(r)]
          /\ Associate(r, i)
          /\ \/ Present(i) /\ Return(c, i, checkers[i]) /\ UNCHANGED checkers
             \/ \E x \in Unreferenced :
                  Return(c, i, x) /\ checkers' = [checkers EXCEPT ![i] = x]
          /\ \/ UNCHANGED fileAssociations
             \/ fileAssociations' = [g \in Files |-> IF g = call[c].file THEN i
                                                     ELSE fileAssociations[g]]
    BY <1>5 DEF AcquireQuery, FileMatch, FirstIdle, Idle
  <2>3. i \in Slots
    BY <1>e
  <2>4. /\ requestAssociations' \in [Requests -> Slots \cup {NoSlot}]
        /\ afterFuncs' \in [Requests -> Nat]
    BY <1>g, <2>1, <2>2, <2>3
  <2>5. heldBy' \in [Slots -> Requests \cup {Anonymous, NotHeld}]
    BY <1>a, <1>f, <2>1, <2>2
  <2>6. fileAssociations' \in [Files -> QuerySlots \cup {NoSlot}]
    BY <1>b, <2>2
  <2>7. PICK x \in Instances :
          Return(c, i, x) /\ checkers' \in [Slots -> Instances \cup {None}]
    BY <1>a, <1>e, <2>2, <2>3 DEF Present
  <2>8. /\ pc' \in [Callers -> PCs] /\ call' \in [Callers -> Calls]
        /\ slot' \in [Callers -> Slots \cup {NoSlot}]
        /\ inst' \in [Callers -> Instances \cup {None}]
        /\ CallOK'
    BY <1>i, <2>1, <2>3, <2>7
  <2> QED BY <1>5, <2>4, <2>5, <2>6, <2>7, <2>8
          DEF AcquireQuery, apiVars, semVars, diagVars, TypeInv, TypeOK
<1>6. ASSUME NEW c \in Callers, AcquirePersistent(c) PROVE TypeInv'
  <2>1. persistentChecker' \in Instances /\ pc[c] # "idle"
    BY <1>6, <1>d, <1>e DEF AcquirePersistent
  <2>2. /\ pc' \in [Callers -> PCs] /\ call' \in [Callers -> Calls]
        /\ slot' \in [Callers -> Slots \cup {NoSlot}]
        /\ inst' \in [Callers -> Instances \cup {None}]
        /\ CallOK'
    BY <1>6, <1>i, <2>1 DEF AcquirePersistent
  <2> QED BY <1>6, <2>1, <2>2
          DEF AcquirePersistent, poolVars, semVars, diagVars, envVars, TypeInv, TypeOK
<1>k. ASSUME NEW c \in Callers, pc' = [pc EXCEPT ![c] = "unlocked"], UNCHANGED call, pc[c] = "using",
             slot' = [slot EXCEPT ![c] = NoSlot], inst' = [inst EXCEPT ![c] = None]
      PROVE  /\ pc' \in [Callers -> PCs] /\ CallOK'
             /\ slot' \in [Callers -> Slots \cup {NoSlot}]
             /\ inst' \in [Callers -> Instances \cup {None}]
  BY <1>c, <1>k DEF PCs, CallOK
<1>7. ASSUME NEW c \in Callers, Release(c) PROVE TypeInv'
  <2>1. /\ pc' \in [Callers -> PCs] /\ CallOK'
        /\ slot' \in [Callers -> Slots \cup {NoSlot}]
        /\ inst' \in [Callers -> Instances \cup {None}]
    BY <1>7, <1>k DEF Release
  <2>2. canceled' \in SUBSET Instances
    BY <1>7, <1>d DEF Release, Forget
  <2>3. CASE Dispose({slot[c]}) /\ UNCHANGED <<cleanupTimer, globalDiagAccumulated, globalDiagChanged>>
    BY <1>7, <1>h, <2>1, <2>2, <2>3 DEF Release, apiVars, semVars, TypeInv, TypeOK
  <2>4. CASE /\ IF slot[c] = DiagIndex THEN MergeGlobalDiagnostics
                ELSE UNCHANGED <<globalDiagAccumulated, globalDiagChanged, globalDiagCount>>
             /\ heldBy' = [heldBy EXCEPT ![slot[c]] = NotHeld]
             /\ lastReleased' = [lastReleased EXCEPT ![slot[c]] = "recent"]
             /\ cleanupTimer' = IF discarded THEN cleanupTimer
                                ELSE TimerFor(checkers, heldBy', lastReleased')
             /\ UNCHANGED <<checkers, fileAssociations, requestAssociations>>
    <3>1. /\ heldBy' \in [Slots -> Requests \cup {Anonymous, NotHeld}]
          /\ lastReleased' \in [Slots -> Ages]
      BY <1>a, <2>4 DEF Ages
    <3>2. Cardinality(globals) \in Nat
      BY <1>d, DiagsAssumption, FS_Subset, FS_CardinalityType
    <3>3. /\ globalDiagCount' \in Nat /\ globalDiagAccumulated' \in SUBSET Diags
          /\ globalDiagChanged' \in BOOLEAN
      BY <1>d, <2>4, <3>2 DEF MergeGlobalDiagnostics
    <3>4. cleanupTimer' \in {"off", "armed"}
      BY <2>4 DEF TimerFor, TypeInv, TypeOK
    <3> QED BY <1>7, <2>1, <2>2, <2>4, <3>1, <3>3, <3>4
            DEF Release, apiVars, semVars, TypeInv, TypeOK
  <2> QED BY <1>7, <2>3, <2>4 DEF Release
<1>8. ASSUME NEW c \in Callers, ReleasePersistent(c) PROVE TypeInv'
  <2>1. /\ pc' \in [Callers -> PCs] /\ CallOK'
        /\ slot' \in [Callers -> Slots \cup {NoSlot}]
        /\ inst' \in [Callers -> Instances \cup {None}]
    BY <1>8, <1>k DEF ReleasePersistent
  <2>2. canceled' \in SUBSET Instances /\ persistentChecker' \in Instances \cup {None}
    BY <1>8, <1>d DEF ReleasePersistent, Forget
  <2> QED BY <1>8, <2>1, <2>2 DEF ReleasePersistent, poolVars, semVars, diagVars, TypeInv, TypeOK
<1>9. ASSUME NEW c \in Callers, ReleaseSemaphore(c) PROVE TypeInv'
  <2>1. NoCall \in Calls
    BY DEF Calls
  <2>2. pc' \in [Callers -> PCs] /\ call' \in [Callers -> Calls] /\ CallOK'
    BY <1>9, <1>c, <2>1 DEF ReleaseSemaphore, PCs, CallOK
  <2>3. diagSem' \in SUBSET Callers /\ querySem' \in SUBSET Callers
        /\ persistentSem' \in SUBSET Callers
    BY <1>9 DEF ReleaseSemaphore, TypeInv, TypeOK
  <2> QED BY <1>9, <2>2, <2>3
          DEF ReleaseSemaphore, poolVars, apiVars, diagVars, envVars, TypeInv, TypeOK
<1>l. ASSUME UNCHANGED <<pc, call, inst>> PROVE CallOK'
  BY <1>c, <1>l DEF CallOK
<1>10. ASSUME NEW c \in Callers, CancelChecker(c) PROVE TypeInv'
  <2>1. canceled' \in SUBSET Instances
    BY <1>10, <1>c, <1>d DEF CancelChecker, CallOK
  <2> QED BY <1>10, <2>1, <1>l
          DEF CancelChecker, poolVars, apiVars, semVars, diagVars, callVars, TypeInv, TypeOK
<1>11. ASSUME NEW c \in Callers, ProduceGlobalDiagnostic(c) PROVE TypeInv'
  <2>1. globals' \in SUBSET Diags
    BY <1>11, <1>d DEF ProduceGlobalDiagnostic
  <2> QED BY <1>11, <2>1, <1>l
          DEF ProduceGlobalDiagnostic, poolVars, apiVars, semVars, callVars, envVars, TypeInv, TypeOK
<1>12. ASSUME NEW i \in Slots, Expire(i) PROVE TypeInv'
  <2>1. lastReleased' \in [Slots -> Ages]
    BY <1>12, <1>a DEF Expire, Ages
  <2> QED BY <1>12, <2>1, <1>l
          DEF Expire, apiVars, semVars, diagVars, callVars, envVars, TypeInv, TypeOK
<1>13. ASSUME TimerFires PROVE TypeInv'
  <2>1. callbacks' \in Nat
    BY <1>13, <1>b DEF TimerFires
  <2> QED BY <1>13, <2>1, <1>l
          DEF TimerFires, apiVars, semVars, diagVars, callVars, TypeInv, TypeOK
<1>14. ASSUME CleanupIdleCheckers PROVE TypeInv'
  <2>1. callbacks' \in Nat
    BY <1>14, <1>b DEF CleanupIdleCheckers
  <2>2. CASE UNCHANGED <<poolVars, globalDiagCount>>
    BY <1>14, <2>1, <2>2, <1>l
       DEF CleanupIdleCheckers, poolVars, apiVars, callVars, semVars, TypeInv, TypeOK
  <2>3. CASE Dispose({i \in Slots : IdleTooLong(i)}) /\ Rearm /\ UNCHANGED discarded
    <3>1. cleanupTimer' \in {"off", "armed"}
      BY <2>3 DEF Rearm, TimerFor
    <3>2. /\ checkers' \in [Slots -> Instances \cup {None}]
          /\ heldBy' \in [Slots -> Requests \cup {Anonymous, NotHeld}]
          /\ lastReleased' \in [Slots -> Ages]
          /\ fileAssociations' \in [Files -> QuerySlots \cup {NoSlot}]
          /\ requestAssociations' \in [Requests -> Slots \cup {NoSlot}]
          /\ globalDiagCount' \in Nat
      BY <2>3, <1>h
    <3> QED BY <1>14, <2>1, <2>3, <3>1, <3>2, <1>l
            DEF CleanupIdleCheckers, apiVars, callVars, semVars, TypeInv, TypeOK
  <2> QED BY <1>14, <2>2, <2>3 DEF CleanupIdleCheckers
<1>15. ASSUME Discard PROVE TypeInv'
  BY <1>15, <1>l DEF Discard, apiVars, semVars, diagVars, callVars, envVars, TypeInv, TypeOK
<1>16. ASSUME NEW r \in Requests, FinishRequest(r) PROVE TypeInv'
  BY <1>16, <1>l
     DEF FinishRequest, poolVars, apiVars, semVars, diagVars, callVars, TypeInv, TypeOK
<1>17. ASSUME NEW r \in Requests, RequestCleanup(r) PROVE TypeInv'
  <2>1. /\ afterFuncs' \in [Requests -> Nat]
        /\ requestAssociations' \in [Requests -> Slots \cup {NoSlot}]
    BY <1>17, <1>b DEF RequestCleanup
  <2> QED BY <1>17, <2>1, <1>l
          DEF RequestCleanup, apiVars, semVars, diagVars, callVars, TypeInv, TypeOK
<1>18. ASSUME TakeNewGlobalDiagnostics PROVE TypeInv'
  BY <1>18, <1>l
     DEF TakeNewGlobalDiagnostics, poolVars, apiVars, semVars, callVars, envVars, TypeInv, TypeOK
<1>19. ASSUME UNCHANGED vars PROVE TypeInv'
  BY <1>19, <1>l
     DEF vars, poolVars, apiVars, semVars, diagVars, callVars, envVars, TypeInv, TypeOK
<1> QED BY <1>1, <1>2, <1>3, <1>4, <1>5, <1>6, <1>7, <1>8, <1>9, <1>10, <1>11, <1>12, <1>13,
           <1>14, <1>15, <1>16, <1>17, <1>18, <1>19 DEF Next, Step

\* The state of the pool is always well typed (the run pool_mixed checks it for two goroutines).
THEOREM TypeCorrect == Spec => []TypeOK
<1>1. TypeInv => TypeOK
  BY DEF TypeInv
<1> QED BY InitType, TypeStep, <1>1, PTL DEF Spec

-----------------------------------------------------------------------------
(* Exclusive use. *)

HasToken(c) == pc[c] \in {"reacquire", "acquire", "using", "unlocked"}

\* A token belongs to the goroutine that claimed it, from the claim to its return.
Tokens ==
  /\ \A c \in Callers : c \in diagSem <=> HasToken(c) /\ call[c].kind = "diagnostics"
  /\ \A c \in Callers : c \in querySem <=> HasToken(c) /\ call[c].kind = "query"
  /\ \A c \in Callers : c \in persistentSem <=> HasToken(c) /\ call[c].kind = "api"
  /\ \A c, d \in diagSem : c = d
  /\ \A c, d \in persistentSem : c = d
  /\ Cardinality(querySem) <= MaxCheckers - 1

Owns(c, i) == pc[c] = "using" /\ call[c].kind # "api" /\ slot[c] = i

\* A goroutine that has a checker owns its slot, alone, and a held slot has an owner.
Owners ==
  /\ \A c \in Callers : pc[c] = "using" /\ call[c].kind # "api" =>
       /\ slot[c] \in Slots /\ RightCategory(call[c].kind, slot[c])
       /\ checkers[slot[c]] = inst[c]
       /\ heldBy[slot[c]] = HoldTag(call[c].request)
  /\ \A c, d \in Callers, i \in Slots : Owns(c, i) /\ Owns(d, i) => c = d
  /\ \A i \in Slots : heldBy[i] # NotHeld => \E c \in Callers : Owns(c, i)
  /\ \A c \in Callers : pc[c] = "using" /\ call[c].kind = "api" =>
       inst[c] = persistentChecker /\ persistentHeld

\* No checker object is in two places of the pool.
Distinct ==
  /\ \A i, j \in Slots : checkers[i] = checkers[j] /\ i # j => checkers[i] = None
  /\ \A i \in Slots : checkers[i] = persistentChecker => checkers[i] = None

PoolInv == Tokens /\ Owners /\ Distinct

\* The diagnostics slot is not a query slot.
LEMMA SlotFacts == /\ QuerySlots \subseteq Slots /\ DiagIndex \in Slots
                   /\ DiagIndex \notin QuerySlots
  BY DEF Slots, QuerySlots, DiagIndex

\* There is a query slot for each token of querySem.
LEMMA QuerySlotsCount == Cardinality(QuerySlots) = MaxCheckers - 1
<1>1. 1 \in Int /\ MaxCheckers - 1 \in Int /\ ~(1 > MaxCheckers - 1)
  BY MaxCheckersAssumption
<1>2. Cardinality(1 .. MaxCheckers - 1) = (MaxCheckers - 1) - 1 + 1
  BY <1>1, FS_Interval
<1> QED BY <1>1, <1>2 DEF QuerySlots

\* A slot with a hold tag is held.
LEMMA HoldTagIsHeld ==
  ASSUME NEW r \in Requests \cup {NoRequest}
  PROVE  HoldTag(r) # NotHeld
  BY NamesAssumption DEF HoldTag

\* The pool starts empty.
LEMMA InitPool == Init => PoolInv
<1> SUFFICES ASSUME Init PROVE PoolInv
  OBVIOUS
<1>1. Cardinality(querySem) <= MaxCheckers - 1
  <2>1. querySem = {} /\ Cardinality({}) = 0
    BY FS_EmptySet DEF Init
  <2> QED BY <2>1, MaxCheckersAssumption
<1>2. Tokens
  BY <1>1 DEF Init, Tokens, HasToken
<1> QED BY <1>2 DEF Init, PoolInv, Owners, Owns, Distinct

coreVars == <<pc, call, slot, inst, checkers, heldBy, apiVars, semVars>>

\* What the pool's invariant does not speak of may change.
LEMMA CoreUnchanged == PoolInv /\ UNCHANGED coreVars => PoolInv'
<1> SUFFICES ASSUME PoolInv, UNCHANGED coreVars PROVE PoolInv'
  OBVIOUS
<1>1. /\ pc' = pc /\ call' = call /\ slot' = slot /\ inst' = inst
      /\ checkers' = checkers /\ heldBy' = heldBy
      /\ persistentChecker' = persistentChecker /\ persistentHeld' = persistentHeld
      /\ diagSem' = diagSem /\ querySem' = querySem /\ persistentSem' = persistentSem
  BY DEF coreVars, apiVars, semVars
<1>2. Tokens'
  BY <1>1 DEF PoolInv, Tokens, HasToken
<1>3. Owners'
  BY <1>1 DEF PoolInv, Owners, Owns, RightCategory
<1>4. Distinct'
  BY <1>1 DEF PoolInv, Distinct
<1> QED BY <1>2, <1>3, <1>4 DEF PoolInv

\* Goroutine c takes a slot that nobody owns.
LEMMA TakeSlot ==
  ASSUME TypeInv, PoolInv, NEW c \in Callers, NEW i \in Slots, NEW x \in Instances,
         pc[c] \in {"reacquire", "acquire"}, RightCategory(call[c].kind, i),
         call[c].kind # "api", \A d \in Callers : ~Owns(d, i),
         x = checkers[i] \/ x \in Unreferenced,
         Return(c, i, x), checkers' = [checkers EXCEPT ![i] = x],
         heldBy' = [heldBy EXCEPT ![i] = HoldTag(call[c].request)],
         UNCHANGED <<apiVars, semVars>>
  PROVE  PoolInv'
<1>1. /\ checkers \in [Slots -> Instances \cup {None}]
      /\ heldBy \in [Slots -> Requests \cup {Anonymous, NotHeld}]
      /\ pc \in [Callers -> PCs] /\ call \in [Callers -> Calls]
      /\ slot \in [Callers -> Slots \cup {NoSlot}]
      /\ inst \in [Callers -> Instances \cup {None}]
  BY DEF TypeInv, TypeOK
<1>2. /\ UNCHANGED <<call, persistentChecker, persistentHeld, diagSem, querySem, persistentSem>>
      /\ pc' = [pc EXCEPT ![c] = "using"] /\ slot' = [slot EXCEPT ![c] = i]
      /\ inst' = [inst EXCEPT ![c] = x]
  BY DEF Return, apiVars, semVars
<1>3. Tokens'
  BY <1>1, <1>2 DEF PoolInv, Tokens, HasToken
<1>4. \A d \in Callers : d # c =>
        pc'[d] = pc[d] /\ slot'[d] = slot[d] /\ inst'[d] = inst[d]
  BY <1>1, <1>2
<1>5. pc'[c] = "using" /\ slot'[c] = i /\ inst'[c] = x
  BY <1>1, <1>2
<1>6. \A j \in Slots : j # i => checkers'[j] = checkers[j] /\ heldBy'[j] = heldBy[j]
  BY <1>1
<1>7. checkers'[i] = x /\ heldBy'[i] = HoldTag(call[c].request)
  BY <1>1
<1>8. Owners'
  <2>1. ASSUME NEW d \in Callers, pc'[d] = "using", call'[d].kind # "api"
        PROVE  /\ slot'[d] \in Slots /\ RightCategory(call'[d].kind, slot'[d])
               /\ checkers'[slot'[d]] = inst'[d]
               /\ heldBy'[slot'[d]] = HoldTag(call'[d].request)
    <3>1. CASE d = c
      BY <3>1, <1>2, <1>5, <1>7 DEF RightCategory
    <3>2. CASE d # c
      <4>1. slot[d] # i /\ slot[d] \in Slots
        BY <3>2, <2>1, <1>2, <1>4 DEF PoolInv, Owners, Owns
      <4>2. /\ pc[d] = "using" /\ call[d].kind # "api"
            /\ slot'[d] = slot[d] /\ inst'[d] = inst[d] /\ call'[d] = call[d]
        BY <3>2, <2>1, <1>2, <1>4
      <4>3. /\ RightCategory(call[d].kind, slot[d])
            /\ checkers[slot[d]] = inst[d]
            /\ heldBy[slot[d]] = HoldTag(call[d].request)
        BY <4>2 DEF PoolInv, Owners
      <4>4. checkers'[slot[d]] = checkers[slot[d]] /\ heldBy'[slot[d]] = heldBy[slot[d]]
        BY <4>1, <1>6
      <4> QED BY <4>1, <4>2, <4>3, <4>4
    <3> QED BY <3>1, <3>2
  <2>2. ASSUME NEW d \in Callers, NEW e \in Callers, NEW j \in Slots, Owns(d, j)', Owns(e, j)'
        PROVE  d = e
    <3>1. CASE d # c /\ e # c
      <4>1. Owns(d, j) /\ Owns(e, j)
        BY <2>2, <3>1, <1>2, <1>4 DEF Owns
      <4> QED BY <4>1 DEF PoolInv, Owners
    <3>2. CASE d = c /\ e # c
      BY <2>2, <3>2, <1>2, <1>4, <1>5 DEF Owns
    <3>3. CASE d # c /\ e = c
      BY <2>2, <3>3, <1>2, <1>4, <1>5 DEF Owns
    <3> QED BY <3>1, <3>2, <3>3
  <2>3. ASSUME NEW j \in Slots, heldBy'[j] # NotHeld PROVE \E d \in Callers : Owns(d, j)'
    <3>1. CASE j = i
      BY <3>1, <1>2, <1>5 DEF Owns
    <3>2. CASE j # i
      <4>1. PICK d \in Callers : Owns(d, j)
        BY <3>2, <2>3, <1>6 DEF PoolInv, Owners
      <4>2. d # c
        BY <4>1 DEF Owns
      <4> QED BY <4>1, <4>2, <1>2, <1>4 DEF Owns
    <3> QED BY <3>1, <3>2
  <2>4. ASSUME NEW d \in Callers, pc'[d] = "using", call'[d].kind = "api"
        PROVE  inst'[d] = persistentChecker' /\ persistentHeld'
    <3>1. d # c
      BY <2>4, <1>2
    <3> QED BY <2>4, <3>1, <1>2, <1>4 DEF PoolInv, Owners
  <2> QED BY <2>1, <2>2, <2>3, <2>4 DEF Owners
<1>9. Distinct'
  <2>1. CASE x = checkers[i]
    <3>1. checkers' = checkers
      BY <2>1, <1>1, <1>6, <1>7
    <3> QED BY <3>1, <1>2 DEF PoolInv, Distinct
  <2>2. CASE x \in Unreferenced
    <3>1. x # persistentChecker /\ \A j \in Slots : x # checkers[j]
      BY <2>2 DEF Unreferenced
    <3> QED BY <3>1, <1>2, <1>6, <1>7 DEF PoolInv, Distinct
  <2> QED BY <2>1, <2>2
<1> QED BY <1>3, <1>8, <1>9 DEF PoolInv

\* Goroutine c gives its slot back, leaving checker y (or nil) in it.
LEMMA GiveSlot ==
  ASSUME TypeInv, PoolInv, NEW c \in Callers, NEW i \in Slots, NEW y,
         Owns(c, i), y = checkers[i] \/ y = None,
         \A j \in Slots : checkers'[j] = IF j = i THEN y ELSE checkers[j],
         \A j \in Slots : heldBy'[j] = IF j = i THEN NotHeld ELSE heldBy[j],
         pc' = [pc EXCEPT ![c] = "unlocked"], slot' = [slot EXCEPT ![c] = NoSlot],
         inst' = [inst EXCEPT ![c] = None], UNCHANGED <<call, apiVars, semVars>>
  PROVE  PoolInv'
<1>1. /\ checkers \in [Slots -> Instances \cup {None}]
      /\ pc \in [Callers -> PCs] /\ call \in [Callers -> Calls]
      /\ slot \in [Callers -> Slots \cup {NoSlot}]
      /\ inst \in [Callers -> Instances \cup {None}]
  BY DEF TypeInv, TypeOK
<1>2. UNCHANGED <<call, persistentChecker, persistentHeld, diagSem, querySem, persistentSem>>
  BY DEF apiVars, semVars
<1>3. Tokens'
  <2>1. \A d \in Callers : HasToken(d)' <=> HasToken(d)
    BY <1>1 DEF HasToken, Owns
  <2> QED BY <2>1, <1>2 DEF PoolInv, Tokens
<1>4. \A d \in Callers : d # c =>
        pc'[d] = pc[d] /\ slot'[d] = slot[d] /\ inst'[d] = inst[d] /\ call'[d] = call[d]
  BY <1>1, <1>2
<1>5. pc'[c] = "unlocked"
  BY <1>1
<1>6. Owners'
  <2>1. ASSUME NEW d \in Callers, pc'[d] = "using", call'[d].kind # "api"
        PROVE  /\ slot'[d] \in Slots /\ RightCategory(call'[d].kind, slot'[d])
               /\ checkers'[slot'[d]] = inst'[d]
               /\ heldBy'[slot'[d]] = HoldTag(call'[d].request)
    <3>1. d # c
      BY <2>1, <1>5
    <3>2. /\ pc[d] = "using" /\ call[d].kind # "api" /\ slot[d] \in Slots
          /\ slot'[d] = slot[d] /\ inst'[d] = inst[d] /\ call'[d] = call[d]
      BY <2>1, <3>1, <1>4 DEF PoolInv, Owners
    <3>3. slot[d] # i
      BY <3>1, <3>2 DEF PoolInv, Owners, Owns
    <3>4. /\ RightCategory(call[d].kind, slot[d])
          /\ checkers[slot[d]] = inst[d]
          /\ heldBy[slot[d]] = HoldTag(call[d].request)
      BY <3>2 DEF PoolInv, Owners
    <3> QED BY <3>2, <3>3, <3>4
  <2>2. ASSUME NEW d \in Callers, NEW e \in Callers, NEW j \in Slots, Owns(d, j)', Owns(e, j)'
        PROVE  d = e
    <3>1. d # c /\ e # c
      BY <2>2, <1>5 DEF Owns
    <3>2. Owns(d, j) /\ Owns(e, j)
      BY <2>2, <3>1, <1>4 DEF Owns
    <3> QED BY <3>2 DEF PoolInv, Owners
  <2>3. ASSUME NEW j \in Slots, heldBy'[j] # NotHeld PROVE \E d \in Callers : Owns(d, j)'
    <3>1. j # i /\ heldBy[j] # NotHeld
      BY <2>3
    <3>2. PICK d \in Callers : Owns(d, j)
      BY <3>1 DEF PoolInv, Owners
    <3>3. d # c
      BY <3>1, <3>2 DEF Owns
    <3> QED BY <3>2, <3>3, <1>4 DEF Owns
  <2>4. ASSUME NEW d \in Callers, pc'[d] = "using", call'[d].kind = "api"
        PROVE  inst'[d] = persistentChecker' /\ persistentHeld'
    <3>1. d # c
      BY <2>4, <1>5
    <3> QED BY <2>4, <3>1, <1>2, <1>4 DEF PoolInv, Owners
  <2> QED BY <2>1, <2>2, <2>3, <2>4 DEF Owners
<1>7. Distinct'
  BY <1>2 DEF PoolInv, Distinct
<1> QED BY <1>3, <1>6, <1>7 DEF PoolInv

\* Nobody owns a slot that is not held.
LEMMA NotHeldNotOwned ==
  ASSUME TypeInv, PoolInv, NEW i \in Slots, heldBy[i] = NotHeld
  PROVE  \A d \in Callers : ~Owns(d, i)
<1> SUFFICES ASSUME NEW d \in Callers, Owns(d, i) PROVE FALSE
  OBVIOUS
<1>1. heldBy[i] = HoldTag(call[d].request)
  BY DEF PoolInv, Owners, Owns
<1>2. call[d].request \in Requests \cup {NoRequest}
  BY CallFields DEF TypeInv, TypeOK
<1> QED BY <1>1, <1>2, HoldTagIsHeld

\* Nobody owns an empty slot.
LEMMA EmptyNotOwned ==
  ASSUME TypeInv, PoolInv, NEW i \in Slots, ~Present(i)
  PROVE  \A d \in Callers : ~Owns(d, i)
<1> SUFFICES ASSUME NEW d \in Callers, Owns(d, i) PROVE FALSE
  OBVIOUS
<1>1. checkers[i] = inst[d]
  BY DEF PoolInv, Owners, Owns
<1>2. inst[d] \in Instances
  BY DEF TypeInv, CallOK, Owns
<1> QED BY <1>1, <1>2, NamesAssumption DEF Present

\* A step that changes only where goroutine c is, between claim and acquisition.
LEMMA MoveOn ==
  ASSUME TypeInv, PoolInv, NEW c \in Callers, pc[c] = "reacquire",
         pc' = [pc EXCEPT ![c] = "acquire"],
         UNCHANGED <<call, slot, inst, checkers, heldBy, apiVars, semVars>>
  PROVE  PoolInv'
<1>1. pc \in [Callers -> PCs]
  BY DEF TypeInv, TypeOK
<1>2. /\ call' = call /\ slot' = slot /\ inst' = inst
      /\ checkers' = checkers /\ heldBy' = heldBy
      /\ persistentChecker' = persistentChecker /\ persistentHeld' = persistentHeld
      /\ diagSem' = diagSem /\ querySem' = querySem /\ persistentSem' = persistentSem
  BY DEF apiVars, semVars
<1>3. \A d \in Callers : (HasToken(d)' <=> HasToken(d)) /\ (pc'[d] = "using" <=> pc[d] = "using")
  BY <1>1 DEF HasToken
<1>4. Tokens'
  BY <1>2, <1>3 DEF PoolInv, Tokens
<1>5. \A d \in Callers, i \in Slots : Owns(d, i)' <=> Owns(d, i)
  BY <1>2, <1>3 DEF Owns
<1>6. Owners'
  BY <1>2, <1>3, <1>5 DEF PoolInv, Owners, RightCategory
<1>7. Distinct'
  BY <1>2 DEF PoolInv, Distinct
<1> QED BY <1>4, <1>6, <1>7 DEF PoolInv

\* A step in which goroutine c, which has no checker before or after, calls, claims or
\* returns a token: only the tokens change.
LEMMA TokenStep ==
  ASSUME TypeInv, PoolInv, NEW c \in Callers, pc[c] # "using", pc'[c] # "using",
         \A d \in Callers : d # c => pc'[d] = pc[d] /\ call'[d] = call[d],
         UNCHANGED <<slot, inst, checkers, heldBy, apiVars>>, Tokens'
  PROVE  PoolInv'
<1>1. /\ slot' = slot /\ inst' = inst /\ checkers' = checkers /\ heldBy' = heldBy
      /\ persistentChecker' = persistentChecker /\ persistentHeld' = persistentHeld
  BY DEF apiVars
<1>2. \A d \in Callers : pc'[d] = "using" => d # c /\ pc[d] = "using" /\ call'[d] = call[d]
  OBVIOUS
<1>3. \A d \in Callers : pc[d] = "using" => pc'[d] = "using" /\ call'[d] = call[d]
  OBVIOUS
<1>4. \A d \in Callers, i \in Slots : Owns(d, i)' <=> Owns(d, i)
  BY <1>1, <1>2, <1>3 DEF Owns
<1>5. Owners'
  <2>1. \A d \in Callers : pc'[d] = "using" /\ call'[d].kind # "api" =>
           /\ slot'[d] \in Slots /\ RightCategory(call'[d].kind, slot'[d])
           /\ checkers'[slot'[d]] = inst'[d]
           /\ heldBy'[slot'[d]] = HoldTag(call'[d].request)
    BY <1>1, <1>2 DEF PoolInv, Owners, RightCategory
  <2>2. \A d, e \in Callers, i \in Slots : Owns(d, i)' /\ Owns(e, i)' => d = e
    BY <1>4 DEF PoolInv, Owners
  <2>3. \A i \in Slots : heldBy'[i] # NotHeld => \E d \in Callers : Owns(d, i)'
    BY <1>1, <1>4 DEF PoolInv, Owners
  <2>4. \A d \in Callers : pc'[d] = "using" /\ call'[d].kind = "api" =>
           inst'[d] = persistentChecker' /\ persistentHeld'
    BY <1>1, <1>2 DEF PoolInv, Owners
  <2> QED BY <2>1, <2>2, <2>3, <2>4 DEF Owners
<1>6. Distinct'
  BY <1>1 DEF PoolInv, Distinct
<1> QED BY <1>5, <1>6 DEF PoolInv

\* Every step keeps the pool's invariant.
LEMMA PoolStep == TypeInv /\ PoolInv /\ [Next]_vars => PoolInv'
<1> SUFFICES ASSUME TypeInv, PoolInv, [Next]_vars PROVE PoolInv'
  OBVIOUS
<1>a. /\ checkers \in [Slots -> Instances \cup {None}]
      /\ heldBy \in [Slots -> Requests \cup {Anonymous, NotHeld}]
      /\ pc \in [Callers -> PCs] /\ call \in [Callers -> Calls]
      /\ slot \in [Callers -> Slots \cup {NoSlot}]
      /\ inst \in [Callers -> Instances \cup {None}]
      /\ diagSem \subseteq Callers /\ querySem \subseteq Callers /\ persistentSem \subseteq Callers
      /\ requestAssociations \in [Requests -> Slots \cup {NoSlot}]
      /\ CallOK
  BY DEF TypeInv, TypeOK
<1>b. DiagIndex \in Slots /\ QuerySlots \subseteq Slots /\ DiagIndex \notin QuerySlots
  BY SlotFacts
<1>c. IsFiniteSet(querySem) /\ MaxCheckers - 1 \in Nat
  <2>1. IsFiniteSet(querySem)
    BY <1>a, CallersAssumption, FS_Subset
  <2> QED BY <2>1, MaxCheckersAssumption
<1>1. ASSUME NEW c \in Callers, NEW k \in Kinds, NEW r \in Requests \cup {NoRequest},
             NEW f \in Files \cup {NoFile}, Call(c, k, r, f)
      PROVE  PoolInv'
  <2>1. /\ pc[c] = "idle" /\ pc'[c] = "claim"
        /\ \A d \in Callers : d # c => pc'[d] = pc[d] /\ call'[d] = call[d]
        /\ UNCHANGED <<slot, inst, checkers, heldBy, apiVars, diagSem, querySem, persistentSem>>
    BY <1>1, <1>a DEF Call, poolVars, semVars
  <2>2. \A d \in Callers : HasToken(d)' <=> HasToken(d)
    BY <2>1 DEF HasToken
  <2>3. ~HasToken(c)
    BY <2>1 DEF HasToken
  <2>4. Tokens'
    BY <2>1, <2>2, <2>3 DEF PoolInv, Tokens
  <2> QED BY <2>1, <2>4, TokenStep
<1>2. ASSUME NEW c \in Callers, ClaimSemaphore(c) PROVE PoolInv'
  <2>1. /\ pc[c] = "claim" /\ pc'[c] \in {"reacquire", "acquire"}
        /\ \A d \in Callers : d # c => pc'[d] = pc[d]
        /\ UNCHANGED <<call, slot, inst, checkers, heldBy, apiVars>>
    BY <1>2, <1>a DEF ClaimSemaphore, poolVars
  <2>2. /\ HasToken(c)' /\ ~HasToken(c)
        /\ \A d \in Callers : d # c => (HasToken(d)' <=> HasToken(d))
    BY <2>1 DEF HasToken
  <2>3. c \notin diagSem /\ c \notin querySem /\ c \notin persistentSem
    BY <2>2 DEF PoolInv, Tokens
  <2>4. ASSUME call[c].kind = "diagnostics", OneToken(diagSem),
               diagSem' = diagSem \cup {c}, UNCHANGED <<querySem, persistentSem>>
        PROVE  Tokens'
    <3>1. \A d \in Callers : d \in diagSem' <=> d = c \/ d \in diagSem
      BY <2>4
    <3>2. \A d, e \in diagSem' : d = e
      BY <2>4 DEF OneToken
    <3>3. /\ \A d \in Callers : d \in diagSem' <=> HasToken(d)' /\ call'[d].kind = "diagnostics"
          /\ \A d \in Callers : d \in querySem' <=> HasToken(d)' /\ call'[d].kind = "query"
          /\ \A d \in Callers : d \in persistentSem' <=> HasToken(d)' /\ call'[d].kind = "api"
      BY <2>1, <2>2, <2>3, <2>4, <3>1 DEF PoolInv, Tokens
    <3>4. /\ \A d, e \in persistentSem' : d = e
          /\ Cardinality(querySem') <= MaxCheckers - 1
      BY <2>4 DEF PoolInv, Tokens
    <3> QED BY <3>2, <3>3, <3>4 DEF Tokens
  <2>5. ASSUME call[c].kind = "query", QueryToken,
               querySem' = querySem \cup {c}, UNCHANGED <<diagSem, persistentSem>>
        PROVE  Tokens'
    <3>1. Cardinality(querySem') <= MaxCheckers - 1
      <4>1. Cardinality(querySem') = Cardinality(querySem) + 1 /\ Cardinality(querySem) \in Nat
        BY <2>3, <2>5, <1>c, FS_AddElement, FS_CardinalityType
      <4> QED BY <4>1, <2>5, <1>c DEF QueryToken
    <3>2. \A d \in Callers : d \in querySem' <=> d = c \/ d \in querySem
      BY <2>5
    <3>3. /\ \A d \in Callers : d \in diagSem' <=> HasToken(d)' /\ call'[d].kind = "diagnostics"
          /\ \A d \in Callers : d \in querySem' <=> HasToken(d)' /\ call'[d].kind = "query"
          /\ \A d \in Callers : d \in persistentSem' <=> HasToken(d)' /\ call'[d].kind = "api"
      BY <2>1, <2>2, <2>3, <2>5, <3>2 DEF PoolInv, Tokens
    <3>4. (\A d, e \in diagSem' : d = e) /\ (\A d, e \in persistentSem' : d = e)
      BY <2>5 DEF PoolInv, Tokens
    <3> QED BY <3>1, <3>3, <3>4 DEF Tokens
  <2>6. ASSUME call[c].kind = "api", OneToken(persistentSem),
               persistentSem' = persistentSem \cup {c}, UNCHANGED <<diagSem, querySem>>
        PROVE  Tokens'
    <3>1. \A d \in Callers : d \in persistentSem' <=> d = c \/ d \in persistentSem
      BY <2>6
    <3>2. \A d, e \in persistentSem' : d = e
      BY <2>6 DEF OneToken
    <3>3. /\ \A d \in Callers : d \in diagSem' <=> HasToken(d)' /\ call'[d].kind = "diagnostics"
          /\ \A d \in Callers : d \in querySem' <=> HasToken(d)' /\ call'[d].kind = "query"
          /\ \A d \in Callers : d \in persistentSem' <=> HasToken(d)' /\ call'[d].kind = "api"
      BY <2>1, <2>2, <2>3, <2>6, <3>1 DEF PoolInv, Tokens
    <3>4. /\ \A d, e \in diagSem' : d = e
          /\ Cardinality(querySem') <= MaxCheckers - 1
      BY <2>6 DEF PoolInv, Tokens
    <3> QED BY <3>2, <3>3, <3>4 DEF Tokens
  <2>7. Tokens'
    BY <1>2, <2>4, <2>5, <2>6 DEF ClaimSemaphore
  <2> QED BY <2>1, <2>7, TokenStep
<1>3. ASSUME NEW c \in Callers, TryReacquire(c) PROVE PoolInv'
  <2> DEFINE r == call[c].request
             i == requestAssociations[r]
  <2>1. /\ pc[c] = "reacquire" /\ r \in Requests /\ call[c].kind # "api"
        /\ UNCHANGED <<checkers, apiVars, semVars>>
    BY <1>3, <1>a DEF TryReacquire, CallOK
  <2>2. CASE /\ i # NoSlot /\ RightCategory(call[c].kind, i) /\ Idle(i)
             /\ heldBy' = [heldBy EXCEPT ![i] = r] /\ Return(c, i, checkers[i])
    <3>1. i \in Slots
      BY <1>a, <2>1, <2>2
    <3>2. checkers[i] \in Instances /\ checkers' = [checkers EXCEPT ![i] = checkers[i]]
      BY <1>a, <2>1, <2>2, <3>1 DEF Idle, Present
    <3>3. HoldTag(r) = r
      BY <2>1, NamesAssumption DEF HoldTag
    <3>4. \A d \in Callers : ~Owns(d, i)
      BY <2>2, <3>1, NotHeldNotOwned DEF Idle
    <3>5. heldBy' = [heldBy EXCEPT ![i] = HoldTag(call[c].request)]
      BY <2>2, <3>3
    <3>6. RightCategory(call[c].kind, i) /\ Return(c, i, checkers[i])
      BY <2>2
    <3> HIDE DEF i
    <3> QED BY <2>1, <3>1, <3>2, <3>4, <3>5, <3>6, TakeSlot
  <2>3. CASE pc' = [pc EXCEPT ![c] = "acquire"] /\ UNCHANGED <<heldBy, call, slot, inst>>
    BY <2>1, <2>3, MoveOn
  <2> QED BY <1>3, <2>2, <2>3 DEF TryReacquire
<1>4. ASSUME NEW c \in Callers, AcquireDiagnostics(c) PROVE PoolInv'
  <2>1. /\ pc[c] = "acquire" /\ call[c].kind = "diagnostics"
        /\ heldBy' = [heldBy EXCEPT ![DiagIndex] = HoldTag(call[c].request)]
        /\ UNCHANGED <<apiVars, semVars>>
    BY <1>4 DEF AcquireDiagnostics
  <2>2. \A d \in Callers : ~Owns(d, DiagIndex)
    <3> SUFFICES ASSUME NEW d \in Callers, Owns(d, DiagIndex) PROVE FALSE
      OBVIOUS
    <3>1. call[d].kind = "diagnostics" /\ pc[d] = "using"
      BY <1>a, <1>b DEF PoolInv, Owners, Owns, RightCategory, CallOK
    <3>2. c \in diagSem /\ d \in diagSem
      BY <2>1, <3>1 DEF PoolInv, Tokens, HasToken
    <3>3. c = d
      BY <3>2 DEF PoolInv, Tokens
    <3> QED BY <2>1, <3>1, <3>3
  <2>3. PICK x \in Instances :
          /\ x = checkers[DiagIndex] \/ x \in Unreferenced
          /\ Return(c, DiagIndex, x) /\ checkers' = [checkers EXCEPT ![DiagIndex] = x]
    <3>1. CASE Present(DiagIndex) /\ Return(c, DiagIndex, checkers[DiagIndex])
               /\ UNCHANGED checkers
      BY <1>a, <1>b, <3>1 DEF Present
    <3>2. CASE \E x \in Unreferenced : /\ checkers' = [checkers EXCEPT ![DiagIndex] = x]
                                       /\ Return(c, DiagIndex, x)
      BY <3>2 DEF Unreferenced
    <3> QED BY <1>4, <3>1, <3>2 DEF AcquireDiagnostics
  <2>4. RightCategory(call[c].kind, DiagIndex)
    BY <2>1 DEF RightCategory
  <2> QED BY <1>b, <2>1, <2>2, <2>3, <2>4, TakeSlot
<1>5. ASSUME NEW c \in Callers, AcquireQuery(c) PROVE PoolInv'
  <2>1. pc[c] = "acquire" /\ call[c].kind = "query" /\ UNCHANGED <<apiVars, semVars>>
    BY <1>5 DEF AcquireQuery
  <2>2. PICK i \in QuerySlots :
          /\ heldBy' = [heldBy EXCEPT ![i] = HoldTag(call[c].request)]
          /\ \/ Idle(i) /\ Return(c, i, checkers[i]) /\ UNCHANGED checkers
             \/ \E x \in Unreferenced : /\ ~Present(i) /\ Return(c, i, x)
                                        /\ checkers' = [checkers EXCEPT ![i] = x]
    BY <1>5 DEF AcquireQuery, FileMatch, FirstIdle, FirstEmpty
  <2>3. i \in Slots /\ RightCategory(call[c].kind, i)
    BY <1>b, <2>1 DEF RightCategory
  <2>4. \A d \in Callers : ~Owns(d, i)
    BY <2>2, <2>3, NotHeldNotOwned, EmptyNotOwned DEF Idle
  <2>5. PICK x \in Instances :
          /\ x = checkers[i] \/ x \in Unreferenced
          /\ Return(c, i, x) /\ checkers' = [checkers EXCEPT ![i] = x]
    <3>1. CASE Idle(i) /\ Return(c, i, checkers[i]) /\ UNCHANGED checkers
      BY <1>a, <2>3, <3>1 DEF Idle, Present
    <3>2. CASE \E x \in Unreferenced : /\ ~Present(i) /\ Return(c, i, x)
                                       /\ checkers' = [checkers EXCEPT ![i] = x]
      BY <3>2 DEF Unreferenced
    <3> QED BY <2>2, <3>1, <3>2
  <2> QED BY <2>1, <2>2, <2>3, <2>4, <2>5, TakeSlot
<1>6. ASSUME NEW c \in Callers, AcquirePersistent(c) PROVE PoolInv'
  <2>0. persistentHeld'
    BY <1>6 DEF AcquirePersistent
  <2>1. /\ pc[c] = "acquire" /\ call[c].kind = "api"
        /\ \/ persistentChecker' = persistentChecker
           \/ persistentChecker = None /\ persistentChecker' \in Unreferenced
        /\ checkers' = checkers /\ heldBy' = heldBy /\ call' = call
        /\ diagSem' = diagSem /\ querySem' = querySem /\ persistentSem' = persistentSem
    BY <1>6 DEF AcquirePersistent, Return, poolVars, semVars
  <2>2. /\ pc'[c] = "using" /\ inst'[c] = persistentChecker'
        /\ \A d \in Callers : d # c =>
             pc'[d] = pc[d] /\ slot'[d] = slot[d] /\ inst'[d] = inst[d]
    BY <1>6, <1>a DEF AcquirePersistent, Return
  <2>3. Tokens'
    <3>1. \A d \in Callers : HasToken(d)' <=> HasToken(d)
      BY <2>1, <2>2 DEF HasToken
    <3> QED BY <3>1, <2>1 DEF PoolInv, Tokens
  <2>4. \A d \in Callers, i \in Slots : Owns(d, i)' <=> Owns(d, i)
    BY <2>1, <2>2 DEF Owns
  <2>5. \A d \in Callers : pc'[d] = "using" /\ call[d].kind = "api" => d = c
    <3> SUFFICES ASSUME NEW d \in Callers, pc'[d] = "using", call[d].kind = "api", d # c
                 PROVE  FALSE
      OBVIOUS
    <3>1. d \in persistentSem /\ c \in persistentSem
      BY <2>1, <2>2 DEF PoolInv, Tokens, HasToken
    <3> QED BY <3>1 DEF PoolInv, Tokens
  <2>6. Owners'
    <3>1. \A d \in Callers : pc'[d] = "using" /\ call'[d].kind # "api" =>
             /\ slot'[d] \in Slots /\ RightCategory(call'[d].kind, slot'[d])
             /\ checkers'[slot'[d]] = inst'[d]
             /\ heldBy'[slot'[d]] = HoldTag(call'[d].request)
      <4> SUFFICES ASSUME NEW d \in Callers, pc'[d] = "using", call'[d].kind # "api"
                   PROVE  /\ slot'[d] \in Slots /\ RightCategory(call'[d].kind, slot'[d])
                          /\ checkers'[slot'[d]] = inst'[d]
                          /\ heldBy'[slot'[d]] = HoldTag(call'[d].request)
        BY DEF RightCategory
      <4>1. d # c /\ pc[d] = "using" /\ call[d].kind # "api"
        BY <2>1, <2>2
      <4> QED BY <2>1, <2>2, <4>1 DEF PoolInv, Owners
    <3>2. \A d, e \in Callers, i \in Slots : Owns(d, i)' /\ Owns(e, i)' => d = e
      BY <2>4 DEF PoolInv, Owners
    <3>3. \A i \in Slots : heldBy'[i] # NotHeld => \E d \in Callers : Owns(d, i)'
      BY <2>1, <2>4 DEF PoolInv, Owners
    <3>4. \A d \in Callers : pc'[d] = "using" /\ call'[d].kind = "api" =>
             inst'[d] = persistentChecker' /\ persistentHeld'
      BY <2>0, <2>1, <2>2, <2>5
    <3> QED BY <3>1, <3>2, <3>3, <3>4 DEF Owners
  <2>7. Distinct'
    <3>1. CASE persistentChecker' = persistentChecker
      BY <2>1, <3>1 DEF PoolInv, Distinct
    <3>2. CASE persistentChecker' \in Unreferenced
      <4>1. \A i \in Slots : checkers[i] # persistentChecker'
        BY <3>2 DEF Unreferenced
      <4> QED BY <2>1, <4>1 DEF PoolInv, Distinct
    <3> QED BY <2>1, <3>1, <3>2
  <2> QED BY <2>3, <2>6, <2>7 DEF PoolInv
<1>7. ASSUME NEW c \in Callers, Release(c) PROVE PoolInv'
  <2> DEFINE i == slot[c]
  <2>1. /\ pc[c] = "using" /\ call[c].kind # "api"
        /\ pc' = [pc EXCEPT ![c] = "unlocked"] /\ slot' = [slot EXCEPT ![c] = NoSlot]
        /\ inst' = [inst EXCEPT ![c] = None] /\ UNCHANGED <<call, apiVars, semVars>>
    BY <1>7 DEF Release
  <2>2. Owns(c, i) /\ i \in Slots
    BY <2>1 DEF Owns, PoolInv, Owners
  <2>3. CASE Dispose({i})
    <3>1. \A j \in Slots : /\ checkers'[j] = IF j = i THEN None ELSE checkers[j]
                           /\ heldBy'[j] = IF j = i THEN NotHeld ELSE heldBy[j]
      BY <2>3 DEF Dispose
    <3> HIDE DEF i
    <3> QED BY <2>1, <2>2, <3>1, GiveSlot
  <2>4. CASE heldBy' = [heldBy EXCEPT ![i] = NotHeld] /\ UNCHANGED checkers
    <3>1. \A j \in Slots : /\ checkers'[j] = IF j = i THEN checkers[i] ELSE checkers[j]
                           /\ heldBy'[j] = IF j = i THEN NotHeld ELSE heldBy[j]
      BY <1>a, <2>4
    <3> HIDE DEF i
    <3> QED BY <2>1, <2>2, <3>1, GiveSlot
  <2> QED BY <1>7, <2>3, <2>4 DEF Release
<1>8. ASSUME NEW c \in Callers, ReleasePersistent(c) PROVE PoolInv'
  <2>1. /\ pc[c] = "using" /\ call[c].kind = "api"
        /\ persistentChecker' \in {persistentChecker, None}
        /\ checkers' = checkers /\ heldBy' = heldBy /\ call' = call
        /\ diagSem' = diagSem /\ querySem' = querySem /\ persistentSem' = persistentSem
    BY <1>8 DEF ReleasePersistent, poolVars, semVars
  <2>2. /\ pc'[c] = "unlocked"
        /\ \A d \in Callers : d # c =>
             pc'[d] = pc[d] /\ slot'[d] = slot[d] /\ inst'[d] = inst[d]
    BY <1>8, <1>a DEF ReleasePersistent
  <2>3. Tokens'
    <3>1. \A d \in Callers : HasToken(d)' <=> HasToken(d)
      BY <2>1, <2>2 DEF HasToken
    <3> QED BY <3>1, <2>1 DEF PoolInv, Tokens
  <2>4. \A d \in Callers, i \in Slots : Owns(d, i)' <=> Owns(d, i)
    BY <2>1, <2>2 DEF Owns
  <2>5. \A d \in Callers : ~(pc'[d] = "using" /\ call[d].kind = "api")
    <3> SUFFICES ASSUME NEW d \in Callers, pc'[d] = "using", call[d].kind = "api" PROVE FALSE
      OBVIOUS
    <3>1. d # c
      BY <2>2
    <3>2. d \in persistentSem /\ c \in persistentSem
      BY <2>1, <2>2, <3>1 DEF PoolInv, Tokens, HasToken
    <3> QED BY <3>1, <3>2 DEF PoolInv, Tokens
  <2>6. Owners'
    <3>1. \A d \in Callers : pc'[d] = "using" /\ call'[d].kind # "api" =>
             /\ slot'[d] \in Slots /\ RightCategory(call'[d].kind, slot'[d])
             /\ checkers'[slot'[d]] = inst'[d]
             /\ heldBy'[slot'[d]] = HoldTag(call'[d].request)
      <4> SUFFICES ASSUME NEW d \in Callers, pc'[d] = "using", call'[d].kind # "api"
                   PROVE  /\ slot'[d] \in Slots /\ RightCategory(call'[d].kind, slot'[d])
                          /\ checkers'[slot'[d]] = inst'[d]
                          /\ heldBy'[slot'[d]] = HoldTag(call'[d].request)
        BY DEF RightCategory
      <4>1. d # c /\ pc[d] = "using" /\ call[d].kind # "api"
        BY <2>1, <2>2
      <4> QED BY <2>1, <2>2, <4>1 DEF PoolInv, Owners
    <3>2. \A d, e \in Callers, i \in Slots : Owns(d, i)' /\ Owns(e, i)' => d = e
      BY <2>4 DEF PoolInv, Owners
    <3>3. \A i \in Slots : heldBy'[i] # NotHeld => \E d \in Callers : Owns(d, i)'
      BY <2>1, <2>4 DEF PoolInv, Owners
    <3> QED BY <3>1, <3>2, <3>3, <2>1, <2>5 DEF Owners
  <2>7. Distinct'
    BY <2>1 DEF PoolInv, Distinct
  <2> QED BY <2>3, <2>6, <2>7 DEF PoolInv
<1>9. ASSUME NEW c \in Callers, ReleaseSemaphore(c) PROVE PoolInv'
  <2>1. /\ pc[c] = "unlocked" /\ pc'[c] = "idle"
        /\ \A d \in Callers : d # c => pc'[d] = pc[d] /\ call'[d] = call[d]
        /\ UNCHANGED <<slot, inst, checkers, heldBy, apiVars>>
        /\ diagSem' = diagSem \ {c} /\ querySem' = querySem \ {c}
        /\ persistentSem' = persistentSem \ {c}
    BY <1>9, <1>a DEF ReleaseSemaphore, poolVars
  <2>2. ~HasToken(c)' /\ \A d \in Callers : d # c => (HasToken(d)' <=> HasToken(d))
    BY <2>1 DEF HasToken
  <2>3. Cardinality(querySem') <= MaxCheckers - 1
    <3>1. /\ Cardinality(querySem') <= Cardinality(querySem)
          /\ Cardinality(querySem') \in Nat /\ Cardinality(querySem) \in Nat
      BY <1>c, <2>1, FS_Subset, FS_CardinalityType
    <3> QED BY <3>1, <1>c DEF PoolInv, Tokens
  <2>4. Tokens'
    BY <2>1, <2>2, <2>3 DEF PoolInv, Tokens
  <2> QED BY <2>1, <2>4, TokenStep
<1>10. ASSUME CleanupIdleCheckers PROVE PoolInv'
  <2>1. CASE UNCHANGED poolVars
    BY <1>10, <2>1, CoreUnchanged DEF CleanupIdleCheckers, poolVars, callVars, coreVars
  <2>2. CASE Dispose({i \in Slots : IdleTooLong(i)})
    <3> DEFINE D == {i \in Slots : IdleTooLong(i)}
    <3>1. /\ \A i \in D : heldBy[i] = NotHeld
          /\ \A i \in Slots : checkers'[i] = IF i \in D THEN None ELSE checkers[i]
          /\ \A i \in Slots : heldBy'[i] = heldBy[i]
      BY <2>2 DEF Dispose, IdleTooLong, Idle
    <3>2. /\ pc' = pc /\ call' = call /\ slot' = slot /\ inst' = inst
          /\ persistentChecker' = persistentChecker /\ persistentHeld' = persistentHeld
          /\ diagSem' = diagSem /\ querySem' = querySem /\ persistentSem' = persistentSem
      BY <1>10 DEF CleanupIdleCheckers, callVars, apiVars, semVars
    <3>3. \A d \in Callers, i \in Slots : Owns(d, i) => i \notin D
      BY <3>1, NotHeldNotOwned
    <3>4. Tokens'
      BY <3>2 DEF PoolInv, Tokens, HasToken
    <3>5. Owners'
      <4>1. ASSUME NEW d \in Callers, pc[d] = "using", call[d].kind # "api"
            PROVE  /\ slot[d] \in Slots /\ RightCategory(call[d].kind, slot[d])
                   /\ checkers'[slot[d]] = inst[d]
                   /\ heldBy'[slot[d]] = HoldTag(call[d].request)
        <5>1. slot[d] \in Slots /\ Owns(d, slot[d])
          BY <4>1 DEF PoolInv, Owners, Owns
        <5>2. slot[d] \notin D
          BY <3>3, <5>1
        <5> HIDE DEF D
        <5> QED BY <3>1, <4>1, <5>1, <5>2 DEF PoolInv, Owners
      <4>2. \A d \in Callers, i \in Slots : Owns(d, i)' <=> Owns(d, i)
        BY <3>2 DEF Owns
      <4>3. \A d \in Callers : pc'[d] = "using" /\ call'[d].kind # "api" =>
               /\ slot'[d] \in Slots /\ RightCategory(call'[d].kind, slot'[d])
               /\ checkers'[slot'[d]] = inst'[d]
               /\ heldBy'[slot'[d]] = HoldTag(call'[d].request)
        BY <3>2, <4>1 DEF RightCategory
      <4>4. \A i \in Slots : heldBy'[i] # NotHeld => \E d \in Callers : Owns(d, i)'
        BY <3>1, <4>2 DEF PoolInv, Owners
      <4>5. \A d, e \in Callers, i \in Slots : Owns(d, i)' /\ Owns(e, i)' => d = e
        BY <4>2 DEF PoolInv, Owners
      <4>6. \A d \in Callers : pc'[d] = "using" /\ call'[d].kind = "api" =>
               inst'[d] = persistentChecker' /\ persistentHeld'
        BY <3>2 DEF PoolInv, Owners
      <4> QED BY <4>3, <4>4, <4>5, <4>6 DEF Owners
    <3>6. Distinct'
      <4> HIDE DEF D
      <4> QED BY <3>1, <3>2 DEF PoolInv, Distinct
    <3> QED BY <3>4, <3>5, <3>6 DEF PoolInv
  <2> QED BY <1>10, <2>1, <2>2 DEF CleanupIdleCheckers
<1>11. ASSUME NEW c \in Callers, CancelChecker(c) \/ ProduceGlobalDiagnostic(c)
       PROVE  PoolInv'
  BY <1>11, CoreUnchanged DEF CancelChecker, ProduceGlobalDiagnostic, poolVars, callVars, coreVars
<1>12. ASSUME (\E i \in Slots : Expire(i)) \/ TimerFires \/ Discard \/ TakeNewGlobalDiagnostics
       PROVE  PoolInv'
  BY <1>12, CoreUnchanged
     DEF Expire, TimerFires, Discard, TakeNewGlobalDiagnostics, poolVars, callVars, coreVars
<1>13. ASSUME NEW r \in Requests, FinishRequest(r) \/ RequestCleanup(r) PROVE PoolInv'
  BY <1>13, CoreUnchanged DEF FinishRequest, RequestCleanup, poolVars, callVars, coreVars
<1>14. ASSUME UNCHANGED vars PROVE PoolInv'
  BY <1>14, CoreUnchanged DEF vars, poolVars, callVars, coreVars
<1> QED BY <1>1, <1>2, <1>3, <1>4, <1>5, <1>6, <1>7, <1>8, <1>9, <1>10, <1>11, <1>12, <1>13,
           <1>14 DEF Next, Step

\* The types and the pool's invariant hold always.
LEMMA PoolInvariant == Spec => [](TypeInv /\ PoolInv)
  BY InitType, TypeStep, InitPool, PoolStep, PTL DEF Spec

\* No checker is ever used by two goroutines at once, whatever the number of goroutines
\* and of slots: ownership of slots is exclusive and no two slots hold one checker.
THEOREM Exclusive == Spec => []ExclusiveUse
<1>1. TypeInv /\ PoolInv => ExclusiveUse
  <2> SUFFICES ASSUME TypeInv, PoolInv, NEW c \in Callers, NEW d \in Callers,
                      pc[c] = "using", pc[d] = "using", c # d, inst[c] = inst[d]
               PROVE  FALSE
    BY DEF ExclusiveUse, Using
  <2>1. inst[c] # None
    BY NamesAssumption DEF TypeInv, CallOK
  <2>2. CASE call[c].kind # "api" /\ call[d].kind # "api"
    <3>1. /\ slot[c] \in Slots /\ slot[d] \in Slots
          /\ checkers[slot[c]] = inst[c] /\ checkers[slot[d]] = inst[d]
      BY <2>2 DEF PoolInv, Owners
    <3>2. slot[c] = slot[d]
      BY <2>1, <3>1 DEF PoolInv, Distinct
    <3> QED BY <2>2, <3>1, <3>2 DEF PoolInv, Owners, Owns
  <2>3. CASE call[c].kind = "api" /\ call[d].kind = "api"
    <3>1. c \in persistentSem /\ d \in persistentSem
      BY <2>3 DEF PoolInv, Tokens, HasToken
    <3> QED BY <3>1 DEF PoolInv, Tokens
  <2>4. ASSUME NEW a \in Callers, NEW q \in Callers, pc[a] = "using", pc[q] = "using",
               call[a].kind = "api", call[q].kind # "api", inst[a] = inst[q], inst[a] # None
        PROVE  FALSE
    <3>1. inst[a] = persistentChecker /\ slot[q] \in Slots /\ checkers[slot[q]] = inst[q]
      BY <2>4 DEF PoolInv, Owners
    <3> QED BY <2>4, <3>1 DEF PoolInv, Distinct
  <2> QED BY <2>1, <2>2, <2>3, <2>4
<1> QED BY PoolInvariant, <1>1, PTL

\* The assertion of disposeCheckerLocked never fails: a checker stays in its slot, marked
\* as held by its caller, until that caller releases it.
THEOREM HeldStays == Spec => []HeldCheckerStays
<1>1. TypeInv /\ PoolInv => HeldCheckerStays
  BY DEF PoolInv, Owners, HeldCheckerStays, Using
<1> QED BY PoolInvariant, <1>1, PTL

\* findOrCreateQueryCheckerLocked never panics: the owners of held query slots hold as
\* many tokens, and one more is in the hands of the goroutine that looks for a slot.
THEOREM NoSlotPanic == Spec => []QuerySlotAvailable
<1>1. TypeInv /\ PoolInv => QuerySlotAvailable
  <2>0. SUFFICES ASSUME TypeInv, PoolInv, NEW c \in Callers, pc[c] = "acquire",
                      call[c].kind = "query", \A i \in QuerySlots : heldBy[i] # NotHeld
               PROVE  FALSE
    BY DEF QuerySlotAvailable
  <2>1. QuerySlots \subseteq Slots /\ DiagIndex \notin QuerySlots
    BY SlotFacts
  <2> DEFINE own(i) == CHOOSE d \in Callers : Owns(d, i)
             others == querySem \ {c}
  <2>2. ASSUME NEW i \in QuerySlots PROVE own(i) \in Callers /\ Owns(own(i), i)
    <3>1. \E d \in Callers : Owns(d, i)
      BY <2>0, <2>1 DEF PoolInv, Owners
    <3> QED BY <3>1
  <2>3. ASSUME NEW i \in QuerySlots PROVE own(i) \in others
    <3>1. /\ own(i) \in Callers /\ pc[own(i)] = "using" /\ call[own(i)].kind # "api"
          /\ slot[own(i)] = i
      BY <2>2 DEF Owns
    <3> HIDE DEF own
    <3>2. call[own(i)].kind \in {"diagnostics", "query", "api"}
      BY <2>0, <3>1 DEF TypeInv, CallOK
    <3>3. RightCategory(call[own(i)].kind, i)
      BY <2>0, <3>1 DEF PoolInv, Owners
    <3>4. call[own(i)].kind = "query"
      BY <2>1, <3>1, <3>2, <3>3 DEF RightCategory
    <3> QED BY <2>0, <3>1, <3>4 DEF PoolInv, Tokens, HasToken
  <2>4. \A i, j \in QuerySlots : own(i) = own(j) => i = j
    <3> HIDE DEF own
    <3>1. \A i \in QuerySlots : slot[own(i)] = i
      BY <2>2 DEF Owns
    <3> QED BY <3>1
  <2>5. /\ IsFiniteSet(querySem) /\ c \in querySem
        /\ Cardinality(querySem) <= MaxCheckers - 1
    <3>1. querySem \subseteq Callers
      BY <2>0 DEF TypeInv, TypeOK
    <3> QED BY <2>0, <3>1, CallersAssumption, FS_Subset DEF PoolInv, Tokens, HasToken
  <2>6. IsFiniteSet(others) /\ Cardinality(others) = Cardinality(querySem) - 1
    BY <2>5, FS_RemoveElement
  <2>7. Cardinality(QuerySlots) = MaxCheckers - 1
    BY QuerySlotsCount
  <2> DEFINE owner == [i \in QuerySlots |-> own(i)]
  <2> HIDE DEF own, others
  <2>8. owner \in Injection(QuerySlots, others)
    BY <2>3, <2>4 DEF Injection, IsInjective
  <2>9. Cardinality(QuerySlots) <= Cardinality(others)
    BY <2>6, <2>8, FS_Injection
  <2>10. Cardinality(querySem) \in Nat
    BY <2>5, FS_CardinalityType
  <2>11. Cardinality(querySem) <= MaxCheckers - 1
    BY <2>5
  <2> HIDE DEF owner
  <2> QED BY <2>6, <2>7, <2>9, <2>10, <2>11, MaxCheckersAssumption
<1> QED BY PoolInvariant, <1>1, PTL
-----------------------------------------------------------------------------
(* What the pool keeps in order between two uses of a checker: canceled checkers, the   *)
(* idle timer, associations, discarded pools and global diagnostics.                    *)


Inv == TypeInv /\ PoolInv

\* The types of the slots' variables.
LEMMA SlotTypes ==
  ASSUME Inv
  PROVE  /\ checkers \in [Slots -> Instances \cup {None}]
         /\ heldBy \in [Slots -> Requests \cup {Anonymous, NotHeld}]
         /\ lastReleased \in [Slots -> Ages]
         /\ requestAssociations \in [Requests -> Slots \cup {NoSlot}]
  BY DEF Inv, TypeInv, TypeOK

\* What a goroutine asks for has a tag.
LEMMA CallerTag ==
  ASSUME Inv, NEW c \in Callers
  PROVE  /\ call[c].request \in Requests \cup {NoRequest}
         /\ HoldTag(call[c].request) # NotHeld
<1>1. call[c] \in Calls
  BY DEF Inv, TypeInv, TypeOK
<1>2. call[c].request \in Requests \cup {NoRequest}
  BY <1>1, CallFields
<1> QED BY <1>2, HoldTagIsHeld

\* A goroutine that uses a checker of a slot holds that slot.
LEMMA UserHolds ==
  ASSUME Inv, NEW c \in Callers, pc[c] = "using", call[c].kind # "api"
  PROVE  /\ slot[c] \in Slots /\ checkers[slot[c]] = inst[c] /\ inst[c] \in Instances
         /\ heldBy[slot[c]] # NotHeld
<1>1. slot[c] \in Slots /\ checkers[slot[c]] = inst[c] /\ heldBy[slot[c]] = HoldTag(call[c].request)
  BY DEF Inv, PoolInv, Owners
<1>2. inst[c] \in Instances
  BY DEF Inv, TypeInv, CallOK
<1> QED BY <1>1, <1>2, CallerTag

-----------------------------------------------------------------------------
(* The five ways in which a step treats the slots.                              *)

\* Slot i is taken: it has a checker, the one that was in it if there was one.
Takes(i) ==
  /\ heldBy'[i] # NotHeld
  /\ \A j \in Slots : j # i => heldBy'[j] = heldBy[j] /\ checkers'[j] = checkers[j]
  /\ checkers'[i] # None /\ (Present(i) => checkers'[i] = checkers[i])
  /\ UNCHANGED <<lastReleased, cleanupTimer, discarded, callbacks>>

KeepsSlots == UNCHANGED <<checkers, heldBy, lastReleased>>

\* An acquisition takes one slot, or none.
LEMMA TakesSlot ==
  ASSUME Inv, NEW c \in Callers,
         TryReacquire(c) \/ AcquireDiagnostics(c) \/ AcquireQuery(c)
  PROVE  \/ KeepsSlots /\ UNCHANGED <<cleanupTimer, discarded, callbacks>>
         \/ \E i \in Slots : Takes(i)
<1>1. CASE TryReacquire(c)
  <2> DEFINE r == call[c].request
             i == requestAssociations[r]
  <2>1. CASE heldBy' = heldBy
    BY <1>1, <2>1 DEF TryReacquire, KeepsSlots, envVars
  <2>2. CASE heldBy' # heldBy
    <3>1. /\ i # NoSlot /\ Idle(i) /\ heldBy' = [heldBy EXCEPT ![i] = r]
          /\ UNCHANGED <<checkers, lastReleased, cleanupTimer, discarded, callbacks>>
      BY <1>1, <2>2 DEF TryReacquire, envVars
    <3>2. r \in Requests
      BY <1>1 DEF TryReacquire, Inv, TypeInv, CallOK
    <3>3. i \in Slots /\ r # NotHeld
      BY <3>1, <3>2, SlotTypes, NamesAssumption
    <3>4. Takes(i)
      <4> HIDE DEF i, r
      <4> QED BY <3>1, <3>3, SlotTypes DEF Takes, Idle, Present
    <3> QED BY <3>3, <3>4
  <2> QED BY <2>1, <2>2
<1>2. CASE AcquireDiagnostics(c)
  <2>1. heldBy' = [heldBy EXCEPT ![DiagIndex] = HoldTag(call[c].request)]
    BY <1>2 DEF AcquireDiagnostics
  <2>2. UNCHANGED <<lastReleased, cleanupTimer, discarded, callbacks>>
    BY <1>2 DEF AcquireDiagnostics
  <2>3. \/ Present(DiagIndex) /\ checkers' = checkers
        \/ ~Present(DiagIndex) /\ \E x \in Unreferenced : checkers' = [checkers EXCEPT ![DiagIndex] = x]
    BY <1>2 DEF AcquireDiagnostics
  <2>4. Takes(DiagIndex)
    BY <2>1, <2>2, <2>3, SlotTypes, CallerTag, SlotFacts, NamesAssumption
       DEF Takes, Present, Unreferenced
  <2> QED BY <2>4, SlotFacts
<1>3. CASE AcquireQuery(c)
  <2>1. PICK i \in QuerySlots :
          /\ heldBy' = [heldBy EXCEPT ![i] = HoldTag(call[c].request)]
          /\ \/ Present(i) /\ checkers' = checkers
             \/ ~Present(i) /\ \E x \in Unreferenced : checkers' = [checkers EXCEPT ![i] = x]
    BY <1>3 DEF AcquireQuery, FileMatch, FirstIdle, FirstEmpty, Idle
  <2>2. UNCHANGED <<lastReleased, cleanupTimer, discarded, callbacks>>
    BY <1>3 DEF AcquireQuery
  <2>3. Takes(i)
    BY <2>1, <2>2, SlotTypes, CallerTag, SlotFacts, NamesAssumption
       DEF Takes, Present, Unreferenced
  <2> QED BY <2>3, SlotFacts
<1> QED BY <1>1, <1>2, <1>3

\* Dispose(D), seen from a slot.
LEMMA DisposeSlots ==
  ASSUME NEW D, Dispose(D), NEW i \in Slots
  PROVE  IF i \in D THEN checkers'[i] = None
         ELSE checkers'[i] = checkers[i] /\ heldBy'[i] = heldBy[i] /\ lastReleased'[i] = lastReleased[i]
  BY DEF Dispose

\* A goroutine's release of a slot, in its two forms.
LEMMA ReleaseForms ==
  ASSUME Inv, NEW c \in Callers, Release(c)
  PROVE  /\ slot[c] \in Slots /\ pc[c] = "using" /\ call[c].kind # "api"
         /\ UNCHANGED <<discarded, callbacks>>
         /\ \/ WasCanceled(c) /\ Dispose({slot[c]}) /\ UNCHANGED cleanupTimer
            \/ /\ ~WasCanceled(c) /\ UNCHANGED checkers
               /\ heldBy' = [heldBy EXCEPT ![slot[c]] = NotHeld]
               /\ lastReleased' = [lastReleased EXCEPT ![slot[c]] = "recent"]
               /\ cleanupTimer' = IF discarded THEN cleanupTimer
                                  ELSE TimerFor(checkers, heldBy', lastReleased')
<1>1. pc[c] = "using" /\ call[c].kind # "api"
  BY DEF Release
<1>2. slot[c] \in Slots
  BY <1>1, UserHolds
<1> QED BY <1>1, <1>2 DEF Release

\* The cleanup of a pool that is current; the callback of a discarded one does nothing.
LEMMA CleanupForms ==
  ASSUME CleanupIdleCheckers
  PROVE  \/ discarded /\ UNCHANGED <<poolVars, globalDiagCount>>
         \/ ~discarded /\ Dispose({i \in Slots : IdleTooLong(i)}) /\ Rearm /\ UNCHANGED discarded
  BY DEF CleanupIdleCheckers, BailsOut

SlotSteps ==
  \/ \E i \in Slots : Takes(i)
  \/ \E c \in Callers : Release(c)
  \/ CleanupIdleCheckers
  \/ \E i \in Slots : Expire(i)
  \/ KeepsSlots /\ (TimerFires \/ Discard \/ UNCHANGED <<cleanupTimer, discarded, callbacks>>)

\* Every step does one of these things to the slots.
LEMMA EveryStep ==
  ASSUME Inv, [Next]_vars
  PROVE  SlotSteps
<1>1. ASSUME NEW c \in Callers, NEW k \in Kinds, NEW r \in Requests \cup {NoRequest},
             NEW f \in Files \cup {NoFile}, Call(c, k, r, f)
      PROVE  SlotSteps
  BY <1>1 DEF Call, SlotSteps, KeepsSlots, poolVars, envVars
<1>2. ASSUME NEW c \in Callers, Step(c) PROVE SlotSteps
  <2>1. CASE ClaimSemaphore(c)
    BY <2>1 DEF ClaimSemaphore, SlotSteps, KeepsSlots, poolVars, envVars
  <2>2. CASE TryReacquire(c) \/ AcquireDiagnostics(c) \/ AcquireQuery(c)
    BY <2>2, TakesSlot DEF SlotSteps
  <2>3. CASE AcquirePersistent(c)
    BY <2>3 DEF AcquirePersistent, SlotSteps, KeepsSlots, poolVars, envVars
  <2>4. CASE Release(c)
    BY <2>4 DEF SlotSteps
  <2>5. CASE ReleasePersistent(c)
    BY <2>5 DEF ReleasePersistent, SlotSteps, KeepsSlots, poolVars
  <2>6. CASE ReleaseSemaphore(c)
    BY <2>6 DEF ReleaseSemaphore, SlotSteps, KeepsSlots, poolVars, envVars
  <2> QED BY <1>2, <2>1, <2>2, <2>3, <2>4, <2>5, <2>6 DEF Step
<1>3. ASSUME NEW c \in Callers, CancelChecker(c) \/ ProduceGlobalDiagnostic(c) PROVE SlotSteps
  BY <1>3 DEF CancelChecker, ProduceGlobalDiagnostic, SlotSteps, KeepsSlots, poolVars, envVars
<1>4. ASSUME (\E i \in Slots : Expire(i)) \/ CleanupIdleCheckers PROVE SlotSteps
  BY <1>4 DEF SlotSteps
<1>5. ASSUME TimerFires \/ Discard PROVE SlotSteps
  BY <1>5 DEF TimerFires, Discard, SlotSteps, KeepsSlots
<1>6. ASSUME NEW r \in Requests, FinishRequest(r) \/ RequestCleanup(r) PROVE SlotSteps
  BY <1>6 DEF FinishRequest, RequestCleanup, SlotSteps, KeepsSlots, poolVars
<1>7. ASSUME TakeNewGlobalDiagnostics \/ UNCHANGED vars PROVE SlotSteps
  BY <1>7 DEF TakeNewGlobalDiagnostics, vars, SlotSteps, KeepsSlots, poolVars, envVars
<1> QED BY <1>1, <1>2, <1>3, <1>4, <1>5, <1>6, <1>7 DEF Next

-----------------------------------------------------------------------------
(* The idle timer.                                                              *)

\* A checker that nobody holds has been released before.
Released == \A i \in Slots : Idle(i) => lastReleased[i] # "zero"

\* A slot becomes idle only by a release.
LEMMA ReleasedStep ==
  ASSUME Inv, Released, [Next]_vars
  PROVE  Released'
<1> SUFFICES ASSUME NEW i \in Slots, Idle(i)' PROVE lastReleased'[i] # "zero"
  BY DEF Released
<1>a. Idle(i)' <=> checkers'[i] # None /\ heldBy'[i] = NotHeld
  BY DEF Idle, Present
<1>1. CASE \E k \in Slots : Takes(k)
  <2>1. PICK k \in Slots : Takes(k)
    BY <1>1
  <2>2. i # k
    BY <2>1, <1>a DEF Takes
  <2> QED BY <2>1, <2>2, <1>a DEF Takes, Released, Idle, Present
<1>2. CASE \E c \in Callers : Release(c)
  <2>1. PICK c \in Callers : Release(c)
    BY <1>2
  <2>2. CASE Dispose({slot[c]})
    BY <2>2, <1>a, DisposeSlots DEF Released, Idle, Present
  <2>3. CASE ~Dispose({slot[c]})
    BY <2>1, <2>3, <1>a, ReleaseForms, SlotTypes DEF Released, Idle, Present
  <2> QED BY <2>2, <2>3
<1>3. CASE CleanupIdleCheckers
  <2>1. CASE discarded
    BY <1>3, <2>1, <1>a, CleanupForms DEF Released, Idle, Present, poolVars
  <2>2. CASE ~discarded
    BY <1>3, <2>2, <1>a, CleanupForms, DisposeSlots DEF Released, Idle, Present
  <2> QED BY <2>1, <2>2
<1>4. CASE \E k \in Slots : Expire(k)
  BY <1>4, <1>a, SlotTypes DEF Expire, Released, Idle, Present
<1>5. CASE KeepsSlots
  BY <1>5, <1>a DEF KeepsSlots, Released, Idle, Present
<1> QED BY <1>1, <1>2, <1>3, <1>4, <1>5, EveryStep DEF SlotSteps

\* A timer is armed for every checker that is idle when it is scheduled.
LEMMA ArmedAfter ==
  ASSUME Released', NEW i \in Slots, Idle(i)'
  PROVE  TimerFor(checkers', heldBy', lastReleased') = "armed"
  BY DEF TimerFor, Released, Idle, Present

\* An idle checker stays watched by the timer or by a callback.
LEMMA WatchedStep ==
  ASSUME Inv, Released', IdleIsWatched, [Next]_vars
  PROVE  IdleIsWatched'
<1> SUFFICES ASSUME ~discarded', NEW i \in Slots, Idle(i)'
             PROVE  cleanupTimer' = "armed" \/ callbacks' > 0
  BY DEF IdleIsWatched
<1>a. Idle(i)' <=> checkers'[i] # None /\ heldBy'[i] = NotHeld
  BY DEF Idle, Present
<1>b. callbacks \in Nat
  BY DEF Inv, TypeInv, TypeOK
<1>1. CASE \E k \in Slots : Takes(k)
  <2>1. PICK k \in Slots : Takes(k)
    BY <1>1
  <2>2. i # k
    BY <2>1, <1>a DEF Takes
  <2> QED BY <2>1, <2>2, <1>a DEF Takes, IdleIsWatched, Idle, Present
<1>2. CASE \E c \in Callers : Release(c)
  <2>1. PICK c \in Callers : Release(c)
    BY <1>2
  <2>2. CASE WasCanceled(c)
    BY <2>1, <2>2, <1>a, ReleaseForms, DisposeSlots DEF IdleIsWatched, Idle, Present
  <2>3. CASE ~WasCanceled(c)
    <3>1. cleanupTimer' = TimerFor(checkers', heldBy', lastReleased')
      <4>1. /\ discarded' = discarded /\ checkers' = checkers
            /\ cleanupTimer' = IF discarded THEN cleanupTimer
                               ELSE TimerFor(checkers, heldBy', lastReleased')
        BY <2>1, <2>3, ReleaseForms
      <4>2. ~discarded
        BY <4>1
      <4> QED BY <4>1, <4>2
    <3> QED BY <3>1, ArmedAfter
  <2> QED BY <2>2, <2>3
<1>3. CASE CleanupIdleCheckers
  <2>1. ~discarded /\ Rearm
    BY <1>3, CleanupForms DEF poolVars
  <2> QED BY <2>1, ArmedAfter DEF Rearm
<1>4. CASE \E k \in Slots : Expire(k)
  <2>1. UNCHANGED <<checkers, heldBy, cleanupTimer, discarded, callbacks>>
    BY <1>4 DEF Expire, envVars
  <2>2. ~discarded /\ Idle(i)
    BY <2>1, <1>a DEF Idle, Present
  <2>3. cleanupTimer = "armed" \/ callbacks > 0
    BY <2>2 DEF IdleIsWatched
  <2> QED BY <2>1, <2>3
<1>5. CASE KeepsSlots /\ (TimerFires \/ Discard)
  BY <1>5, <1>b DEF TimerFires, Discard
<1>6. CASE KeepsSlots /\ UNCHANGED <<cleanupTimer, discarded, callbacks>>
  BY <1>6, <1>a DEF KeepsSlots, IdleIsWatched, Idle, Present
<1> QED BY <1>1, <1>2, <1>3, <1>4, <1>5, <1>6, EveryStep DEF SlotSteps

\* An idle checker of a current pool is never forgotten by the timer: whoever releases a
\* checker arms it, and a callback that finds nothing expired arms it again
\* (scheduleCleanupLocked, cleanupIdleCheckers).
THEOREM IdleWatched == Spec => []IdleIsWatched
<1>1. Init => Released /\ IdleIsWatched
  <2>1. Init => \A i \in Slots : ~Idle(i)
    BY DEF Init, Idle, Present
  <2> QED BY <2>1 DEF Released, IdleIsWatched
<1>2. Inv /\ Released /\ IdleIsWatched /\ [Next]_vars => Released' /\ IdleIsWatched'
  BY ReleasedStep, WatchedStep
<1>3. Spec => []Inv
  BY PoolInvariant, PTL DEF Inv
<1> QED BY <1>1, <1>2, <1>3, PTL DEF Spec

\* Once a pool is discarded none of its idle checkers is disposed of, not even by a
\* callback that was in flight when Discard stopped the timer.
THEOREM DiscardKeeps == Spec => DiscardedKeepsCheckers
<1>1. ASSUME Inv, [Next]_vars, discarded, NEW i \in Slots, Idle(i)
      PROVE  checkers'[i] = checkers[i]
  <2>a. checkers[i] # None /\ heldBy[i] = NotHeld
    BY <1>1 DEF Idle, Present
  <2>1. CASE \E k \in Slots : Takes(k)
    BY <2>1, <2>a DEF Takes, Present
  <2>2. CASE \E c \in Callers : Release(c)
    <3>1. PICK c \in Callers : Release(c)
      BY <2>2
    <3>2. slot[c] # i
      BY <1>1, <3>1, <2>a, UserHolds DEF Release
    <3>3. checkers' = checkers \/ Dispose({slot[c]})
      BY <1>1, <3>1, ReleaseForms
    <3> QED BY <3>2, <3>3, DisposeSlots
  <2>3. CASE CleanupIdleCheckers
    BY <1>1, <2>3, CleanupForms DEF poolVars
  <2>4. CASE (\E k \in Slots : Expire(k)) \/ KeepsSlots
    BY <2>4 DEF Expire, KeepsSlots
  <2> QED BY <1>1, <2>1, <2>2, <2>3, <2>4, EveryStep DEF SlotSteps
<1>2. Inv /\ [Next]_vars
        => [discarded => \A i \in Slots : Idle(i) => checkers'[i] = checkers[i]]_vars
  BY <1>1
<1>3. Spec => []Inv
  BY PoolInvariant, PTL DEF Inv
<1> QED BY <1>2, <1>3, PTL DEF Spec, DiscardedKeepsCheckers

-----------------------------------------------------------------------------
(* Canceled checkers.                                                           *)

\* A canceled checker is one that somebody is using.
CanceledInUse == \A x \in canceled : \E c \in Callers : pc[c] = "using" /\ inst[c] = x

\* Goroutine c leaves with its checker, which the pool drops if it is canceled.
LEMMA LeavesCanceled ==
  ASSUME Inv, CanceledInUse, NEW c \in Callers, pc[c] = "using",
         pc' = [pc EXCEPT ![c] = "unlocked"], inst' = [inst EXCEPT ![c] = None],
         canceled' \subseteq canceled, inst[c] \notin canceled'
  PROVE  CanceledInUse'
<1> SUFFICES ASSUME NEW x \in canceled'
             PROVE  \E d \in Callers : pc'[d] = "using" /\ inst'[d] = x
  BY DEF CanceledInUse
<1>1. PICK d \in Callers : pc[d] = "using" /\ inst[d] = x
  BY DEF CanceledInUse
<1>2. d # c
  BY <1>1
<1>3. pc \in [Callers -> PCs] /\ inst \in [Callers -> Instances \cup {None}]
  BY DEF Inv, TypeInv, TypeOK
<1> QED BY <1>1, <1>2, <1>3

\* A checker is canceled only by its user, who disposes of it.
LEMMA CanceledStep ==
  ASSUME Inv, CanceledInUse, [Next]_vars
  PROVE  CanceledInUse'
<1>a. pc \in [Callers -> PCs] /\ inst \in [Callers -> Instances \cup {None}]
  BY DEF Inv, TypeInv, TypeOK
<1>b. ASSUME UNCHANGED canceled,
             \A c \in Callers : pc[c] = "using" => pc'[c] = "using" /\ inst'[c] = inst[c]
      PROVE  CanceledInUse'
  BY <1>b DEF CanceledInUse
<1>1. ASSUME NEW c \in Callers, NEW k \in Kinds, NEW r \in Requests \cup {NoRequest},
             NEW f \in Files \cup {NoFile}, Call(c, k, r, f)
      PROVE  CanceledInUse'
  BY <1>1, <1>a, <1>b DEF Call, envVars
<1>2. ASSUME NEW c \in Callers, ClaimSemaphore(c) \/ ReleaseSemaphore(c) PROVE CanceledInUse'
  BY <1>2, <1>a, <1>b DEF ClaimSemaphore, ReleaseSemaphore, envVars
<1>3. ASSUME NEW c \in Callers,
             TryReacquire(c) \/ AcquireDiagnostics(c) \/ AcquireQuery(c) \/ AcquirePersistent(c)
      PROVE  CanceledInUse'
  <2>1. pc[c] # "using" /\ UNCHANGED canceled
    BY <1>3 DEF TryReacquire, AcquireDiagnostics, AcquireQuery, AcquirePersistent, envVars
  <2>2. \A d \in Callers \ {c} : pc'[d] = pc[d] /\ inst'[d] = inst[d]
    <3>1. \/ pc' = [pc EXCEPT ![c] = "acquire"] /\ inst' = inst
          \/ \E i, x : Return(c, i, x)
      BY <1>3 DEF TryReacquire, AcquireDiagnostics, AcquireQuery, AcquirePersistent
    <3>2. ASSUME NEW i, NEW x, Return(c, i, x)
          PROVE  pc' = [pc EXCEPT ![c] = "using"] /\ inst' = [inst EXCEPT ![c] = x]
      BY <3>2 DEF Return
    <3> QED BY <3>1, <3>2, <1>a
  <2> QED BY <2>1, <2>2, <1>b
<1>4. ASSUME NEW c \in Callers, Release(c) PROVE CanceledInUse'
  <2>1. /\ pc[c] = "using" /\ call[c].kind # "api" /\ UNCHANGED persistentChecker
        /\ pc' = [pc EXCEPT ![c] = "unlocked"] /\ inst' = [inst EXCEPT ![c] = None]
    BY <1>4 DEF Release, apiVars
  <2>2. canceled' = IF inst[c] \in {checkers'[i] : i \in Slots} \cup {persistentChecker'}
                    THEN canceled ELSE canceled \ {inst[c]}
    BY <1>4 DEF Release, Forget
  <2>3. /\ slot[c] \in Slots /\ checkers[slot[c]] = inst[c] /\ inst[c] # None
    BY <2>1, UserHolds, NamesAssumption
  <2>4. ASSUME inst[c] \in canceled PROVE inst[c] \notin canceled'
    <3>1. Dispose({slot[c]})
      BY <1>4, <2>4, ReleaseForms DEF WasCanceled
    <3>2. \A i \in Slots : checkers'[i] # inst[c]
      BY <2>3, <3>1, DisposeSlots DEF Inv, PoolInv, Distinct
    <3>3. persistentChecker' # inst[c]
      BY <2>1, <2>3 DEF Inv, PoolInv, Distinct
    <3> QED BY <2>2, <3>2, <3>3
  <2>5. canceled' \subseteq canceled
    BY <2>2
  <2> QED BY <2>1, <2>4, <2>5, LeavesCanceled
<1>5. ASSUME NEW c \in Callers, ReleasePersistent(c) PROVE CanceledInUse'
  <2>1. /\ pc[c] = "using" /\ call[c].kind = "api" /\ UNCHANGED checkers
        /\ pc' = [pc EXCEPT ![c] = "unlocked"] /\ inst' = [inst EXCEPT ![c] = None]
        /\ persistentChecker' = IF DropsApiChecker(c) THEN None ELSE persistentChecker
    BY <1>5 DEF ReleasePersistent, poolVars
  <2>2. canceled' = IF inst[c] \in {checkers'[i] : i \in Slots} \cup {persistentChecker'}
                    THEN canceled ELSE canceled \ {inst[c]}
    BY <1>5 DEF ReleasePersistent, Forget
  <2>3. inst[c] = persistentChecker /\ inst[c] # None
    BY <2>1, NamesAssumption DEF Inv, PoolInv, Owners, TypeInv, CallOK
  <2>4. ASSUME inst[c] \in canceled PROVE inst[c] \notin canceled'
    <3>1. persistentChecker' = None
      BY <2>1, <2>3, <2>4 DEF DropsApiChecker, WasCanceled
    <3>2. \A i \in Slots : checkers'[i] # inst[c]
      BY <2>1, <2>3 DEF Inv, PoolInv, Distinct
    <3> QED BY <2>2, <2>3, <3>1, <3>2
  <2>5. canceled' \subseteq canceled
    BY <2>2
  <2> QED BY <2>1, <2>4, <2>5, LeavesCanceled
<1>6. ASSUME NEW c \in Callers, CancelChecker(c) PROVE CanceledInUse'
  <2>1. /\ pc[c] = "using" /\ canceled' = canceled \cup {inst[c]} /\ UNCHANGED <<pc, inst>>
    BY <1>6 DEF CancelChecker, callVars
  <2> QED BY <2>1 DEF CanceledInUse
<1>7. ASSUME \/ \E c \in Callers : ProduceGlobalDiagnostic(c)
             \/ \E i \in Slots : Expire(i)
             \/ \E r \in Requests : FinishRequest(r) \/ RequestCleanup(r)
             \/ TimerFires \/ CleanupIdleCheckers \/ Discard \/ TakeNewGlobalDiagnostics
             \/ UNCHANGED vars
      PROVE  CanceledInUse'
  <2>1. UNCHANGED <<canceled, pc, inst>>
    BY <1>7 DEF ProduceGlobalDiagnostic, Expire, FinishRequest, RequestCleanup, TimerFires,
      CleanupIdleCheckers, Discard, TakeNewGlobalDiagnostics, vars, envVars, callVars
  <2> QED BY <2>1, <1>b
<1> QED BY <1>1, <1>2, <1>3, <1>4, <1>5, <1>6, <1>7 DEF Next, Step

\* No canceled checker is found by the next caller: it leaves the pool with the goroutine
\* that was using it (createRelease, getPersistentChecker).
THEOREM CanceledDropped == Spec => []CanceledNeverReused
<1>1. Init => CanceledInUse
  BY DEF Init, CanceledInUse
<1>2. ASSUME Inv, CanceledInUse PROVE CanceledNeverReused
  <2>1. ASSUME NEW i \in Slots, Idle(i), checkers[i] \in canceled PROVE FALSE
    <3>1. PICK c \in Callers : pc[c] = "using" /\ inst[c] = checkers[i]
      BY <1>2, <2>1 DEF CanceledInUse
    <3>2. checkers[i] # None /\ heldBy[i] = NotHeld
      BY <2>1 DEF Idle, Present
    <3>3. CASE call[c].kind = "api"
      BY <1>2, <3>1, <3>2, <3>3 DEF Inv, PoolInv, Owners, Distinct
    <3>4. CASE call[c].kind # "api"
      BY <1>2, <3>1, <3>2, <3>4, UserHolds DEF Inv, PoolInv, Distinct
    <3> QED BY <3>3, <3>4
  <2>2. ASSUME ~persistentHeld, persistentChecker \in canceled PROVE FALSE
    <3>1. PICK c \in Callers : pc[c] = "using" /\ inst[c] = persistentChecker
      BY <1>2, <2>2 DEF CanceledInUse
    <3>2. CASE call[c].kind = "api"
      BY <1>2, <2>2, <3>1, <3>2 DEF Inv, PoolInv, Owners
    <3>3. CASE call[c].kind # "api"
      BY <1>2, <3>1, <3>3, UserHolds, NamesAssumption DEF Inv, PoolInv, Distinct
    <3> QED BY <3>2, <3>3
  <2> QED BY <2>1, <2>2 DEF CanceledNeverReused
<1>3. Spec => []Inv
  BY PoolInvariant, PTL DEF Inv
<1> QED BY <1>1, <1>2, <1>3, CanceledStep, PTL DEF Spec

-----------------------------------------------------------------------------
(* Associations.                                                                *)

\* The types of the associations.
LEMMA AssociationTypes ==
  ASSUME Inv
  PROVE  /\ fileAssociations \in [Files -> QuerySlots \cup {NoSlot}]
         /\ requestAssociations \in [Requests -> Slots \cup {NoSlot}]
         /\ afterFuncs \in [Requests -> Nat]
         /\ NoSlot \notin Slots
<1>1. NoSlot \notin Slots
  BY MaxCheckersAssumption DEF NoSlot, Slots, QuerySlots, DiagIndex
<1> QED BY <1>1 DEF Inv, TypeInv, TypeOK

\* A step that removes no checker, and associates files and requests with checkers only.
LEMMA AssociationsKept ==
  ASSUME Inv, AssociationsLive,
         \A i \in Slots : checkers[i] # None => checkers'[i] # None,
         \A f \in Files : \/ fileAssociations'[f] = fileAssociations[f]
                         \/ checkers'[fileAssociations'[f]] # None,
         \A r \in Requests :
           \/ requestAssociations'[r] = NoSlot
           \/ requestAssociations'[r] = requestAssociations[r] /\ afterFuncs'[r] = afterFuncs[r]
           \/ checkers'[requestAssociations'[r]] # None /\ afterFuncs'[r] > 0
  PROVE  AssociationsLive'
<1>1. ASSUME NEW f \in Files, fileAssociations'[f] # NoSlot
      PROVE  checkers'[fileAssociations'[f]] # None
  <2>1. CASE fileAssociations'[f] = fileAssociations[f]
    BY <1>1, <2>1, AssociationTypes, SlotFacts DEF AssociationsLive, Present
  <2> QED BY <2>1
<1>2. ASSUME NEW r \in Requests, requestAssociations'[r] # NoSlot
      PROVE  checkers'[requestAssociations'[r]] # None /\ afterFuncs'[r] > 0
  <2>1. CASE requestAssociations'[r] = requestAssociations[r] /\ afterFuncs'[r] = afterFuncs[r]
    BY <1>2, <2>1, AssociationTypes DEF AssociationsLive, Present
  <2> QED BY <1>2, <2>1
<1> QED BY <1>1, <1>2 DEF AssociationsLive, Present

\* Disposing of checkers removes the associations with them.
LEMMA AssociationsDropped ==
  ASSUME Inv, AssociationsLive, NEW D, Dispose(D), UNCHANGED afterFuncs
  PROVE  AssociationsLive'
<1>1. /\ fileAssociations' = Without(fileAssociations, D)
      /\ requestAssociations' = Without(requestAssociations, D)
  BY DEF Dispose, ForgetAssociations
<1>2. ASSUME NEW f \in Files, fileAssociations'[f] # NoSlot
      PROVE  checkers'[fileAssociations'[f]] # None
  <2>1. fileAssociations'[f] = fileAssociations[f] /\ fileAssociations[f] \in Slots \ D
    BY <1>1, <1>2, AssociationTypes, SlotFacts DEF Without
  <2>2. checkers[fileAssociations[f]] # None
    BY <1>2, <2>1 DEF AssociationsLive, Present
  <2> QED BY <2>1, <2>2, DisposeSlots
<1>3. ASSUME NEW r \in Requests, requestAssociations'[r] # NoSlot
      PROVE  checkers'[requestAssociations'[r]] # None /\ afterFuncs'[r] > 0
  <2>1. requestAssociations'[r] = requestAssociations[r] /\ requestAssociations[r] \in Slots \ D
    BY <1>1, <1>3, AssociationTypes DEF Without
  <2>2. checkers[requestAssociations[r]] # None /\ afterFuncs[r] > 0
    BY <1>3, <2>1 DEF AssociationsLive, Present
  <2> QED BY <2>1, <2>2, DisposeSlots
<1> QED BY <1>2, <1>3 DEF AssociationsLive, Present

\* A request is associated with a slot that has a checker.
LEMMA Associated ==
  ASSUME Inv, NEW c \in Callers, NEW i \in Slots, Associate(call[c].request, i),
         checkers'[i] # None, NEW r \in Requests
  PROVE  \/ requestAssociations'[r] = requestAssociations[r] /\ afterFuncs'[r] = afterFuncs[r]
         \/ checkers'[requestAssociations'[r]] # None /\ afterFuncs'[r] > 0
<1> DEFINE q == call[c].request
<1>1. CASE requestAssociations' = requestAssociations /\ afterFuncs' = afterFuncs
  BY <1>1
<1>2. CASE /\ q # NoRequest /\ requestAssociations' = [requestAssociations EXCEPT ![q] = i]
           /\ afterFuncs' = [afterFuncs EXCEPT ![q] = @ + 1]
  <2>1. q \in Requests
    BY <1>2, CallerTag
  <2> HIDE DEF q
  <2> QED BY <1>2, <2>1, AssociationTypes
<1> QED BY <1>1, <1>2 DEF Associate

\* Every step keeps the associations of present checkers.
LEMMA AssociationsStep ==
  ASSUME Inv, AssociationsLive, [Next]_vars
  PROVE  AssociationsLive'
<1>a. ASSUME UNCHANGED <<checkers, fileAssociations, requestAssociations, afterFuncs>>
      PROVE  AssociationsLive'
  BY <1>a, AssociationsKept
<1>1. ASSUME NEW c \in Callers, NEW k \in Kinds, NEW r \in Requests \cup {NoRequest},
             NEW f \in Files \cup {NoFile}, Call(c, k, r, f)
      PROVE  AssociationsLive'
  BY <1>1, <1>a DEF Call, poolVars, envVars
<1>2. ASSUME NEW c \in Callers, TryReacquire(c) PROVE AssociationsLive'
  <2>1. UNCHANGED <<checkers, fileAssociations, afterFuncs>> /\ call[c].request \in Requests
    BY <1>2 DEF TryReacquire, envVars, Inv, TypeInv, CallOK
  <2>2. \/ UNCHANGED requestAssociations
        \/ requestAssociations' = [requestAssociations EXCEPT ![call[c].request] = NoSlot]
    BY <1>2 DEF TryReacquire
  <2>3. \A r \in Requests :
          requestAssociations'[r] = NoSlot \/ requestAssociations'[r] = requestAssociations[r]
    BY <2>2, AssociationTypes
  <2> QED BY <2>1, <2>3, AssociationsKept
<1>3. ASSUME NEW c \in Callers, AcquireDiagnostics(c) PROVE AssociationsLive'
  <2>1. /\ UNCHANGED fileAssociations /\ Associate(call[c].request, DiagIndex)
        /\ \/ Present(DiagIndex) /\ checkers' = checkers
           \/ \E x \in Unreferenced : checkers' = [checkers EXCEPT ![DiagIndex] = x]
    BY <1>3 DEF AcquireDiagnostics
  <2>2. /\ checkers'[DiagIndex] # None
        /\ \A j \in Slots : checkers[j] # None => checkers'[j] # None
    BY <2>1, SlotTypes, SlotFacts, NamesAssumption DEF Present, Unreferenced
  <2> QED BY <2>1, <2>2, SlotFacts, Associated, AssociationsKept
<1>4. ASSUME NEW c \in Callers, AcquireQuery(c) PROVE AssociationsLive'
  <2>1. PICK i \in QuerySlots :
          /\ Associate(call[c].request, i)
          /\ \/ Present(i) /\ checkers' = checkers
             \/ \E x \in Unreferenced : checkers' = [checkers EXCEPT ![i] = x]
          /\ \/ UNCHANGED fileAssociations
             \/ fileAssociations' =
                  [g \in Files |-> IF g = call[c].file THEN i ELSE fileAssociations[g]]
    BY <1>4 DEF AcquireQuery, FileMatch, FirstIdle, FirstEmpty, Idle
  <2>2. i \in Slots /\ checkers'[i] # None /\ \A j \in Slots : checkers[j] # None => checkers'[j] # None
    BY <2>1, SlotTypes, SlotFacts, NamesAssumption DEF Present, Unreferenced
  <2>3. \A f \in Files : fileAssociations'[f] \in {fileAssociations[f], i}
    BY <2>1
  <2> QED BY <2>1, <2>2, <2>3, Associated, AssociationsKept
<1>5. ASSUME NEW c \in Callers, Release(c) PROVE AssociationsLive'
  <2>1. \/ Dispose({slot[c]})
        \/ UNCHANGED <<checkers, fileAssociations, requestAssociations>>
    BY <1>5 DEF Release
  <2>2. UNCHANGED afterFuncs
    BY <1>5 DEF Release
  <2> QED BY <2>1, <2>2, <1>a, AssociationsDropped
<1>6. ASSUME CleanupIdleCheckers PROVE AssociationsLive'
  <2>1. UNCHANGED afterFuncs
    BY <1>6 DEF CleanupIdleCheckers
  <2>2. \/ UNCHANGED <<checkers, fileAssociations, requestAssociations>>
        \/ Dispose({i \in Slots : IdleTooLong(i)})
    BY <1>6, CleanupForms DEF poolVars
  <2> QED BY <2>1, <2>2, <1>a, AssociationsDropped
<1>7. ASSUME NEW r \in Requests, RequestCleanup(r) PROVE AssociationsLive'
  <2>1. /\ UNCHANGED <<checkers, fileAssociations>>
        /\ requestAssociations' = [requestAssociations EXCEPT ![r] = NoSlot]
        /\ afterFuncs' = [afterFuncs EXCEPT ![r] = @ - 1]
    BY <1>7 DEF RequestCleanup
  <2>2. \A q \in Requests :
          \/ requestAssociations'[q] = NoSlot
          \/ requestAssociations'[q] = requestAssociations[q] /\ afterFuncs'[q] = afterFuncs[q]
    BY <2>1, AssociationTypes
  <2> QED BY <2>1, <2>2, AssociationsKept
<1>8. ASSUME NEW c \in Callers, ClaimSemaphore(c) \/ AcquirePersistent(c) \/ ReleasePersistent(c)
                                 \/ ReleaseSemaphore(c)
      PROVE  AssociationsLive'
  BY <1>8, <1>a DEF ClaimSemaphore, AcquirePersistent, ReleasePersistent, ReleaseSemaphore,
                    poolVars, envVars
<1>9. ASSUME \/ \E c \in Callers : CancelChecker(c) \/ ProduceGlobalDiagnostic(c)
             \/ \E i \in Slots : Expire(i)
             \/ \E r \in Requests : FinishRequest(r)
             \/ TimerFires \/ Discard \/ TakeNewGlobalDiagnostics \/ UNCHANGED vars
      PROVE  AssociationsLive'
  BY <1>9, <1>a DEF CancelChecker, ProduceGlobalDiagnostic, Expire, FinishRequest, TimerFires,
    Discard, TakeNewGlobalDiagnostics, vars, poolVars, envVars
<1> QED BY <1>1, <1>2, <1>3, <1>4, <1>5, <1>6, <1>7, <1>8, <1>9 DEF Next, Step

\* Files and requests are associated with existing checkers only, and whatever a request is
\* associated with, the AfterFunc of its context will remove (registerRequestCleanup,
\* disposeCheckerLocked).
THEOREM Associations == Spec => []AssociationsLive
<1>1. Init => AssociationsLive
  BY DEF Init, AssociationsLive
<1>2. Spec => []Inv
  BY PoolInvariant, PTL DEF Inv
<1> QED BY <1>1, <1>2, AssociationsStep, PTL DEF Spec

-----------------------------------------------------------------------------
(* Global diagnostics.                                                          *)

\* The count is that of diagnostics which are accumulated already, it is 0 for a slot
\* without a checker, and a released checker has nothing that is not accumulated.
Accumulated ==
  /\ ~globalDiagChanged => globalDiagAccumulated \subseteq seen
  /\ ~Present(DiagIndex) => globalDiagCount = 0
  /\ globalDiagCount <= Cardinality(globals \cap globalDiagAccumulated)
  /\ Idle(DiagIndex) => globals \subseteq globalDiagAccumulated

\* The types of the global diagnostics.
LEMMA GlobalTypes ==
  ASSUME Inv
  PROVE  /\ globals \subseteq Diags /\ IsFiniteSet(globals) /\ Cardinality(globals) \in Nat
         /\ globalDiagCount \in Nat /\ globalDiagChanged \in BOOLEAN
<1>1. globals \subseteq Diags /\ globalDiagCount \in Nat /\ globalDiagChanged \in BOOLEAN
  BY DEF Inv, TypeInv, TypeOK
<1> QED BY <1>1, DiagsAssumption, FS_Subset, FS_CardinalityType

\* A step that leaves the diagnostics alone, and neither releases nor removes the checker.
LEMMA GlobalsKept ==
  ASSUME Accumulated,
         UNCHANGED <<globals, globalDiagAccumulated, globalDiagCount, globalDiagChanged, seen>>,
         Idle(DiagIndex)' => Idle(DiagIndex), Present(DiagIndex) => Present(DiagIndex)'
  PROVE  Accumulated'
<1>1. /\ ~globalDiagChanged' => globalDiagAccumulated' \subseteq seen'
      /\ globalDiagCount' <= Cardinality(globals' \cap globalDiagAccumulated')
      /\ Idle(DiagIndex)' => globals' \subseteq globalDiagAccumulated'
      /\ ~Present(DiagIndex)' => globalDiagCount' = 0
  BY DEF Accumulated
<1> QED BY <1>1 DEF Accumulated

\* The slot of the diagnostics checker is disposed of, or another one.
LEMMA GlobalsDisposed ==
  ASSUME Inv, Accumulated, NEW D, Dispose(D),
         UNCHANGED <<globals, globalDiagAccumulated, globalDiagChanged, seen>>
  PROVE  Accumulated'
<1>1. globalDiagCount' = IF DiagIndex \in D THEN 0 ELSE globalDiagCount
  BY DEF Dispose, ResetCount
<1>2. CASE DiagIndex \in D
  <2>1. ~Present(DiagIndex)' /\ ~Idle(DiagIndex)' /\ globalDiagCount' = 0
    BY <1>1, <1>2, DisposeSlots, SlotFacts DEF Idle, Present
  <2>2. 0 <= Cardinality(globals \cap globalDiagAccumulated)
    <3>1. IsFiniteSet(globals \cap globalDiagAccumulated)
      BY GlobalTypes, FS_Intersection
    <3> QED BY <3>1, FS_CardinalityType
  <2> QED BY <2>1, <2>2 DEF Accumulated
<1>3. CASE DiagIndex \notin D
  <2>1. (Idle(DiagIndex)' <=> Idle(DiagIndex)) /\ (Present(DiagIndex)' <=> Present(DiagIndex))
    BY <1>3, DisposeSlots, SlotFacts DEF Idle, Present
  <2> QED BY <1>1, <1>3, <2>1, GlobalsKept
<1> QED BY <1>2, <1>3

\* The checker is released: its diagnostics are accumulated.
LEMMA GlobalsMerged ==
  ASSUME Inv, Accumulated, MergeGlobalDiagnostics, UNCHANGED <<globals, seen>>,
         Present(DiagIndex)'
  PROVE  Accumulated'
<1>1. CASE Cardinality(globals) = globalDiagCount
  <2>1. UNCHANGED <<globalDiagAccumulated, globalDiagChanged, globalDiagCount>>
    BY <1>1 DEF MergeGlobalDiagnostics
  <2>2. globals \subseteq globalDiagAccumulated
    <3> DEFINE both == globals \cap globalDiagAccumulated
    <3>1. both \in SUBSET globals /\ IsFiniteSet(both) /\ Cardinality(both) \in Nat
      BY GlobalTypes, FS_Intersection, FS_CardinalityType
    <3>2. Cardinality(both) <= Cardinality(globals)
      BY <3>1, GlobalTypes, FS_Subset
    <3>3. globalDiagCount <= Cardinality(both)
      BY DEF Accumulated
    <3>4. Cardinality(both) = Cardinality(globals)
      <4> HIDE DEF both
      <4> QED BY <1>1, <3>1, <3>2, <3>3, GlobalTypes
    <3>5. both = globals
      <4> HIDE DEF both
      <4> QED BY <3>1, <3>4, GlobalTypes, FS_Subset
    <3> QED BY <3>5
  <2> QED BY <2>1, <2>2 DEF Accumulated
<1>2. CASE Cardinality(globals) # globalDiagCount
  <2>1. /\ globalDiagCount' = Cardinality(globals)
        /\ globalDiagAccumulated' = globalDiagAccumulated \cup globals
        /\ globalDiagChanged' = (globalDiagChanged \/ ~(globals \subseteq globalDiagAccumulated))
    BY <1>2 DEF MergeGlobalDiagnostics
  <2>2. ~globalDiagChanged' => globalDiagAccumulated' \subseteq seen'
    <3>1. SUFFICES ASSUME ~globalDiagChanged'
                   PROVE  globalDiagAccumulated \subseteq seen /\ globals \subseteq globalDiagAccumulated
      BY <2>1
    <3> QED BY <2>1, <3>1 DEF Accumulated
  <2>3. globals' \cap globalDiagAccumulated' = globals
    BY <2>1
  <2>4. globalDiagCount' <= Cardinality(globals' \cap globalDiagAccumulated')
    BY <2>1, <2>3, GlobalTypes
  <2>5. globals' \subseteq globalDiagAccumulated'
    BY <2>1
  <2> QED BY <2>2, <2>4, <2>5 DEF Accumulated
<1> QED BY <1>1, <1>2

\* A slot is taken, with the diagnostics left alone.
LEMMA GlobalsTaken ==
  ASSUME Inv, Accumulated, NEW i \in Slots, Takes(i),
         UNCHANGED <<globals, globalDiagAccumulated, globalDiagCount, globalDiagChanged, seen>>
  PROVE  Accumulated'
<1>1. Idle(DiagIndex)' => Idle(DiagIndex)
  BY SlotFacts DEF Takes, Idle, Present
<1>2. Present(DiagIndex) => Present(DiagIndex)'
  BY SlotFacts DEF Takes, Present
<1> QED BY <1>1, <1>2, GlobalsKept

\* Every step keeps the global diagnostics accumulated.
LEMMA GlobalsStep ==
  ASSUME Inv, Accumulated, [Next]_vars
  PROVE  Accumulated'
<1> DEFINE Same == UNCHANGED <<globals, globalDiagAccumulated, globalDiagCount, globalDiagChanged, seen>>
<1>a. ASSUME Same, UNCHANGED <<checkers, heldBy>> PROVE Accumulated'
  <2>1. (Idle(DiagIndex)' <=> Idle(DiagIndex)) /\ (Present(DiagIndex)' <=> Present(DiagIndex))
    BY <1>a DEF Idle, Present
  <2> QED BY <1>a, <2>1, GlobalsKept
<1>1. ASSUME NEW c \in Callers, NEW k \in Kinds, NEW r \in Requests \cup {NoRequest},
             NEW f \in Files \cup {NoFile}, Call(c, k, r, f)
      PROVE  Accumulated'
  BY <1>1, <1>a DEF Call, poolVars, diagVars
<1>2. ASSUME NEW c \in Callers, TryReacquire(c) \/ AcquireQuery(c) PROVE Accumulated'
  <2>1. Same
    BY <1>2 DEF TryReacquire, AcquireQuery, diagVars
  <2>2. CASE KeepsSlots
    BY <2>1, <2>2, <1>a DEF KeepsSlots
  <2>3. CASE \E i \in Slots : Takes(i)
    BY <2>1, <2>3, GlobalsTaken
  <2> QED BY <1>2, <2>2, <2>3, TakesSlot
<1>3. ASSUME NEW c \in Callers, AcquireDiagnostics(c) PROVE Accumulated'
  <2>1. /\ UNCHANGED <<globalDiagAccumulated, globalDiagCount, globalDiagChanged, seen>>
        /\ heldBy' = [heldBy EXCEPT ![DiagIndex] = HoldTag(call[c].request)]
        /\ \/ Present(DiagIndex) /\ UNCHANGED <<checkers, globals>>
           \/ \E x \in Unreferenced :
                /\ ~Present(DiagIndex)
                /\ checkers' = [checkers EXCEPT ![DiagIndex] = x] /\ globals' = {}
    BY <1>3 DEF AcquireDiagnostics
  <2>2. ~Idle(DiagIndex)' /\ Present(DiagIndex)'
    BY <2>1, SlotTypes, SlotFacts, CallerTag, NamesAssumption DEF Idle, Present, Unreferenced
  <2>3. CASE Present(DiagIndex)
    BY <2>1, <2>2, <2>3, GlobalsKept
  <2>4. CASE ~Present(DiagIndex)
    <3>1. globalDiagCount' = 0 /\ globals' = {}
      BY <2>1, <2>4 DEF Accumulated
    <3>2. globals' \cap globalDiagAccumulated' = {} /\ Cardinality({}) = 0
      BY <3>1, FS_EmptySet
    <3>3. globalDiagCount' <= Cardinality(globals' \cap globalDiagAccumulated')
      BY <3>1, <3>2
    <3> QED BY <2>1, <2>2, <3>3 DEF Accumulated
  <2> QED BY <2>3, <2>4
<1>4. ASSUME NEW c \in Callers, Release(c) PROVE Accumulated'
  <2>1. UNCHANGED <<globals, seen>>
    BY <1>4 DEF Release
  <2>2. CASE WasCanceled(c)
    <3>1. Dispose({slot[c]}) /\ UNCHANGED <<globalDiagAccumulated, globalDiagChanged>>
      BY <1>4, <2>2 DEF Release
    <3> QED BY <2>1, <3>1, GlobalsDisposed
  <2>3. CASE ~WasCanceled(c)
    <3>1. /\ UNCHANGED checkers /\ heldBy' = [heldBy EXCEPT ![slot[c]] = NotHeld]
          /\ IF slot[c] = DiagIndex THEN MergeGlobalDiagnostics
             ELSE UNCHANGED <<globalDiagAccumulated, globalDiagChanged, globalDiagCount>>
          /\ pc[c] = "using" /\ call[c].kind # "api"
      BY <1>4, <2>3 DEF Release
    <3>2. slot[c] \in Slots /\ checkers[slot[c]] # None
      BY <3>1, UserHolds, NamesAssumption
    <3>3. CASE slot[c] = DiagIndex
      BY <2>1, <3>1, <3>2, <3>3, GlobalsMerged DEF Present
    <3>4. CASE slot[c] # DiagIndex
      <4>1. (Idle(DiagIndex)' <=> Idle(DiagIndex)) /\ (Present(DiagIndex)' <=> Present(DiagIndex))
        BY <3>1, <3>4, SlotTypes, SlotFacts DEF Idle, Present
      <4> QED BY <2>1, <3>1, <3>4, <4>1, GlobalsKept
    <3> QED BY <3>3, <3>4
  <2> QED BY <2>2, <2>3
<1>5. ASSUME CleanupIdleCheckers PROVE Accumulated'
  <2>1. UNCHANGED <<globals, globalDiagAccumulated, globalDiagChanged, seen>>
    BY <1>5 DEF CleanupIdleCheckers
  <2>2. CASE UNCHANGED <<poolVars, globalDiagCount>>
    BY <2>1, <2>2, <1>a DEF poolVars
  <2>3. CASE Dispose({i \in Slots : IdleTooLong(i)})
    BY <2>1, <2>3, GlobalsDisposed
  <2> QED BY <1>5, <2>2, <2>3, CleanupForms
<1>6. ASSUME NEW c \in Callers, ProduceGlobalDiagnostic(c) PROVE Accumulated'
  <2>1. /\ pc[c] = "using" /\ call[c].kind = "diagnostics"
        /\ \E d \in Diags : globals' = globals \cup {d}
        /\ UNCHANGED <<checkers, heldBy, globalDiagAccumulated, globalDiagCount, globalDiagChanged, seen>>
    BY <1>6 DEF ProduceGlobalDiagnostic, poolVars
  <2>2. slot[c] = DiagIndex
    BY <2>1 DEF Inv, PoolInv, Owners, RightCategory
  <2>3. ~Idle(DiagIndex)' /\ (Present(DiagIndex)' <=> Present(DiagIndex))
    BY <2>1, <2>2, UserHolds DEF Idle, Present
  <2>4. globalDiagCount' <= Cardinality(globals' \cap globalDiagAccumulated')
    <3> DEFINE old == globals \cap globalDiagAccumulated
               new == globals' \cap globalDiagAccumulated'
    <3>1. globals' \subseteq Diags
      BY <2>1, GlobalTypes
    <3>2. IsFiniteSet(new) /\ old \in SUBSET new
      BY <2>1, <3>1, DiagsAssumption, FS_Subset
    <3>3. IsFiniteSet(old) /\ Cardinality(old) \in Nat /\ Cardinality(new) \in Nat
      BY <3>2, FS_Subset, FS_CardinalityType
    <3>4. Cardinality(old) <= Cardinality(new)
      <4> HIDE DEF old, new
      <4> QED BY <3>2, FS_Subset
    <3>5. globalDiagCount' <= Cardinality(old)
      BY <2>1 DEF Accumulated
    <3> HIDE DEF old
    <3> QED BY <2>1, <3>3, <3>4, <3>5, GlobalTypes
  <2> QED BY <2>1, <2>3, <2>4 DEF Accumulated
<1>7. ASSUME TakeNewGlobalDiagnostics PROVE Accumulated'
  <2>1. /\ globalDiagChanged' = FALSE /\ seen' = globalDiagAccumulated
        /\ UNCHANGED <<checkers, heldBy, globals, globalDiagAccumulated, globalDiagCount>>
    BY <1>7 DEF TakeNewGlobalDiagnostics, poolVars
  <2>2. (Idle(DiagIndex)' <=> Idle(DiagIndex)) /\ (Present(DiagIndex)' <=> Present(DiagIndex))
    BY <2>1 DEF Idle, Present
  <2> QED BY <2>1, <2>2 DEF Accumulated
<1>8. ASSUME NEW c \in Callers, ClaimSemaphore(c) \/ AcquirePersistent(c) \/ ReleasePersistent(c)
                                 \/ ReleaseSemaphore(c) \/ CancelChecker(c)
      PROVE  Accumulated'
  BY <1>8, <1>a DEF ClaimSemaphore, AcquirePersistent, ReleasePersistent, ReleaseSemaphore,
                    CancelChecker, poolVars, diagVars
<1>9. ASSUME \/ \E i \in Slots : Expire(i)
             \/ \E r \in Requests : FinishRequest(r) \/ RequestCleanup(r)
             \/ TimerFires \/ Discard \/ UNCHANGED vars
      PROVE  Accumulated'
  BY <1>9, <1>a DEF Expire, FinishRequest, RequestCleanup, TimerFires, Discard, vars, poolVars, diagVars
<1> QED BY <1>1, <1>2, <1>3, <1>4, <1>5, <1>6, <1>7, <1>8, <1>9 DEF Next, Step

\* Whoever polls TakeNewGlobalDiagnostics misses nothing: equal numbers mean equal sets,
\* because the diagnostics of one checker only grow and the count starts again with it
\* (mergeGlobalDiagnosticsFromCheckerLocked, disposeCheckerLocked).
THEOREM NothingMissed == Spec => []GlobalsSeen
<1>1. Init => Accumulated
  <2>1. SUFFICES ASSUME Init PROVE Accumulated
    OBVIOUS
  <2>2. globals \cap globalDiagAccumulated = {} /\ Cardinality({}) = 0 /\ globalDiagCount = 0
    BY <2>1, FS_EmptySet DEF Init
  <2>3. globalDiagCount <= Cardinality(globals \cap globalDiagAccumulated)
    BY <2>2
  <2> QED BY <2>1, <2>3 DEF Init, Accumulated
<1>2. Accumulated => GlobalsSeen
  <2>1. ASSUME Accumulated, Idle(DiagIndex), ~globalDiagChanged PROVE globals \subseteq seen
    BY <2>1 DEF Accumulated
  <2> QED BY <2>1 DEF GlobalsSeen
<1>3. Spec => []Inv
  BY PoolInvariant, PTL DEF Inv
<1> QED BY <1>1, <1>2, <1>3, GlobalsStep, PTL DEF Spec

\* The bookkeeping that TLC checks as one invariant: the theorems above together
\* (checkerpool.go as a whole).
THEOREM UpkeepKept == Spec => []Upkeep
  BY TypeCorrect, NoSlotPanic, IdleWatched, NothingMissed, Associations, PTL DEF Upkeep

-----------------------------------------------------------------------------
(* When the owners of the extended files are exact, and the invariant.          *)

\* Every configuration names all files that it extends, also those that they extend in turn.
Closed == \A c \in Configs : \A f \in Extends[c] : Extends[f] \subseteq Extends[c]

\* Snapshots are disposed of one at a time, or no two configurations extend the same file.
Once  == \A c, d \in Configs : c # d => Uses(c) \cap Uses(d) = {}
Apart == Once \/ \A d, e \in Disposers : d = e
Careful == Closed /\ Apart

Frames == [file : Configs \cup ExtendedFiles, entry : Entries \cup {Nil}, rest : SUBSET ExtendedFiles]
Works == [pc : {"idle", "load", "own", "release"}, snap : Snapshots, stack : Seq(Frames),
          todo : SUBSET (Configs \X ExtendedFiles), file : ExtendedFiles \cup {Nil}, waiting : Entries \cup {Nil}]
WellTyped ==
  /\ entries \in [ExtendedFiles -> Entries \cup {Nil}]
  /\ lockedBy \in [Entries -> Procs \cup {Nil}] /\ owners \in [Entries -> SUBSET Snapshots]
  /\ registry \in [Snapshots -> SUBSET Configs] /\ current \in Snapshots
  /\ life \in [Snapshots -> {"unborn", "building", "live", "disposing", "disposed"}]
  /\ toLoad \in SUBSET Configs /\ panicked \in BOOLEAN
  /\ go \in [Procs -> Works]

\* Snapshot s is an owner of file f, and the files that it should own.
OwnsFile(s, f) == entries[f] # Nil /\ s \in owners[entries[f]]
UsedBy(s) == UNION {Extends[c] : c \in registry[s]}

\* The snapshot that is being cloned.
New == go[Builder].snap

\* One clone at a time, of the session's snapshot, which nobody disposes of.
OneClone ==
  /\ go[Builder].pc \in {"idle", "load", "own"}
  /\ \A s \in Snapshots : life[s] = "building" <=> go[Builder].pc # "idle" /\ s = New
  /\ life[current] = "live"
  /\ go[Builder].pc = "load" => toLoad \subseteq registry[New] /\ go[Builder].waiting = Nil
  /\ go[Builder].pc # "load" => toLoad = {} /\ \A p \in Loaders : go[p].pc = "idle"
  /\ go[Builder].pc = "idle" => go[Builder] = NoWork
  /\ \E n \in 1 .. Last + 1 : \A s \in Snapshots : life[s] # "unborn" <=> s < n

\* Every snapshot is disposed of by one goroutine.
OneDisposal ==
  /\ \A d \in Disposers : go[d].pc \in {"idle", "release"} /\ (go[d].pc = "idle" => go[d] = NoWork)
  /\ \A d \in Disposers : go[d].pc = "release" => life[go[d].snap] = "disposing"
  /\ \A d, e \in Disposers : go[d].pc = "release" /\ go[e].pc = "release" /\ go[d].snap = go[e].snap => d = e

OneFile == \A f, g \in ExtendedFiles : entries[f] = entries[g] /\ entries[f] # Nil => f = g

\* An entry that nobody can find any more.
Dead(e) == owners[e] = {} /\ \A f \in ExtendedFiles : entries[f] # e

\* Each frame but the lowest one is that of a file of the configuration, whose entry its
\* goroutine has locked.  What the configuration does not extend any more is owned.
FrameOK(p, c, frame) ==
  /\ frame.file \in Extends[c] /\ frame.rest \subseteq Extends[c]
  /\ frame.entry \in Entries /\ entries[frame.file] = frame.entry /\ lockedBy[frame.entry] = p
StackOK(p, s) ==
  /\ Len(s) >= 1
  /\ s[1].file \in registry[New] /\ s[1].rest \subseteq Extends[s[1].file]
  /\ \A f \in Extends[s[1].file] \ s[1].rest : OwnsFile(New, f)
  /\ \A i \in 2 .. Len(s) : FrameOK(p, s[1].file, s[i])
  /\ \A i, j \in 1 .. Len(s) : s[i].file = s[j].file => i = j
WaitOK(p) ==
  /\ go[p].pc = "load" /\ go[p].file \in Top(p).rest /\ ~OnStack(p, go[p].file)
  /\ entries[go[p].file] = go[p].waiting \/ Dead(go[p].waiting)
LoaderOK(p) ==
  /\ go[p].pc \in {"idle", "load"}
  /\ go[p].pc = "idle" => go[p] = NoWork
  /\ go[p].pc = "load" => go[p].snap = New /\ StackOK(p, go[p].stack)
  /\ go[p].waiting # Nil => WaitOK(p)

\* While a clone loads, each of its configurations is one of the session's snapshot, or has
\* yet to be loaded, or is being loaded, or owns what it extends.
Loading ==
  go[Builder].pc = "load" =>
    \A c \in registry[New] :
      \/ c \in registry[current] \/ c \in toLoad
      \/ \E p \in Loaders : go[p].pc = "load" /\ go[p].stack[1].file = c
      \/ \A f \in Extends[c] : OwnsFile(New, f)

\* While it takes its ownership, the session's snapshot keeps what the clone has not got yet.
Todo(p) == {u[2] : u \in go[p].todo}
Owning ==
  go[Builder].pc = "own" =>
    /\ Todo(Builder) \subseteq UsedBy(New)
    /\ \A f \in UsedBy(New) :
         /\ OwnsFile(current, f) \/ OwnsFile(New, f)
         /\ f \in Todo(Builder) \/ entries[f] = go[Builder].waiting \/ OwnsFile(New, f)
    /\ go[Builder].waiting # Nil => \E f \in UsedBy(New) : entries[f] = go[Builder].waiting

\* A disposer waits for the entry in the map, which it owns if no file is released twice.
ReleaseOK(d) ==
  /\ go[d].todo \subseteq UsesOf(go[d].snap)
  /\ go[d].waiting # Nil =>
       /\ go[d].pc = "release" /\ go[d].file \in ExtendedFiles /\ entries[go[d].file] = go[d].waiting
       /\ Once => OwnsFile(go[d].snap, go[d].file) /\ go[d].file \notin Todo(d)
  /\ Once => \A f \in Todo(d) : OwnsFile(go[d].snap, f)

\* What a disposer owns it has still to release.
LeftOK(d) ==
  go[d].pc = "release" => \A f \in ExtendedFiles : OwnsFile(go[d].snap, f) =>
    f \in Todo(d) \/ go[d].waiting = entries[f]

\* Who is not there owns nothing, and the others own only what they use.
OnlyUsed ==
  \A s \in Snapshots : \A f \in ExtendedFiles : OwnsFile(s, f) =>
    /\ life[s] \notin {"unborn", "disposed"}
    /\ life[s] \in {"live", "building"} => f \in UsedBy(s)
AllOwned == \A s \in Snapshots : life[s] = "live" => \A f \in UsedBy(s) : OwnsFile(s, f)

Kept ==
  /\ WellTyped /\ OneClone /\ OneDisposal /\ OneFile /\ ~panicked
  /\ \A p \in Loaders : LoaderOK(p)
  /\ \A d \in Disposers : ReleaseOK(d)
  /\ Loading /\ Owning /\ AllOwned
\* Nothing is left behind if no clone drops a configuration that it has loaded.
NoRest == ~MayDrop => OnlyUsed /\ \A d \in Disposers : LeftOK(d)
Exact == Kept /\ NoRest

-----------------------------------------------------------------------------
(* What the operators of the model are.                                         *)

\* Any set of numbers has a smallest one.
LEMMA Smallest == ASSUME NEW S \in SUBSET Nat, S # {} PROVE \E n \in S : \A m \in S : n <= m
<1>1. PICK n \in S : \A m \in S : ~(<<m, n>> \in OpToRel(<, Nat))
  BY NatLessThanWellFounded, WFMin, Zenon
<1>2. \A m \in S : ~(m < n)
  BY <1>1 DEF OpToRel
<1> QED BY <1>2

\* A configuration that names all it extends uses nothing else.
LEMMA UsesIs == ASSUME Closed, NEW c \in Configs PROVE Uses(c) = Extends[c]
<1> DEFINE N == Cardinality(ExtendedFiles)
           More(files) == files \cup UNION {Extends[f] : f \in files}
           G(g) == [n \in 0 .. N |-> IF n = 0 THEN Extends[c] ELSE More(g[n - 1])]
           reach == CHOOSE g : g = G(g)
           all == [n \in 0 .. N |-> Extends[c]]
<1>1. Uses(c) = reach[N]
  BY DEF Uses
<1>2. N \in Nat
  BY FilesAssumption, FS_CardinalityType
<1>3. More(Extends[c]) = Extends[c]
  BY DEF Closed
<1> HIDE DEF N, More
<1>4. all = G(all)
  <2>1. ASSUME NEW n \in 0 .. N, n # 0 PROVE all[n - 1] = Extends[c]
    BY <1>2, <2>1
  <2> QED BY <1>3, <2>1
<1>5. reach = G(reach)
  BY <1>4
<1> HIDE DEF reach
<1> DEFINE Bad == {n \in Nat : n \in 0 .. N /\ reach[n] # Extends[c]}
<1>6. ASSUME Bad # {} PROVE FALSE
  <2>1. PICK n \in Bad : \A m \in Bad : n <= m
    BY <1>6, Smallest
  <2>2. n # 0
    BY <1>2, <1>5, <2>1
  <2>3. n - 1 \in 0 .. N /\ n - 1 \in Nat
    BY <1>2, <2>1, <2>2
  <2>4. reach[n - 1] = Extends[c]
    BY <2>1, <2>3
  <2> QED BY <1>3, <1>5, <2>1, <2>2, <2>4
<1>7. reach[N] = Extends[c]
  BY <1>2, <1>6
<1> QED BY <1>1, <1>7

\* A pair to be owned or released is a configuration of the snapshot and a file it extends.
LEMMA UsesInIs ==
  ASSUME Closed, NEW configs \in SUBSET Configs
  PROVE  /\ UsesIn(configs) \subseteq Configs \X ExtendedFiles
         /\ \A u \in UsesIn(configs) : u[1] \in configs /\ u[2] \in Uses(u[1]) /\ u = <<u[1], u[2]>>
         /\ {u[2] : u \in UsesIn(configs)} = UNION {Extends[c] : c \in configs}
<1>1. \A c \in configs : Uses(c) = Extends[c] /\ Extends[c] \subseteq ExtendedFiles
  BY UsesIs, FilesAssumption
<1>2. \A u \in UsesIn(configs) : \E c \in configs : \E f \in Uses(c) : u = <<c, f>>
  BY DEF UsesIn
<1>3. ASSUME NEW u \in UsesIn(configs)
      PROVE  u[1] \in configs /\ u[2] \in Uses(u[1]) /\ u = <<u[1], u[2]>> /\ u \in Configs \X ExtendedFiles
  BY <1>1, <1>2
<1>4. \A c \in configs : \A f \in Uses(c) : <<c, f>> \in UsesIn(configs)
  BY DEF UsesIn
<1>5. ASSUME NEW f \in UNION {Extends[c] : c \in configs} PROVE f \in {u[2] : u \in UsesIn(configs)}
  <2>1. PICK c \in configs : f \in Extends[c]
    OBVIOUS
  <2>2. <<c, f>> \in UsesIn(configs) /\ <<c, f>>[2] = f
    BY <1>1, <1>4, <2>1
  <2> QED BY <2>2
<1>6. ASSUME NEW u \in UsesIn(configs) PROVE u[2] \in UNION {Extends[c] : c \in configs}
  BY <1>1, <1>3
<1> QED BY <1>3, <1>5, <1>6

\* Goroutines are not what they should not be.
LEMMA Goroutines ==
  /\ Builder \in Procs /\ Nil \notin Procs /\ Loaders \subseteq Procs /\ Disposers \subseteq Procs
  /\ \A p \in Loaders : p # Builder /\ p \notin Disposers
  /\ \A d \in Disposers : d # Builder /\ d \notin Loaders
BY GoroutinesAssumption DEF Procs

\* Snapshot 0 is the session's first.
LEMMA Snaps == Last \in Nat /\ Snapshots = 0 .. Last /\ 0 \in Snapshots
BY BoundAssumption DEF Snapshots

\* A goroutine with nothing to do.
LEMMA NoWorkIs == NoWork \in Works /\ NoWork.pc = "idle" /\ NoWork.waiting = Nil /\ NoWork.todo = {} /\ NoWork.stack = <<>>
BY Snaps DEF NoWork, Works

\* What is extended are files, and those are not configurations.
LEMMA FilesOf ==
  /\ \A c \in Configs \cup ExtendedFiles : Extends[c] \subseteq ExtendedFiles
  /\ Nil \notin Entries /\ Configs \cap ExtendedFiles = {}
BY FilesAssumption

\* A file has been loaded that the topmost frame extends.
LEMMA ParsedIs ==
  ASSUME NEW s \in Seq(Frames), Len(s) >= 1, NEW f
  PROVE  /\ Parsed(s, f) \in Seq(Frames) /\ Len(Parsed(s, f)) = Len(s)
         /\ \A i \in 1 .. Len(s) : /\ Parsed(s, f)[i].file = s[i].file /\ Parsed(s, f)[i].entry = s[i].entry
                                   /\ i # Len(s) => Parsed(s, f)[i].rest = s[i].rest
         /\ Parsed(s, f)[Len(s)].rest = s[Len(s)].rest \ {f}
<1> DEFINE t == [s[Len(s)] EXCEPT !.rest = @ \ {f}]
<1>1. Len(s) \in 1 .. Len(s) /\ s[Len(s)] \in Frames
  OBVIOUS
<1>2. t \in Frames /\ t.file = s[Len(s)].file /\ t.entry = s[Len(s)].entry /\ t.rest = s[Len(s)].rest \ {f}
  BY <1>1 DEF Frames
<1>3. Parsed(s, f) = [s EXCEPT ![Len(s)] = t]
  BY <1>1 DEF Parsed
<1> HIDE DEF t
<1>4. Parsed(s, f) \in Seq(Frames) /\ Len(Parsed(s, f)) = Len(s)
  BY <1>1, <1>2, <1>3
<1>5. \A i \in 1 .. Len(s) : Parsed(s, f)[i] = IF i = Len(s) THEN t ELSE s[i]
  BY <1>1, <1>3
<1> QED BY <1>1, <1>2, <1>4, <1>5

\* A frame is put on the stack.
LEMMA AppendedIs ==
  ASSUME NEW s \in Seq(Frames), NEW x \in Frames
  PROVE  /\ Append(s, x) \in Seq(Frames) /\ Len(Append(s, x)) = Len(s) + 1
         /\ \A i \in 1 .. Len(s) : Append(s, x)[i] = s[i]
         /\ Append(s, x)[Len(s) + 1] = x
OBVIOUS

\* The frames below the topmost one.
LEMMA BelowIs ==
  ASSUME NEW s \in Seq(Frames), Len(s) > 1, NEW t, t = SubSeq(s, 1, Len(s) - 1)
  PROVE  /\ t \in Seq(Frames) /\ Len(t) = Len(s) - 1
         /\ \A i \in 1 .. Len(t) : t[i] = s[i]
OBVIOUS

-----------------------------------------------------------------------------
(* What a step of one goroutine leaves to the others.                           *)

\* A loader goes on if its entries stay locked and in the map, what the clone owns is still
\* owned, and the entry that it waits for stays in the map or is dead.
LEMMA LoaderStays ==
  ASSUME NEW q \in Loaders, WellTyped, LoaderOK(q), go'[q] = go[q], New' = New, registry'[New] = registry[New],
         \A f \in ExtendedFiles : entries[f] \in Entries /\ lockedBy[entries[f]] = q =>
           entries'[f] = entries[f] /\ lockedBy'[entries[f]] = q,
         \A f \in ExtendedFiles : OwnsFile(New, f) => OwnsFile(New, f)',
         \A f \in ExtendedFiles : entries[f] = go[q].waiting /\ entries[f] # Nil =>
           entries'[f] = go[q].waiting \/ Dead(go[q].waiting)',
         Dead(go[q].waiting) /\ go[q].waiting \in Entries => Dead(go[q].waiting)'
  PROVE  LoaderOK(q)'
<1> DEFINE s == go[q].stack
<1>1. q \in Procs /\ go[q] \in Works
  BY Goroutines DEF WellTyped
<1>2. s \in Seq(Frames) /\ go[q].waiting \in Entries \cup {Nil} /\ go[q].file \in ExtendedFiles \cup {Nil}
  BY <1>1 DEF Works
<1>3. ASSUME go[q].pc = "load", go[q].snap = New, StackOK(q, s) PROVE StackOK(q, s)'
  <2> DEFINE c == s[1].file
  <2>1. /\ Len(s) >= 1 /\ c \in registry[New] /\ s[1].rest \subseteq Extends[c]
        /\ \A f \in Extends[c] \ s[1].rest : OwnsFile(New, f)
        /\ \A i \in 2 .. Len(s) : FrameOK(q, c, s[i])
        /\ \A i, j \in 1 .. Len(s) : s[i].file = s[j].file => i = j
    BY <1>3 DEF StackOK
  <2>2. s[1] \in Frames
    BY <1>2, <2>1
  <2>3. c \in Configs \cup ExtendedFiles
    BY <2>2 DEF Frames
  <2>4. Extends[c] \subseteq ExtendedFiles
    BY <2>3, FilesOf
  <2>5. ASSUME NEW f \in Extends[c] \ s[1].rest PROVE OwnsFile(New, f)'
    BY <2>1, <2>4
  <2>6. ASSUME NEW i \in 2 .. Len(s)
        PROVE  /\ s[i].file \in Extends[c] /\ s[i].rest \subseteq Extends[c]
               /\ s[i].entry \in Entries /\ entries'[s[i].file] = s[i].entry /\ lockedBy'[s[i].entry] = q
    <3>1. FrameOK(q, c, s[i])
      BY <2>1
    <3>2. /\ s[i].file \in Extends[c] /\ s[i].rest \subseteq Extends[c]
          /\ s[i].entry \in Entries /\ entries[s[i].file] = s[i].entry /\ lockedBy[s[i].entry] = q
      BY <3>1 DEF FrameOK
    <3>3. s[i].file \in ExtendedFiles
      BY <2>4, <3>2
    <3>4. entries'[s[i].file] = s[i].entry /\ lockedBy'[s[i].entry] = q
      BY <3>2, <3>3
    <3> QED BY <3>2, <3>4
  <2>8. /\ go'[q].snap = New' /\ Len(go'[q].stack) >= 1 /\ go'[q].stack[1].file \in registry'[New']
        /\ go'[q].stack[1].rest \subseteq Extends[go'[q].stack[1].file]
        /\ \A i, j \in 1 .. Len(go'[q].stack) : go'[q].stack[i].file = go'[q].stack[j].file => i = j
    BY <1>3, <2>1
  <2>9. \A f \in Extends[go'[q].stack[1].file] \ go'[q].stack[1].rest : OwnsFile(New, f)'
    BY <2>5
  <2>10. \A i \in 2 .. Len(go'[q].stack) : FrameOK(q, c, s[i])'
    BY <2>6 DEF FrameOK
  <2> QED BY <2>8, <2>9, <2>10 DEF StackOK
<1>4. ASSUME go[q].waiting # Nil, WaitOK(q) PROVE WaitOK(q)'
  <2>1. /\ go[q].pc = "load" /\ go[q].file \in Top(q).rest /\ ~OnStack(q, go[q].file)
        /\ entries[go[q].file] = go[q].waiting \/ Dead(go[q].waiting)
    BY <1>4 DEF WaitOK
  <2>2. Top(q)' = Top(q) /\ OnStack(q, go[q].file)' = OnStack(q, go[q].file)
    BY DEF Top, OnStack
  <2>3. Len(s) \in Nat /\ StackOK(q, s)
    BY <1>2, <2>1 DEF LoaderOK
  <2>4. Len(s) \in 1 .. Len(s) /\ s[Len(s)] \in Frames
    BY <1>2, <2>3 DEF StackOK
  <2>5. go[q].file \in ExtendedFiles
    BY <2>1, <2>4 DEF Top, Frames
  <2>6. entries'[go[q].file] = go[q].waiting \/ Dead(go[q].waiting)'
    BY <1>2, <1>4, <2>1, <2>5
  <2> QED BY <2>1, <2>2, <2>6 DEF WaitOK
<1>5. go[q].pc \in {"idle", "load"} /\ (go[q].pc = "idle" => go[q] = NoWork)
      /\ (go[q].pc = "load" => go[q].snap = New /\ StackOK(q, s)) /\ (go[q].waiting # Nil => WaitOK(q))
  BY DEF LoaderOK
<1> QED BY <1>3, <1>4, <1>5 DEF LoaderOK

\* A disposer goes on if the entry that it waits for stays in the map, and what its
\* snapshot owns is still owned.
LEMMA DisposerStays ==
  ASSUME NEW d \in Disposers, WellTyped, ReleaseOK(d), go'[d] = go[d],
         go[d].todo \subseteq UsesOf(go[d].snap) => go'[d].todo \subseteq UsesOf(go[d].snap)',
         go[d].waiting # Nil => entries'[go[d].file] = entries[go[d].file],
         Once => \A f \in ExtendedFiles : OwnsFile(go[d].snap, f) => OwnsFile(go[d].snap, f)'
  PROVE  ReleaseOK(d)'
<1>1. d \in Procs /\ go[d] \in Works
  BY Goroutines DEF WellTyped
<1>2. go[d].todo \subseteq Configs \X ExtendedFiles
  BY <1>1 DEF Works
<1>3. Todo(d) \subseteq ExtendedFiles
  BY <1>2 DEF Todo
<1>4. Todo(d)' = Todo(d)
  BY DEF Todo
<1>5. /\ go[d].todo \subseteq UsesOf(go[d].snap)
      /\ go[d].waiting # Nil =>
           /\ go[d].pc = "release" /\ go[d].file \in ExtendedFiles /\ entries[go[d].file] = go[d].waiting
           /\ Once => OwnsFile(go[d].snap, go[d].file) /\ go[d].file \notin Todo(d)
      /\ Once => \A f \in Todo(d) : OwnsFile(go[d].snap, f)
  BY DEF ReleaseOK
<1>6. go'[d].todo \subseteq UsesOf(go[d].snap)'
  BY <1>5
<1>7. ASSUME Once PROVE \A f \in Todo(d) : OwnsFile(go[d].snap, f)'
  BY <1>3, <1>5, <1>7
<1>8. ASSUME go[d].waiting # Nil
      PROVE  /\ go[d].pc = "release" /\ go[d].file \in ExtendedFiles /\ entries'[go[d].file] = go[d].waiting
             /\ Once => OwnsFile(go[d].snap, go[d].file)' /\ go[d].file \notin Todo(d)
  BY <1>5, <1>8
<1> QED BY <1>4, <1>6, <1>7, <1>8 DEF ReleaseOK, Once

\* A step of p that only adds to the cache: entries and owners stay, the snapshot being
\* cloned gets what it uses, locks of others stay and so do dead entries somebody knows.
Grows(p) ==
  /\ \A f \in ExtendedFiles : entries[f] # Nil => entries'[f] = entries[f]
  /\ \A s \in Snapshots : \A f \in ExtendedFiles : OwnsFile(s, f) => OwnsFile(s, f)'
  /\ \A s \in Snapshots : \A f \in ExtendedFiles : OwnsFile(s, f)' => OwnsFile(s, f) \/ (s = New /\ f \in UsedBy(New))
  /\ OneFile'
  /\ \A q \in Loaders : \A f \in ExtendedFiles :
       q # p /\ entries[f] # Nil /\ lockedBy[entries[f]] = q => lockedBy'[entries[f]] = q
  /\ \A q \in Loaders : q # p /\ go[q].waiting \in Entries /\ Dead(go[q].waiting) => Dead(go[q].waiting)'

\* Such a step leaves the other goroutines alone.
LEMMA Growing ==
  ASSUME Kept, Closed, NEW p \in Procs, Grows(p), \A q \in Procs : q # p => go'[q] = go[q],
         New \in Snapshots, New' = New, UNCHANGED registry
  PROVE  /\ \A q \in Loaders : q # p => LoaderOK(q)'
         /\ \A d \in Disposers : d # p => ReleaseOK(d)'
<1>1. WellTyped /\ (\A q \in Loaders : LoaderOK(q)) /\ (\A d \in Disposers : ReleaseOK(d))
  BY DEF Kept
<1>2. Nil \notin Entries
  BY FilesOf
<1>3. ASSUME NEW q \in Loaders, q # p PROVE LoaderOK(q)'
  <2>1. q \in Procs /\ go'[q] = go[q]
    BY <1>3, Goroutines
  <2>2. \A f \in ExtendedFiles : entries[f] \in Entries /\ lockedBy[entries[f]] = q =>
          entries'[f] = entries[f] /\ lockedBy'[entries[f]] = q
    BY <1>2, <1>3 DEF Grows
  <2>3. \A f \in ExtendedFiles : OwnsFile(New, f) => OwnsFile(New, f)'
    <3> SUFFICES ASSUME NEW f \in ExtendedFiles, OwnsFile(New, f) PROVE OwnsFile(New, f)'
      OBVIOUS
    <3>1. \A s \in Snapshots : OwnsFile(s, f) => entries'[f] # Nil /\ s \in owners'[entries'[f]]
      BY DEF Grows, OwnsFile
    <3>2. entries'[f] # Nil /\ New \in owners'[entries'[f]]
      BY <3>1
    <3> QED BY <3>2 DEF OwnsFile
  <2>4. \A f \in ExtendedFiles : entries[f] = go[q].waiting /\ entries[f] # Nil =>
          entries'[f] = go[q].waiting \/ Dead(go[q].waiting)'
    BY DEF Grows
  <2>5. Dead(go[q].waiting) /\ go[q].waiting \in Entries => Dead(go[q].waiting)'
    BY <1>3 DEF Grows
  <2>6. registry'[New] = registry[New]
    OBVIOUS
  <2> HIDE DEF New
  <2> QED BY <1>1, <2>1, <2>2, <2>3, <2>4, <2>5, <2>6, LoaderStays
<1>4. ASSUME NEW d \in Disposers, d # p PROVE ReleaseOK(d)'
  <2>1. d \in Procs /\ go'[d] = go[d]
    BY <1>4, Goroutines
  <2>2. go[d] \in Works
    BY <1>1, <2>1 DEF WellTyped
  <2>3. go[d].snap \in Snapshots
    BY <2>2 DEF Works
  <2>4. UsesOf(go[d].snap)' = UsesOf(go[d].snap)
    BY <2>1 DEF UsesOf
  <2>5. go[d].waiting # Nil => entries'[go[d].file] = entries[go[d].file]
    BY <1>1, <1>4 DEF ReleaseOK, Grows
  <2>6. \A f \in ExtendedFiles : OwnsFile(go[d].snap, f) => OwnsFile(go[d].snap, f)'
    <3> SUFFICES ASSUME NEW f \in ExtendedFiles, OwnsFile(go[d].snap, f) PROVE OwnsFile(go[d].snap, f)'
      OBVIOUS
    <3>1. \A s \in Snapshots : OwnsFile(s, f) => entries'[f] # Nil /\ s \in owners'[entries'[f]]
      BY DEF Grows, OwnsFile
    <3>2. entries'[f] # Nil /\ go[d].snap \in owners'[entries'[f]]
      BY <2>3, <3>1
    <3> QED BY <2>1, <3>2 DEF OwnsFile
  <2> QED BY <1>1, <1>4, <2>1, <2>4, <2>5, <2>6, DisposerStays
<1> QED BY <1>3, <1>4

\* The snapshot being cloned is nobody else's.
LEMMA NewIsNew ==
  ASSUME WellTyped, OneClone, OneDisposal, go[Builder].pc # "idle"
  PROVE  /\ New \in Snapshots /\ life[New] = "building" /\ New # current
         /\ \A d \in Disposers : go[d].pc = "release" => go[d].snap # New /\ go[d].snap # current
<1>1. go[Builder] \in Works
  BY Goroutines DEF WellTyped
<1>2. New \in Snapshots
  BY <1>1 DEF Works, New
<1>3. life[New] = "building" /\ life[current] = "live"
  BY <1>2 DEF OneClone
<1>4. \A d \in Disposers : go[d].pc = "release" => life[go[d].snap] = "disposing"
  BY DEF OneDisposal
<1> QED BY <1>2, <1>3, <1>4

\* Disposers are left with what they were left with, and no snapshot gets what it does not use.
LEMMA RestStays ==
  ASSUME WellTyped, OneClone, OneDisposal, NEW p \in Procs, Grows(p), go[Builder].pc # "idle",
         OnlyUsed, \A d \in Disposers : LeftOK(d), \A d \in Disposers : go'[d] = go[d],
         UNCHANGED <<registry, life>>
  PROVE  OnlyUsed' /\ \A d \in Disposers : LeftOK(d)'
<1>1. New \in Snapshots /\ life[New] = "building"
      /\ \A d \in Disposers : go[d].pc = "release" => go[d].snap # New
  BY NewIsNew
<1>2. \A s \in Snapshots : \A f \in ExtendedFiles : OwnsFile(s, f)' => OwnsFile(s, f) \/ (s = New /\ f \in UsedBy(New))
  BY DEF Grows
<1>3. \A s \in Snapshots : UsedBy(s)' = UsedBy(s)
  BY DEF UsedBy
<1>4. OnlyUsed'
  <2> SUFFICES ASSUME NEW s \in Snapshots, NEW f \in ExtendedFiles, OwnsFile(s, f)'
               PROVE  life[s] \notin {"unborn", "disposed"} /\ (life[s] \in {"live", "building"} => f \in UsedBy(s))
    BY <1>3 DEF OnlyUsed
  <2>1. CASE OwnsFile(s, f)
    BY <2>1 DEF OnlyUsed
  <2>2. CASE s = New /\ f \in UsedBy(New)
    BY <1>1, <2>2
  <2> QED BY <1>2, <2>1, <2>2
<1>5. ASSUME NEW d \in Disposers PROVE LeftOK(d)'
  <2> SUFFICES ASSUME go[d].pc = "release", NEW f \in ExtendedFiles, OwnsFile(go[d].snap, f)'
               PROVE  f \in Todo(d) \/ go[d].waiting = entries'[f]
    BY DEF LeftOK, Todo
  <2>1. d \in Procs /\ go[d] \in Works /\ go'[d] = go[d]
    BY Goroutines DEF WellTyped
  <2>2. go[d].snap \in Snapshots /\ go[d].snap # New
    BY <1>1, <2>1 DEF Works
  <2>3. \A s \in Snapshots : entries'[f] # Nil /\ s \in owners'[entries'[f]] => OwnsFile(s, f) \/ s = New
    BY <1>2 DEF OwnsFile
  <2>4. entries'[f] # Nil /\ go[d].snap \in owners'[entries'[f]]
    BY <2>1 DEF OwnsFile
  <2>5. OwnsFile(go[d].snap, f)
    BY <2>2, <2>3, <2>4
  <2>6. entries'[f] = entries[f]
    BY <2>5 DEF OwnsFile, Grows
  <2>7. f \in Todo(d) \/ go[d].waiting = entries[f]
    BY <2>5 DEF LeftOK
  <2> QED BY <2>6, <2>7
<1> QED BY <1>4, <1>5

\* A step of a loader keeps the invariant if it only adds to the cache, keeps its own
\* obligations, and the configuration it gives up has all its files owned.
LEMMA LoaderSteps ==
  ASSUME Exact, Closed, NEW p \in Loaders, go[Builder].pc = "load", Grows(p),
         NEW w \in Works, go' = [go EXCEPT ![p] = w],
         UNCHANGED <<registry, life, current, panicked>>, toLoad' \subseteq toLoad,
         WellTyped', LoaderOK(p)',
         \A c \in toLoad \ toLoad' : w.pc = "load" /\ w.stack[1].file = c,
         go[p].pc = "load" =>
           \/ w.pc = "load" /\ w.stack[1].file = go[p].stack[1].file
           \/ \A f \in Extends[go[p].stack[1].file] : OwnsFile(New, f)
  PROVE  Exact'
<1>1. /\ WellTyped /\ OneClone /\ OneDisposal /\ OneFile /\ ~panicked
      /\ \A q \in Loaders : LoaderOK(q)
      /\ \A d \in Disposers : ReleaseOK(d)
      /\ Loading /\ AllOwned
  BY DEF Exact, Kept
<1>2. p \in Procs /\ \A q \in Procs : q # p => go'[q] = go[q]
  BY <1>1, Goroutines DEF WellTyped
<1>3. go'[p] = w
  BY <1>1, <1>2 DEF WellTyped
<1>4. go'[Builder] = go[Builder] /\ \A d \in Disposers : go'[d] = go[d]
  BY <1>2, Goroutines
<1>5. New' = New /\ New \in Snapshots
  BY <1>1, <1>4, NewIsNew DEF New
<1>6. \A s \in Snapshots : UsedBy(s)' = UsedBy(s)
  BY DEF UsedBy
<1>7. OneFile'
  BY DEF Grows
<1>8. OneClone'
  <2>1. /\ go[Builder].pc \in {"idle", "load", "own"}
        /\ \A s \in Snapshots : life[s] = "building" <=> go[Builder].pc # "idle" /\ s = New
        /\ life[current] = "live" /\ toLoad \subseteq registry[New] /\ go[Builder].waiting = Nil
        /\ \E n \in 1 .. Last + 1 : \A s \in Snapshots : life[s] # "unborn" <=> s < n
    BY <1>1 DEF OneClone
  <2> QED BY <1>4, <1>5, <2>1 DEF OneClone
<1>9. OneDisposal'
  BY <1>1, <1>4 DEF OneDisposal
<1>10. \A q \in Loaders : LoaderOK(q)'
  <2>1. \A q \in Loaders : q # p => LoaderOK(q)'
    BY <1>2, <1>5, Growing DEF Exact
  <2> QED BY <2>1
<1>11. \A d \in Disposers : ReleaseOK(d)'
  <2>1. \A d \in Disposers : d # p => ReleaseOK(d)'
    BY <1>2, <1>5, Growing DEF Exact
  <2> QED BY <2>1, Goroutines
<1>12. Loading'
  <2> SUFFICES ASSUME NEW c \in registry[New]
               PROVE  \/ c \in registry[current] \/ c \in toLoad'
                      \/ \E q \in Loaders : go'[q].pc = "load" /\ go'[q].stack[1].file = c
                      \/ \A f \in Extends[c] : OwnsFile(New, f)'
    BY <1>5 DEF Loading
  <2>1. c \in Configs
    BY <1>1, <1>5 DEF WellTyped
  <2>2. Extends[c] \subseteq ExtendedFiles
    BY <2>1, FilesOf
  <2>3. ASSUME \A f \in Extends[c] : OwnsFile(New, f) PROVE \A f \in Extends[c] : OwnsFile(New, f)'
    <3> SUFFICES ASSUME NEW f \in Extends[c] PROVE OwnsFile(New, f)'
      OBVIOUS
    <3>1. \A s \in Snapshots : OwnsFile(s, f) => entries'[f] # Nil /\ s \in owners'[entries'[f]]
      BY <2>2 DEF Grows, OwnsFile
    <3>2. entries'[f] # Nil /\ New \in owners'[entries'[f]]
      BY <1>5, <2>3, <3>1
    <3> QED BY <1>5, <3>2 DEF OwnsFile
  <2>4. CASE c \in registry[current]
    BY <2>4
  <2>5. CASE c \in toLoad
    BY <1>3, <2>5
  <2>6. ASSUME NEW q \in Loaders, go[q].pc = "load", go[q].stack[1].file = c
        PROVE  \/ \E r \in Loaders : go'[r].pc = "load" /\ go'[r].stack[1].file = c
               \/ \A f \in Extends[c] : OwnsFile(New, f)'
    <3>1. CASE q # p
      <4>1. go'[q] = go[q]
        BY <1>2, <3>1, Goroutines
      <4> QED BY <2>6, <4>1
    <3>2. CASE q = p
      BY <1>3, <2>3, <2>6, <3>2
    <3> QED BY <3>1, <3>2
  <2>7. CASE \A f \in Extends[c] : OwnsFile(New, f)
    BY <2>3, <2>7
  <2>8. \/ c \in registry[current] \/ c \in toLoad
        \/ \E q \in Loaders : go[q].pc = "load" /\ go[q].stack[1].file = c
        \/ \A f \in Extends[c] : OwnsFile(New, f)
    BY <1>1 DEF Loading
  <2> QED BY <2>4, <2>5, <2>6, <2>7, <2>8
<1>13. Owning'
  BY <1>4 DEF Owning
<1>14. AllOwned'
  <2> SUFFICES ASSUME NEW s \in Snapshots, life[s] = "live", NEW f \in UsedBy(s) PROVE OwnsFile(s, f)'
    BY <1>6 DEF AllOwned
  <2>1. registry[s] \subseteq Configs
    BY <1>1 DEF WellTyped
  <2>2. f \in ExtendedFiles
    BY <2>1, FilesOf DEF UsedBy
  <2> QED BY <1>1, <2>2 DEF AllOwned, Grows
<1>15. NoRest'
  <2> SUFFICES ASSUME ~MayDrop PROVE OnlyUsed' /\ \A d \in Disposers : LeftOK(d)'
    BY DEF NoRest
  <2>1. OnlyUsed /\ \A d \in Disposers : LeftOK(d)
    BY DEF Exact, NoRest
  <2> QED BY <1>1, <1>2, <1>4, <2>1, RestStays
<1> QED BY <1>1, <1>7, <1>8, <1>9, <1>10, <1>11, <1>12, <1>13, <1>14, <1>15 DEF Exact, Kept

-----------------------------------------------------------------------------
(* The steps of loaders.                                                        *)

\* What is known of a loader that loads a configuration.
LEMMA Loads ==
  ASSUME Exact, NEW p \in Loaders, go[p].pc = "load"
  PROVE  /\ p \in Procs /\ go[p] \in Works /\ go[Builder].pc = "load" /\ New \in Snapshots
         /\ go[p].stack \in Seq(Frames) /\ StackOK(p, go[p].stack) /\ go[p].snap = New
         /\ (go[p].waiting # Nil => WaitOK(p))
         /\ Len(go[p].stack) \in 1 .. Len(go[p].stack) /\ 1 \in 1 .. Len(go[p].stack)
         /\ Top(p) \in Frames /\ Top(p).rest \subseteq Extends[go[p].stack[1].file]
         /\ go[p].stack[1].file \in Configs
         /\ Extends[go[p].stack[1].file] \subseteq ExtendedFiles
         /\ Extends[go[p].stack[1].file] \subseteq UsedBy(New)
<1> DEFINE s == go[p].stack
<1>1. WellTyped /\ OneClone /\ OneDisposal /\ LoaderOK(p)
  BY DEF Exact, Kept
<1>2. p \in Procs /\ go[p] \in Works
  BY <1>1, Goroutines DEF WellTyped
<1>3. s \in Seq(Frames)
  BY <1>2 DEF Works
<1>4. StackOK(p, s) /\ go[p].snap = New /\ (go[p].waiting # Nil => WaitOK(p))
  BY <1>1 DEF LoaderOK
<1>5. go[Builder].pc = "load"
  BY <1>1 DEF OneClone
<1>6. New \in Snapshots
  BY <1>1, <1>5, NewIsNew
<1>7. Len(s) >= 1 /\ s[1].file \in registry[New] /\ s[1].rest \subseteq Extends[s[1].file]
      /\ \A i \in 2 .. Len(s) : FrameOK(p, s[1].file, s[i])
  BY <1>4 DEF StackOK
<1>8. Len(s) \in 1 .. Len(s) /\ 1 \in 1 .. Len(s)
  BY <1>3, <1>7
<1>9. registry[New] \subseteq Configs
  BY <1>1, <1>6 DEF WellTyped
<1>10. Extends[s[1].file] \subseteq ExtendedFiles /\ Extends[s[1].file] \subseteq UsedBy(New)
  BY <1>7, <1>9, FilesOf DEF UsedBy
<1>11. Top(p) \in Frames /\ Top(p) = s[Len(s)]
  BY <1>3, <1>8 DEF Top
<1>12. Top(p).rest \subseteq Extends[s[1].file]
  <2>1. CASE Len(s) = 1
    BY <1>7, <1>11, <2>1
  <2>2. CASE Len(s) # 1
    <3>1. Len(s) \in Nat
      BY <1>3
    <3>2. PICK n \in Nat : n = Len(s)
      BY <3>1
    <3>3. n >= 1 /\ n # 1
      BY <1>7, <2>2, <3>2
    <3>4. n \in 2 .. n
      BY <3>3
    <3> QED BY <1>7, <1>11, <3>2, <3>4 DEF FrameOK
  <2> QED BY <2>1, <2>2
<1> QED BY <1>2, <1>3, <1>4, <1>5, <1>6, <1>7, <1>8, <1>9, <1>10, <1>11, <1>12

\* A step that leaves the cache as it is adds nothing to it.
LEMMA SameGrows ==
  ASSUME OneFile, NEW p \in Procs, UNCHANGED cacheVars, \A q \in Loaders : q # p => go'[q] = go[q]
  PROVE  Grows(p)
<1>1. entries' = entries /\ lockedBy' = lockedBy /\ owners' = owners
  BY DEF cacheVars
<1>2. OneFile'
  BY <1>1 DEF OneFile
<1>3. \A s \in Snapshots : \A f \in ExtendedFiles : OwnsFile(s, f)' <=> OwnsFile(s, f)
  BY <1>1 DEF OwnsFile
<1>4. \A q \in Loaders : q # p /\ Dead(go[q].waiting) => Dead(go[q].waiting)'
  BY <1>1 DEF Dead
<1> QED BY <1>1, <1>2, <1>3, <1>4 DEF Grows

\* The stack when the topmost frame has one file less to load: a file of the configuration
\* itself is owned then.
LEMMA ParsedOK ==
  ASSUME NEW p, NEW s \in Seq(Frames), StackOK(p, s), NEW f, New' = New, UNCHANGED registry,
         s[1].file \in Configs,
         \A g \in ExtendedFiles : OwnsFile(New, g) => OwnsFile(New, g)',
         \A i \in 2 .. Len(s) : entries'[s[i].file] = s[i].entry /\ lockedBy'[s[i].entry] = p,
         Len(s) = 1 /\ f \in Extends[s[1].file] => OwnsFile(New, f)'
  PROVE  StackOK(p, Parsed(s, f))'
<1> DEFINE c == s[1].file
<1>1. PICK t : t = Parsed(s, f)
  OBVIOUS
<1>2. /\ Len(s) >= 1 /\ c \in registry[New] /\ s[1].rest \subseteq Extends[c]
      /\ \A g \in Extends[c] \ s[1].rest : OwnsFile(New, g)
      /\ \A i \in 2 .. Len(s) : FrameOK(p, c, s[i])
      /\ \A i, j \in 1 .. Len(s) : s[i].file = s[j].file => i = j
  BY DEF StackOK
<1>3. /\ t \in Seq(Frames) /\ Len(t) = Len(s)
      /\ \A i \in 1 .. Len(s) : /\ t[i].file = s[i].file /\ t[i].entry = s[i].entry
                                /\ i # Len(s) => t[i].rest = s[i].rest
      /\ t[Len(s)].rest = s[Len(s)].rest \ {f}
  BY <1>1, <1>2, ParsedIs
<1>4. Len(s) \in Nat /\ 1 \in 1 .. Len(s) /\ \A i \in 2 .. Len(s) : i \in 1 .. Len(s)
  BY <1>2
<1>5. t[1].file = c
  BY <1>3, <1>4
<1>6. \A i \in 1 .. Len(s) : t[i].rest \subseteq s[i].rest
  BY <1>3
<1>7. Extends[c] \subseteq ExtendedFiles
  BY FilesOf
<1>8. ASSUME NEW g \in Extends[c] \ t[1].rest PROVE OwnsFile(New, g)'
  <2>1. CASE g \notin s[1].rest
    BY <1>2, <1>7, <2>1
  <2>2. CASE g \in s[1].rest
    <3>1. Len(s) = 1
      BY <1>3, <1>4, <2>2
    <3>2. g = f
      BY <1>3, <2>2, <3>1
    <3> QED BY <3>1, <3>2
  <2> QED BY <2>1, <2>2
<1>9. ASSUME NEW i \in 2 .. Len(t) PROVE FrameOK(p, c, t[i])'
  <2>1. i \in 2 .. Len(s) /\ i \in 1 .. Len(s)
    BY <1>3, <1>4
  <2>2. FrameOK(p, c, s[i])
    BY <1>2, <2>1
  <2>3. s[i].file \in Extends[c] /\ s[i].rest \subseteq Extends[c] /\ s[i].entry \in Entries
    BY <2>2 DEF FrameOK
  <2>4. entries'[s[i].file] = s[i].entry /\ lockedBy'[s[i].entry] = p
    BY <2>1
  <2>5. t[i].file = s[i].file /\ t[i].entry = s[i].entry /\ t[i].rest \subseteq s[i].rest
    BY <1>3, <1>6, <2>1
  <2> QED BY <2>3, <2>4, <2>5 DEF FrameOK
<1>10. \A i, j \in 1 .. Len(t) : t[i].file = t[j].file => i = j
  BY <1>2, <1>3
<1>11. t[1].rest \subseteq Extends[c]
  BY <1>2, <1>4, <1>6
<1>12. c \in registry'[New']
  BY <1>2
<1>13. StackOK(p, t)'
  BY <1>2, <1>3, <1>5, <1>8, <1>9, <1>10, <1>11, <1>12 DEF StackOK
<1> QED BY <1>1, <1>13

\* The stack when a file is parsed whose entry the goroutine has locked.
LEMMA AppendedOK ==
  ASSUME Closed, NEW p, NEW s \in Seq(Frames), StackOK(p, s), NEW f, NEW e \in Entries, New' = New, UNCHANGED registry,
         s[1].file \in Configs, f \in Extends[s[1].file], \A i \in 1 .. Len(s) : s[i].file # f,
         \A g \in ExtendedFiles : OwnsFile(New, g) => OwnsFile(New, g)',
         \A i \in 2 .. Len(s) : entries'[s[i].file] = s[i].entry /\ lockedBy'[s[i].entry] = p,
         entries'[f] = e, lockedBy'[e] = p
  PROVE  Frame(f, e) \in Frames /\ StackOK(p, Append(s, Frame(f, e)))'
<1> DEFINE c == s[1].file
<1>1. PICK t : t = Append(s, Frame(f, e))
  OBVIOUS
<1>2. /\ Len(s) >= 1 /\ c \in registry[New] /\ s[1].rest \subseteq Extends[c]
      /\ \A g \in Extends[c] \ s[1].rest : OwnsFile(New, g)
      /\ \A i \in 2 .. Len(s) : FrameOK(p, c, s[i])
      /\ \A i, j \in 1 .. Len(s) : s[i].file = s[j].file => i = j
  BY DEF StackOK
<1>3. Extends[c] \subseteq ExtendedFiles /\ f \in ExtendedFiles
  BY FilesOf
<1>4. Extends[f] \subseteq Extends[c] /\ Extends[f] \subseteq ExtendedFiles
  BY <1>3, FilesOf DEF Closed
<1>5. Frame(f, e) \in Frames /\ Frame(f, e) = [file |-> f, entry |-> e, rest |-> Extends[f]]
  BY <1>3, <1>4 DEF Frame, Frames
<1>6. /\ t \in Seq(Frames) /\ Len(t) = Len(s) + 1
      /\ \A i \in 1 .. Len(s) : t[i] = s[i]
      /\ t[Len(s) + 1] = Frame(f, e)
  BY <1>1, <1>5, AppendedIs
<1>7. Len(s) \in Nat /\ 1 \in 1 .. Len(s) /\ \A i \in 2 .. Len(s) : i \in 1 .. Len(s)
  BY <1>2
<1>8. t[1] = s[1]
  BY <1>6, <1>7
<1>9. ASSUME NEW i \in 2 .. Len(t) PROVE FrameOK(p, c, t[i])'
  <2>1. CASE i \in 2 .. Len(s)
    <3>1. FrameOK(p, c, s[i])
      BY <1>2, <2>1
    <3>2. s[i].file \in Extends[c] /\ s[i].rest \subseteq Extends[c] /\ s[i].entry \in Entries
      BY <3>1 DEF FrameOK
    <3>3. entries'[s[i].file] = s[i].entry /\ lockedBy'[s[i].entry] = p /\ t[i] = s[i]
      BY <1>6, <1>7, <2>1
    <3> QED BY <3>2, <3>3 DEF FrameOK
  <2>2. CASE i = Len(s) + 1
    <3>1. t[i].file = f /\ t[i].entry = e /\ t[i].rest = Extends[f]
      BY <1>5, <1>6, <2>2
    <3> QED BY <1>4, <3>1 DEF FrameOK
  <2> QED BY <1>6, <1>7, <2>1, <2>2
<1>10. \A i, j \in 1 .. Len(t) : t[i].file = t[j].file => i = j
  <2>1. \A i \in 1 .. Len(s) : t[i].file # f
    BY <1>6
  <2>2. t[Len(s) + 1].file = f
    BY <1>5, <1>6
  <2>3. \A i \in 1 .. Len(t) : i \in 1 .. Len(s) \/ i = Len(s) + 1
    BY <1>6, <1>7
  <2>4. \A i, j \in 1 .. Len(s) : t[i].file = t[j].file => i = j
    BY <1>2, <1>6
  <2> QED BY <2>1, <2>2, <2>3, <2>4
<1>11. \A g \in Extends[c] \ t[1].rest : OwnsFile(New, g)'
  BY <1>2, <1>3, <1>8
<1>12. Len(t) >= 1 /\ t[1].file \in registry'[New'] /\ t[1].rest \subseteq Extends[t[1].file]
  BY <1>2, <1>6, <1>7, <1>8
<1>13. StackOK(p, t)'
  BY <1>8, <1>9, <1>10, <1>11, <1>12 DEF StackOK
<1> QED BY <1>1, <1>5, <1>13

\* The types, when a loader's step changes the cache and the loader.
LEMMA LoaderTyped ==
  ASSUME WellTyped, NEW p \in Procs, NEW w \in Works, go' = [go EXCEPT ![p] = w],
         entries' \in [ExtendedFiles -> Entries \cup {Nil}], lockedBy' \in [Entries -> Procs \cup {Nil}],
         owners' \in [Entries -> SUBSET Snapshots], toLoad' \subseteq toLoad, UNCHANGED <<registry, life, current, panicked>>
  PROVE  WellTyped' /\ go'[p] = w /\ \A q \in Procs : q # p => go'[q] = go[q]
BY DEF WellTyped

\* The search visits a project.
LEMMA VisitsOK == ASSUME Exact, Closed, NEW p \in Loaders, VisitConfig(p) PROVE Exact'
<1>1. WellTyped /\ OneClone /\ OneDisposal /\ OneFile
  BY DEF Exact, Kept
<1>2. PICK c \in toLoad :
        /\ go[p].pc = "idle" /\ go[Builder].pc = "load"
        /\ toLoad' = toLoad \ {c}
        /\ go' = [go EXCEPT ![p] = [NoWork EXCEPT !.pc = "load", !.snap = go[Builder].snap, !.stack = <<Frame(c, Nil)>>]]
        /\ UNCHANGED <<cacheVars, registry, life, current, panicked>>
  BY DEF VisitConfig
<1> DEFINE w == [NoWork EXCEPT !.pc = "load", !.snap = New, !.stack = <<Frame(c, Nil)>>]
<1>3. p \in Procs /\ Builder \in Procs /\ p # Builder
  BY Goroutines
<1>4. New \in Snapshots
  BY <1>1, <1>2, NewIsNew
<1>5. c \in Configs /\ c \in registry[New]
  BY <1>1, <1>2 DEF OneClone, WellTyped
<1>6. Frame(c, Nil) \in Frames /\ Frame(c, Nil).file = c /\ Frame(c, Nil).rest = Extends[c]
  BY <1>5, FilesOf DEF Frame, Frames
<1>7. <<Frame(c, Nil)>> \in Seq(Frames) /\ Len(<<Frame(c, Nil)>>) = 1 /\ <<Frame(c, Nil)>>[1] = Frame(c, Nil)
  BY <1>6
<1>8. /\ w.pc = "load" /\ w.snap = New /\ w.stack = <<Frame(c, Nil)>> /\ w.waiting = Nil
      /\ w \in Works
  BY <1>4, <1>7 DEF NoWork, Works
<1>9. go' = [go EXCEPT ![p] = w]
  BY <1>2 DEF New
<1>10. entries' = entries /\ lockedBy' = lockedBy /\ owners' = owners
  BY <1>2 DEF cacheVars
<1> HIDE DEF w
<1>11. WellTyped' /\ go'[p] = w /\ \A q \in Procs : q # p => go'[q] = go[q]
  <2>1. entries \in [ExtendedFiles -> Entries \cup {Nil}] /\ lockedBy \in [Entries -> Procs \cup {Nil}]
        /\ owners \in [Entries -> SUBSET Snapshots]
    BY <1>1 DEF WellTyped
  <2>2. toLoad' \subseteq toLoad
    BY <1>2
  <2> QED BY <1>1, <1>2, <1>3, <1>8, <1>9, <1>10, <2>1, <2>2, LoaderTyped
<1>12. Grows(p)
  BY <1>1, <1>2, <1>3, <1>11, Goroutines, SameGrows
<1>13. New' = New
  BY <1>3, <1>11 DEF New
<1>14. LoaderOK(p)'
  <2>1. PICK t : t = <<Frame(c, Nil)>>
    OBVIOUS
  <2>2. Len(t) = 1 /\ t[1].file = c /\ t[1].rest = Extends[c]
    BY <1>6, <1>7, <2>1
  <2>3. registry' = registry
    BY <1>2
  <2>4. StackOK(p, t)'
    BY <1>5, <1>13, <2>2, <2>3 DEF StackOK
  <2> QED BY <1>8, <1>11, <1>13, <2>1, <2>4 DEF LoaderOK
<1>15. \A d \in toLoad \ toLoad' : w.pc = "load" /\ w.stack[1].file = d
  BY <1>2, <1>6, <1>7, <1>8
<1> QED BY <1>2, <1>8, <1>9, <1>11, <1>12, <1>14, <1>15, LoaderSteps

\* A circularity is reported.
LEMMA ReportsOK == ASSUME Exact, Closed, NEW p \in Loaders, ReportCircularity(p) PROVE Exact'
<1>1. WellTyped /\ OneClone /\ OneDisposal /\ OneFile
  BY DEF Exact, Kept
<1>2. PICK f \in Top(p).rest :
        /\ go[p].pc = "load" /\ go[p].waiting = Nil
        /\ OnStack(p, f) /\ go' = [go EXCEPT ![p].stack = Parsed(@, f)]
        /\ UNCHANGED <<cacheVars, snapVars, panicked>>
  BY DEF ReportCircularity, Parsing
<1>3. PICK s : s = go[p].stack
  OBVIOUS
<1> DEFINE w == [go[p] EXCEPT !.stack = Parsed(s, f)]
<1>4. /\ p \in Procs /\ go[p] \in Works /\ go[Builder].pc = "load" /\ New \in Snapshots
      /\ s \in Seq(Frames) /\ StackOK(p, s) /\ go[p].snap = New
      /\ Len(s) \in 1 .. Len(s) /\ 1 \in 1 .. Len(s)
      /\ s[1].file \in Configs /\ Extends[s[1].file] \subseteq ExtendedFiles /\ f \in Extends[s[1].file]
  BY <1>2, <1>3, Loads
<1>5. Parsed(s, f) \in Seq(Frames) /\ Len(Parsed(s, f)) = Len(s) /\ Parsed(s, f)[1].file = s[1].file
  BY <1>4, ParsedIs
<1>6. w \in Works /\ w.pc = "load" /\ w.snap = New /\ w.stack = Parsed(s, f) /\ w.waiting = Nil
  BY <1>2, <1>4, <1>5 DEF Works
<1>7. go' = [go EXCEPT ![p] = w]
  BY <1>2, <1>3
<1>8. /\ entries' = entries /\ lockedBy' = lockedBy /\ owners' = owners
      /\ UNCHANGED <<registry, life, current, panicked>> /\ toLoad' = toLoad
  BY <1>2 DEF cacheVars, snapVars
<1> HIDE DEF w
<1>9. WellTyped' /\ go'[p] = w /\ \A q \in Procs : q # p => go'[q] = go[q]
  <2>1. entries \in [ExtendedFiles -> Entries \cup {Nil}] /\ lockedBy \in [Entries -> Procs \cup {Nil}]
        /\ owners \in [Entries -> SUBSET Snapshots]
    BY <1>1 DEF WellTyped
  <2> QED BY <1>1, <1>4, <1>6, <1>7, <1>8, <2>1, LoaderTyped
<1>10. Grows(p)
  BY <1>1, <1>2, <1>4, <1>9, Goroutines, SameGrows
<1>11. New' = New
  BY <1>9, Goroutines DEF New
<1>12. LoaderOK(p)'
  <2>1. \A g \in ExtendedFiles : OwnsFile(New, g) => OwnsFile(New, g)'
    BY <1>8, <1>11 DEF OwnsFile
  <2>2. \A i \in 2 .. Len(s) : entries'[s[i].file] = s[i].entry /\ lockedBy'[s[i].entry] = p
    BY <1>4, <1>8 DEF StackOK, FrameOK
  <2>3. Len(s) # 1
    <3>1. PICK i \in DOMAIN s : s[i].file = f
      BY <1>2, <1>3 DEF OnStack
    <3>2. f \in ExtendedFiles /\ s[1].file # f
      BY <1>4, FilesOf
    <3> QED BY <1>4, <3>1, <3>2
  <2>4. StackOK(p, Parsed(s, f))'
    BY <1>4, <1>8, <1>11, <2>1, <2>2, <2>3, ParsedOK
  <2> QED BY <1>5, <1>6, <1>9, <1>11, <2>4 DEF LoaderOK
<1>13. \A d \in toLoad \ toLoad' : w.pc = "load" /\ w.stack[1].file = d
  BY <1>8
<1>14. w.pc = "load" /\ w.stack[1].file = go[p].stack[1].file
  BY <1>3, <1>5, <1>6
<1> QED BY <1>4, <1>6, <1>7, <1>8, <1>9, <1>10, <1>12, <1>13, <1>14, LoaderSteps

\* An entry is found, and waited for.
LEMMA FindsOK == ASSUME Exact, Closed, NEW p \in Loaders, FindEntry(p) PROVE Exact'
<1>1. WellTyped /\ OneClone /\ OneDisposal /\ OneFile
  BY DEF Exact, Kept
<1>2. PICK f \in Top(p).rest :
        /\ go[p].pc = "load" /\ go[p].waiting = Nil
        /\ ~OnStack(p, f) /\ entries[f] # Nil
        /\ go' = [go EXCEPT ![p].waiting = entries[f], ![p].file = f]
        /\ UNCHANGED <<cacheVars, snapVars, panicked>>
  BY DEF FindEntry, Parsing
<1>3. PICK s : s = go[p].stack
  OBVIOUS
<1> DEFINE w == [go[p] EXCEPT !.waiting = entries[f], !.file = f]
<1>4. /\ p \in Procs /\ go[p] \in Works /\ go[Builder].pc = "load" /\ New \in Snapshots
      /\ s \in Seq(Frames) /\ StackOK(p, s) /\ go[p].snap = New
      /\ Len(s) \in 1 .. Len(s) /\ 1 \in 1 .. Len(s)
      /\ s[1].file \in Configs /\ f \in ExtendedFiles
  BY <1>2, <1>3, Loads
<1>5. entries[f] \in Entries
  BY <1>1, <1>2, <1>4 DEF WellTyped
<1>6. w \in Works /\ w.pc = "load" /\ w.snap = New /\ w.stack = s /\ w.waiting = entries[f] /\ w.file = f
  BY <1>2, <1>3, <1>4, <1>5 DEF Works
<1>7. go' = [go EXCEPT ![p] = w]
  BY <1>2, <1>3
<1>8. /\ entries' = entries /\ lockedBy' = lockedBy /\ owners' = owners
      /\ UNCHANGED <<registry, life, current, panicked>> /\ toLoad' = toLoad
  BY <1>2 DEF cacheVars, snapVars
<1> HIDE DEF w
<1>9. WellTyped' /\ go'[p] = w /\ \A q \in Procs : q # p => go'[q] = go[q]
  <2>1. entries \in [ExtendedFiles -> Entries \cup {Nil}] /\ lockedBy \in [Entries -> Procs \cup {Nil}]
        /\ owners \in [Entries -> SUBSET Snapshots]
    BY <1>1 DEF WellTyped
  <2> QED BY <1>1, <1>4, <1>6, <1>7, <1>8, <2>1, LoaderTyped
<1>10. Grows(p)
  BY <1>1, <1>2, <1>4, <1>9, Goroutines, SameGrows
<1>11. New' = New
  BY <1>9, Goroutines DEF New
<1>12. LoaderOK(p)'
  <2>1. StackOK(p, s)'
    BY <1>4, <1>8, <1>11 DEF StackOK, FrameOK, OwnsFile
  <2>2. Top(p)' = Top(p) /\ OnStack(p, f)' = OnStack(p, f)
    BY <1>3, <1>6, <1>9 DEF Top, OnStack
  <2>3. WaitOK(p)'
    BY <1>2, <1>6, <1>8, <1>9, <2>2 DEF WaitOK
  <2> QED BY <1>6, <1>9, <1>11, <2>1, <2>3 DEF LoaderOK
<1>13. \A d \in toLoad \ toLoad' : w.pc = "load" /\ w.stack[1].file = d
  BY <1>8
<1>14. w.pc = "load" /\ w.stack[1].file = go[p].stack[1].file
  BY <1>3, <1>6
<1> QED BY <1>4, <1>6, <1>7, <1>8, <1>9, <1>10, <1>12, <1>13, <1>14, LoaderSteps

\* The entry was deleted meanwhile.
LEMMA RetriesOK == ASSUME Exact, Closed, NEW p \in Loaders, Retry(p) PROVE Exact'
<1>1. WellTyped /\ OneClone /\ OneDisposal /\ OneFile
  BY DEF Exact, Kept
<1>2. /\ go[p].pc = "load"
      /\ go' = [go EXCEPT ![p].waiting = Nil, ![p].file = Nil]
      /\ UNCHANGED <<cacheVars, snapVars, panicked>>
  BY DEF Retry
<1>3. PICK s : s = go[p].stack
  OBVIOUS
<1> DEFINE w == [go[p] EXCEPT !.waiting = Nil, !.file = Nil]
<1>4. /\ p \in Procs /\ go[p] \in Works /\ go[Builder].pc = "load" /\ New \in Snapshots
      /\ StackOK(p, s) /\ go[p].snap = New
  BY <1>2, <1>3, Loads
<1>6. w \in Works /\ w.pc = "load" /\ w.snap = New /\ w.stack = s /\ w.waiting = Nil
  BY <1>2, <1>3, <1>4 DEF Works
<1>7. go' = [go EXCEPT ![p] = w]
  BY <1>2
<1>8. /\ entries' = entries /\ lockedBy' = lockedBy /\ owners' = owners
      /\ UNCHANGED <<registry, life, current, panicked>> /\ toLoad' = toLoad
  BY <1>2 DEF cacheVars, snapVars
<1> HIDE DEF w
<1>9. WellTyped' /\ go'[p] = w /\ \A q \in Procs : q # p => go'[q] = go[q]
  <2>1. entries \in [ExtendedFiles -> Entries \cup {Nil}] /\ lockedBy \in [Entries -> Procs \cup {Nil}]
        /\ owners \in [Entries -> SUBSET Snapshots]
    BY <1>1 DEF WellTyped
  <2> QED BY <1>1, <1>4, <1>6, <1>7, <1>8, <2>1, LoaderTyped
<1>10. Grows(p)
  BY <1>1, <1>2, <1>4, <1>9, Goroutines, SameGrows
<1>11. New' = New
  BY <1>9, Goroutines DEF New
<1>12. LoaderOK(p)'
  <2>1. StackOK(p, s)'
    BY <1>4, <1>8, <1>11 DEF StackOK, FrameOK, OwnsFile
  <2> QED BY <1>6, <1>9, <1>11, <2>1 DEF LoaderOK
<1>13. \A d \in toLoad \ toLoad' : w.pc = "load" /\ w.stack[1].file = d
  BY <1>8
<1>14. w.pc = "load" /\ w.stack[1].file = go[p].stack[1].file
  BY <1>3, <1>6
<1> QED BY <1>4, <1>6, <1>7, <1>8, <1>9, <1>10, <1>12, <1>13, <1>14, LoaderSteps

\* A configuration is loaded: nothing of it is left, so that all its files are owned.
LEMMA ConfigOK == ASSUME Exact, Closed, NEW p \in Loaders, FinishConfig(p) PROVE Exact'
<1>1. WellTyped /\ OneClone /\ OneDisposal /\ OneFile
  BY DEF Exact, Kept
<1>2. /\ go[p].pc = "load" /\ Len(go[p].stack) = 1 /\ Top(p).rest = {}
      /\ go' = [go EXCEPT ![p] = NoWork]
      /\ UNCHANGED <<cacheVars, snapVars, panicked>>
  BY DEF FinishConfig, Parsing
<1>3. p \in Procs /\ go[Builder].pc = "load" /\ StackOK(p, go[p].stack)
  BY <1>2, Loads
<1>4. NoWork \in Works /\ NoWork.pc = "idle" /\ NoWork.waiting = Nil
  BY NoWorkIs
<1>5. /\ entries' = entries /\ lockedBy' = lockedBy /\ owners' = owners
      /\ UNCHANGED <<registry, life, current, panicked>> /\ toLoad' = toLoad
  BY <1>2 DEF cacheVars, snapVars
<1>6. WellTyped' /\ go'[p] = NoWork /\ \A q \in Procs : q # p => go'[q] = go[q]
  <2>1. entries \in [ExtendedFiles -> Entries \cup {Nil}] /\ lockedBy \in [Entries -> Procs \cup {Nil}]
        /\ owners \in [Entries -> SUBSET Snapshots]
    BY <1>1 DEF WellTyped
  <2>2. go' = [go EXCEPT ![p] = NoWork]
    BY <1>2
  <2> QED BY <1>1, <1>3, <1>4, <1>5, <2>1, <2>2, LoaderTyped
<1>7. Grows(p)
  BY <1>1, <1>2, <1>3, <1>6, Goroutines, SameGrows
<1>8. LoaderOK(p)'
  BY <1>4, <1>6 DEF LoaderOK
<1>9. \A f \in Extends[go[p].stack[1].file] : OwnsFile(New, f)
  BY <1>2, <1>3 DEF StackOK, Top
<1>10. \A d \in toLoad \ toLoad' : NoWork.pc = "load" /\ NoWork.stack[1].file = d
  BY <1>5
<1>11. go' = [go EXCEPT ![p] = NoWork]
  BY <1>2
<1> QED BY <1>3, <1>4, <1>5, <1>6, <1>7, <1>8, <1>9, <1>10, <1>11, LoaderSteps

\* An entry of its own is stored, which nobody knows.
LEMMA StoresOK == ASSUME Exact, Closed, NEW p \in Loaders, StoreEntry(p) PROVE Exact'
<1>1. WellTyped /\ OneClone /\ OneDisposal /\ OneFile
  BY DEF Exact, Kept
<1>2. PICK f \in Top(p).rest, e \in FreeEntries :
        /\ go[p].pc = "load" /\ go[p].waiting = Nil
        /\ ~OnStack(p, f) /\ entries[f] = Nil
        /\ entries' = [entries EXCEPT ![f] = e]
        /\ lockedBy' = [lockedBy EXCEPT ![e] = p] /\ owners' = [owners EXCEPT ![e] = {}]
        /\ go' = [go EXCEPT ![p].stack = Append(@, Frame(f, e))]
        /\ UNCHANGED <<snapVars, panicked>>
  BY DEF StoreEntry, Parsing
<1>3. PICK s : s = go[p].stack
  OBVIOUS
<1> DEFINE w == [go[p] EXCEPT !.stack = Append(s, Frame(f, e))]
<1>4. /\ p \in Procs /\ go[p] \in Works /\ go[Builder].pc = "load" /\ New \in Snapshots
      /\ s \in Seq(Frames) /\ StackOK(p, s) /\ go[p].snap = New
      /\ Len(s) \in 1 .. Len(s) /\ 1 \in 1 .. Len(s)
      /\ s[1].file \in Configs /\ f \in Extends[s[1].file] /\ f \in ExtendedFiles
  BY <1>2, <1>3, Loads
<1>5. /\ e \in Entries /\ \A g \in ExtendedFiles : entries[g] # e
      /\ \A q \in Procs : go[q].waiting # e
  BY <1>2 DEF FreeEntries, Pending
<1>6. /\ UNCHANGED <<registry, life, current, panicked>> /\ toLoad' = toLoad
  BY <1>2 DEF snapVars
<1>7. /\ entries \in [ExtendedFiles -> Entries \cup {Nil}] /\ lockedBy \in [Entries -> Procs \cup {Nil}]
      /\ owners \in [Entries -> SUBSET Snapshots]
  BY <1>1 DEF WellTyped
<1>8. /\ entries' \in [ExtendedFiles -> Entries \cup {Nil}] /\ lockedBy' \in [Entries -> Procs \cup {Nil}]
      /\ owners' \in [Entries -> SUBSET Snapshots]
  BY <1>2, <1>4, <1>5, <1>7
<1>9. /\ entries'[f] = e /\ \A g \in ExtendedFiles : g # f => entries'[g] = entries[g]
      /\ lockedBy'[e] = p /\ \A x \in Entries : x # e => lockedBy'[x] = lockedBy[x]
      /\ owners'[e] = {} /\ \A x \in Entries : x # e => owners'[x] = owners[x]
  BY <1>2, <1>4, <1>5, <1>7
<1>10. Frame(f, e) \in Frames
  BY <1>4, <1>5, FilesOf DEF Frame, Frames
<1>11. Append(s, Frame(f, e)) \in Seq(Frames) /\ Len(Append(s, Frame(f, e))) = Len(s) + 1 /\ Append(s, Frame(f, e))[1] = s[1]
  BY <1>4, <1>10, AppendedIs
<1>12. w \in Works /\ w.pc = "load" /\ w.snap = New /\ w.stack = Append(s, Frame(f, e)) /\ w.waiting = Nil
  BY <1>2, <1>4, <1>11 DEF Works
<1>13. go' = [go EXCEPT ![p] = w]
  BY <1>2, <1>3
<1> HIDE DEF w
<1>14. WellTyped' /\ go'[p] = w /\ \A q \in Procs : q # p => go'[q] = go[q]
  BY <1>1, <1>4, <1>6, <1>8, <1>12, <1>13, LoaderTyped
<1>15. New' = New
  BY <1>14, Goroutines DEF New
<1>16. Grows(p)
  <2>1. \A g \in ExtendedFiles : entries[g] # Nil => entries'[g] = entries[g] /\ entries[g] # e /\ entries[g] \in Entries
    BY <1>2, <1>5, <1>7, <1>9
  <2>2. \A x \in Snapshots : \A g \in ExtendedFiles : OwnsFile(x, g) => OwnsFile(x, g)'
    BY <1>9, <2>1 DEF OwnsFile
  <2>3. \A x \in Snapshots : \A g \in ExtendedFiles : OwnsFile(x, g)' => OwnsFile(x, g)
    BY <1>9, <2>1 DEF OwnsFile
  <2>4. OneFile'
    BY <1>1, <1>5, <1>9 DEF OneFile
  <2>5. \A q \in Loaders : \A g \in ExtendedFiles :
          q # p /\ entries[g] # Nil /\ lockedBy[entries[g]] = q => lockedBy'[entries[g]] = q
    BY <1>9, <2>1
  <2>6. ASSUME NEW q \in Loaders, q # p, go[q].waiting \in Entries, Dead(go[q].waiting) PROVE Dead(go[q].waiting)'
    <3>1. go'[q] = go[q] /\ go[q].waiting # e
      BY <1>5, <1>14, <2>6, Goroutines
    <3> QED BY <1>9, <2>6, <3>1 DEF Dead
  <2> QED BY <2>1, <2>2, <2>3, <2>4, <2>5, <2>6 DEF Grows
<1>17. LoaderOK(p)'
  <2>1. \A g \in ExtendedFiles : OwnsFile(New, g) => OwnsFile(New, g)'
    <3>1. \A x \in Snapshots : \A g \in ExtendedFiles : OwnsFile(x, g) => entries'[g] # Nil /\ x \in owners'[entries'[g]]
      BY <1>16 DEF Grows, OwnsFile
    <3> QED BY <1>4, <1>15, <3>1 DEF OwnsFile
  <2>2. ASSUME NEW i \in 2 .. Len(s) PROVE entries'[s[i].file] = s[i].entry /\ lockedBy'[s[i].entry] = p
    <3>1. FrameOK(p, s[1].file, s[i])
      BY <1>4 DEF StackOK
    <3>2. s[i].file \in ExtendedFiles /\ s[i].entry \in Entries /\ entries[s[i].file] = s[i].entry /\ lockedBy[s[i].entry] = p
      BY <1>4, <3>1, FilesOf DEF FrameOK
    <3>3. s[i].entry # e /\ s[i].file # f
      BY <1>2, <1>5, <3>2, FilesOf
    <3> QED BY <1>9, <3>2, <3>3
  <2>3. \A i \in 1 .. Len(s) : s[i].file # f
    BY <1>2, <1>3, <1>4 DEF OnStack
  <2>4. StackOK(p, Append(s, Frame(f, e)))'
    BY <1>4, <1>5, <1>6, <1>9, <1>15, <2>1, <2>2, <2>3, AppendedOK
  <2> QED BY <1>12, <1>14, <1>15, <2>4 DEF LoaderOK
<1>18. \A d \in toLoad \ toLoad' : w.pc = "load" /\ w.stack[1].file = d
  BY <1>6
<1>19. w.pc = "load" /\ w.stack[1].file = go[p].stack[1].file
  BY <1>3, <1>11, <1>12
<1> QED BY <1>4, <1>6, <1>12, <1>13, <1>14, <1>16, <1>17, <1>18, <1>19, LoaderSteps

\* The entry of a file of the configuration gets the snapshot being cloned as an owner.
LEMMA Acquired ==
  ASSUME WellTyped, OneFile, NEW p \in Procs, NEW g \in ExtendedFiles, entries[g] \in Entries, New \in Snapshots,
         g \in UsedBy(New), entries' = entries, owners' = [owners EXCEPT ![entries[g]] = @ \cup {New}],
         \A q \in Loaders : q # p => go'[q] = go[q],
         \A q \in Loaders : \A f \in ExtendedFiles :
           q # p /\ entries[f] # Nil /\ lockedBy[entries[f]] = q => lockedBy'[entries[f]] = q,
         New' = New
  PROVE  Grows(p) /\ owners' \in [Entries -> SUBSET Snapshots] /\ OwnsFile(New, g)'
<1>1. entries \in [ExtendedFiles -> Entries \cup {Nil}] /\ owners \in [Entries -> SUBSET Snapshots]
  BY DEF WellTyped
<1>2. /\ owners' \in [Entries -> SUBSET Snapshots]
      /\ owners'[entries[g]] = owners[entries[g]] \cup {New}
      /\ \A x \in Entries : x # entries[g] => owners'[x] = owners[x]
  BY <1>1
<1>3. OwnsFile(New, g)'
  BY <1>2, FilesOf DEF OwnsFile
<1>4. \A s \in Snapshots : \A f \in ExtendedFiles : OwnsFile(s, f) => OwnsFile(s, f)'
  BY <1>1, <1>2 DEF OwnsFile
<1>5. ASSUME NEW s \in Snapshots, NEW f \in ExtendedFiles, OwnsFile(s, f)'
      PROVE  OwnsFile(s, f) \/ (s = New /\ f \in UsedBy(New))
  <2>1. entries[f] \in Entries /\ s \in owners'[entries[f]]
    BY <1>1, <1>5 DEF OwnsFile
  <2>2. CASE entries[f] = entries[g]
    BY <1>2, <2>1, <2>2, FilesOf DEF OwnsFile, OneFile
  <2>3. CASE entries[f] # entries[g]
    BY <1>2, <2>1, <2>3, FilesOf DEF OwnsFile
  <2> QED BY <2>2, <2>3
<1>6. OneFile'
  BY DEF OneFile
<1>7. ASSUME NEW q \in Loaders, q # p, go[q].waiting \in Entries, Dead(go[q].waiting) PROVE Dead(go[q].waiting)'
  <2>1. go[q].waiting # entries[g] /\ go'[q] = go[q]
    BY <1>7 DEF Dead
  <2> QED BY <1>2, <1>7, <2>1 DEF Dead
<1> QED BY <1>2, <1>3, <1>4, <1>5, <1>6, <1>7 DEF Grows

\* The entry that has been waited for is good enough.
LEMMA ReusesOK == ASSUME Exact, Closed, NEW p \in Loaders, Reuse(p) PROVE Exact'
<1>1. WellTyped /\ OneClone /\ OneDisposal /\ OneFile
  BY DEF Exact, Kept
<1>2. PICK e, f : e = go[p].waiting /\ f = go[p].file
  OBVIOUS
<1>3. PICK s : s = go[p].stack
  OBVIOUS
<1>4. /\ go[p].pc = "load" /\ e # Nil /\ owners[e] # {}
      /\ owners' = [owners EXCEPT ![e] = @ \cup {go[p].snap}]
      /\ go' = [go EXCEPT ![p].waiting = Nil, ![p].file = Nil, ![p].stack = Parsed(@, go[p].file)]
      /\ UNCHANGED <<entries, lockedBy, snapVars, panicked>>
  BY <1>2 DEF Reuse, CanLock, Deleted
<1> DEFINE w == [go[p] EXCEPT !.waiting = Nil, !.file = Nil, !.stack = Parsed(s, f)]
<1>5. /\ p \in Procs /\ go[p] \in Works /\ go[Builder].pc = "load" /\ New \in Snapshots
      /\ s \in Seq(Frames) /\ StackOK(p, s) /\ go[p].snap = New
      /\ Len(s) \in 1 .. Len(s) /\ 1 \in 1 .. Len(s) /\ WaitOK(p)
      /\ s[1].file \in Configs /\ Extends[s[1].file] \subseteq ExtendedFiles /\ Extends[s[1].file] \subseteq UsedBy(New)
      /\ Top(p).rest \subseteq Extends[s[1].file]
  BY <1>2, <1>3, <1>4, Loads
<1>6. f \in Extends[s[1].file] /\ f \in ExtendedFiles /\ f \in UsedBy(New)
  BY <1>2, <1>5 DEF WaitOK
<1>7. entries[f] = e /\ e \in Entries
  <2>1. entries[f] = e
    BY <1>2, <1>4, <1>5 DEF WaitOK, Dead
  <2> QED BY <1>1, <1>4, <1>6, <2>1 DEF WellTyped
<1>8. Parsed(s, f) \in Seq(Frames) /\ Len(Parsed(s, f)) = Len(s) /\ Parsed(s, f)[1].file = s[1].file
  BY <1>5, ParsedIs
<1>9. w \in Works /\ w.pc = "load" /\ w.snap = New /\ w.stack = Parsed(s, f) /\ w.waiting = Nil
  BY <1>4, <1>5, <1>8 DEF Works
<1>10. go' = [go EXCEPT ![p] = w]
  BY <1>2, <1>3, <1>4
<1>11. /\ entries' = entries /\ lockedBy' = lockedBy /\ owners' = [owners EXCEPT ![e] = @ \cup {New}]
       /\ UNCHANGED <<registry, life, current, panicked>> /\ toLoad' = toLoad
  BY <1>4, <1>5 DEF snapVars
<1> HIDE DEF w
<1>12. \A q \in Procs : q # p => go'[q] = go[q]
  BY <1>1, <1>5, <1>10 DEF WellTyped
<1>13. New' = New
  BY <1>12, Goroutines DEF New
<1>14. Grows(p) /\ owners' \in [Entries -> SUBSET Snapshots] /\ OwnsFile(New, f)'
  BY <1>1, <1>5, <1>6, <1>7, <1>11, <1>12, <1>13, Goroutines, Acquired
<1>15. WellTyped' /\ go'[p] = w
  <2>1. entries \in [ExtendedFiles -> Entries \cup {Nil}] /\ lockedBy \in [Entries -> Procs \cup {Nil}]
    BY <1>1 DEF WellTyped
  <2> QED BY <1>1, <1>5, <1>9, <1>10, <1>11, <1>14, <2>1, LoaderTyped
<1>16. LoaderOK(p)'
  <2>1. \A g \in ExtendedFiles : OwnsFile(New, g) => OwnsFile(New, g)'
    <3>1. \A x \in Snapshots : \A g \in ExtendedFiles : OwnsFile(x, g) => entries'[g] # Nil /\ x \in owners'[entries'[g]]
      BY <1>14 DEF Grows, OwnsFile
    <3> QED BY <1>5, <1>13, <3>1 DEF OwnsFile
  <2>2. \A i \in 2 .. Len(s) : entries'[s[i].file] = s[i].entry /\ lockedBy'[s[i].entry] = p
    BY <1>5, <1>11 DEF StackOK, FrameOK
  <2>3. StackOK(p, Parsed(s, f))'
    BY <1>5, <1>11, <1>13, <1>14, <2>1, <2>2, ParsedOK
  <2> QED BY <1>9, <1>13, <1>15, <2>3 DEF LoaderOK
<1>17. \A d \in toLoad \ toLoad' : w.pc = "load" /\ w.stack[1].file = d
  BY <1>11
<1>18. w.pc = "load" /\ w.stack[1].file = go[p].stack[1].file
  BY <1>3, <1>8, <1>9
<1> QED BY <1>5, <1>9, <1>10, <1>11, <1>14, <1>15, <1>16, <1>17, <1>18, LoaderSteps

\* The entry that has been waited for is parsed again.
LEMMA ReparsesOK == ASSUME Exact, Closed, NEW p \in Loaders, Reparse(p) PROVE Exact'
<1>1. WellTyped /\ OneClone /\ OneDisposal /\ OneFile
  BY DEF Exact, Kept
<1>2. PICK e, f : e = go[p].waiting /\ f = go[p].file
  OBVIOUS
<1>3. PICK s : s = go[p].stack
  OBVIOUS
<1>4. /\ go[p].pc = "load" /\ e # Nil /\ lockedBy[e] = Nil /\ owners[e] # {}
      /\ lockedBy' = [lockedBy EXCEPT ![e] = p]
      /\ go' = [go EXCEPT ![p].waiting = Nil, ![p].file = Nil, ![p].stack = Append(@, Frame(go[p].file, go[p].waiting))]
      /\ UNCHANGED <<entries, owners, snapVars, panicked>>
  BY <1>2 DEF Reparse, CanLock, Deleted
<1> DEFINE w == [go[p] EXCEPT !.waiting = Nil, !.file = Nil, !.stack = Append(s, Frame(f, e))]
<1>5. /\ p \in Procs /\ go[p] \in Works /\ go[Builder].pc = "load" /\ New \in Snapshots
      /\ s \in Seq(Frames) /\ StackOK(p, s) /\ go[p].snap = New
      /\ Len(s) \in 1 .. Len(s) /\ 1 \in 1 .. Len(s) /\ WaitOK(p)
      /\ s[1].file \in Configs /\ Extends[s[1].file] \subseteq ExtendedFiles
      /\ Top(p).rest \subseteq Extends[s[1].file]
  BY <1>2, <1>3, <1>4, Loads
<1>6. f \in Extends[s[1].file] /\ f \in ExtendedFiles /\ ~OnStack(p, f)
  BY <1>2, <1>5 DEF WaitOK
<1>7. entries[f] = e /\ e \in Entries
  <2>1. entries[f] = e
    BY <1>2, <1>4, <1>5 DEF WaitOK, Dead
  <2> QED BY <1>1, <1>4, <1>6, <2>1 DEF WellTyped
<1>8. Frame(f, e) \in Frames
  BY <1>6, <1>7, FilesOf DEF Frame, Frames
<1>9. Append(s, Frame(f, e)) \in Seq(Frames) /\ Len(Append(s, Frame(f, e))) = Len(s) + 1 /\ Append(s, Frame(f, e))[1] = s[1]
  BY <1>5, <1>8, AppendedIs
<1>10. w \in Works /\ w.pc = "load" /\ w.snap = New /\ w.stack = Append(s, Frame(f, e)) /\ w.waiting = Nil
  BY <1>4, <1>5, <1>9 DEF Works
<1>11. go' = [go EXCEPT ![p] = w]
  BY <1>2, <1>3, <1>4
<1>12. /\ entries' = entries /\ owners' = owners
       /\ UNCHANGED <<registry, life, current, panicked>> /\ toLoad' = toLoad
  BY <1>4 DEF snapVars
<1> HIDE DEF w
<1>13. /\ entries \in [ExtendedFiles -> Entries \cup {Nil}] /\ lockedBy \in [Entries -> Procs \cup {Nil}]
       /\ owners \in [Entries -> SUBSET Snapshots]
  BY <1>1 DEF WellTyped
<1>14. lockedBy' \in [Entries -> Procs \cup {Nil}] /\ lockedBy'[e] = p /\ \A x \in Entries : x # e => lockedBy'[x] = lockedBy[x]
  BY <1>4, <1>5, <1>7, <1>13
<1>15. WellTyped' /\ go'[p] = w /\ \A q \in Procs : q # p => go'[q] = go[q]
  BY <1>1, <1>5, <1>10, <1>11, <1>12, <1>13, <1>14, LoaderTyped
<1>16. New' = New
  BY <1>15, Goroutines DEF New
<1>17. Grows(p)
  <2>1. \A x \in Snapshots : \A g \in ExtendedFiles : OwnsFile(x, g)' <=> OwnsFile(x, g)
    BY <1>12 DEF OwnsFile
  <2>2. OneFile'
    BY <1>1, <1>12 DEF OneFile
  <2>3. ASSUME NEW q \in Loaders, NEW g \in ExtendedFiles, entries[g] # Nil, lockedBy[entries[g]] = q
        PROVE  lockedBy'[entries[g]] = q
    <3>1. entries[g] # e /\ entries[g] \in Entries
      BY <1>4, <1>13, <2>3, Goroutines
    <3> QED BY <1>14, <2>3, <3>1
  <2>4. ASSUME NEW q \in Loaders, q # p, Dead(go[q].waiting) PROVE Dead(go[q].waiting)'
    <3>1. go'[q] = go[q]
      BY <1>15, <2>4, Goroutines
    <3> QED BY <1>12, <2>4, <3>1 DEF Dead
  <2> QED BY <1>12, <2>1, <2>2, <2>3, <2>4 DEF Grows
<1>18. LoaderOK(p)'
  <2>1. \A g \in ExtendedFiles : OwnsFile(New, g) => OwnsFile(New, g)'
    BY <1>12, <1>16 DEF OwnsFile
  <2>2. ASSUME NEW i \in 2 .. Len(s) PROVE entries'[s[i].file] = s[i].entry /\ lockedBy'[s[i].entry] = p
    <3>1. FrameOK(p, s[1].file, s[i])
      BY <1>5 DEF StackOK
    <3>2. s[i].entry \in Entries /\ entries[s[i].file] = s[i].entry /\ lockedBy[s[i].entry] = p
      BY <3>1 DEF FrameOK
    <3>3. s[i].entry # e
      BY <1>4, <1>5, <3>2, Goroutines
    <3> QED BY <1>12, <1>14, <3>2, <3>3
  <2>3. \A i \in 1 .. Len(s) : s[i].file # f
    BY <1>3, <1>5, <1>6 DEF OnStack
  <2>4. StackOK(p, Append(s, Frame(f, e)))'
    BY <1>5, <1>6, <1>7, <1>12, <1>14, <1>16, <2>1, <2>2, <2>3, AppendedOK
  <2> QED BY <1>10, <1>15, <1>16, <2>4 DEF LoaderOK
<1>19. \A d \in toLoad \ toLoad' : w.pc = "load" /\ w.stack[1].file = d
  BY <1>12
<1>20. w.pc = "load" /\ w.stack[1].file = go[p].stack[1].file
  BY <1>3, <1>9, <1>10
<1> QED BY <1>5, <1>10, <1>11, <1>12, <1>15, <1>17, <1>18, <1>19, <1>20, LoaderSteps

\* A file has been parsed: its entry gets its owner and is unlocked.
LEMMA FileOK == ASSUME Exact, Closed, NEW p \in Loaders, FinishFile(p) PROVE Exact'
<1>1. WellTyped /\ OneClone /\ OneDisposal /\ OneFile
  BY DEF Exact, Kept
<1>2. PICK s : s = go[p].stack
  OBVIOUS
<1>3. PICK b : b = SubSeq(s, 1, Len(s) - 1)
  OBVIOUS
<1>4. PICK e, f : e = Top(p).entry /\ f = Top(p).file
  OBVIOUS
<1>5. /\ go[p].pc = "load" /\ go[p].waiting = Nil /\ Len(s) > 1
      /\ owners' = [owners EXCEPT ![e] = @ \cup {go[p].snap}]
      /\ lockedBy' = [lockedBy EXCEPT ![e] = Nil]
      /\ go' = [go EXCEPT ![p].stack = Parsed(b, f)]
      /\ UNCHANGED <<entries, snapVars, panicked>>
  BY <1>2, <1>3, <1>4 DEF FinishFile, Parsing, Unlocked
<1> DEFINE w == [go[p] EXCEPT !.stack = Parsed(b, f)]
           c == s[1].file
<1>6. /\ p \in Procs /\ go[p] \in Works /\ go[Builder].pc = "load" /\ New \in Snapshots
      /\ s \in Seq(Frames) /\ StackOK(p, s) /\ go[p].snap = New
      /\ c \in Configs /\ Extends[c] \subseteq ExtendedFiles /\ Extends[c] \subseteq UsedBy(New)
      /\ Top(p) = s[Len(s)]
  BY <1>2, <1>5, Loads DEF Top
<1>7. PICK n \in Nat : n = Len(s)
  BY <1>6
<1>8. n > 1 /\ n \in 2 .. n
  BY <1>5, <1>7
<1>9. /\ c \in registry[New] /\ s[1].rest \subseteq Extends[c]
      /\ \A g \in Extends[c] \ s[1].rest : OwnsFile(New, g)
      /\ \A i \in 2 .. n : FrameOK(p, c, s[i])
      /\ \A i, j \in 1 .. n : s[i].file = s[j].file => i = j
  BY <1>6, <1>7 DEF StackOK
<1>10. /\ f \in Extends[c] /\ f \in ExtendedFiles /\ f \in UsedBy(New)
       /\ e \in Entries /\ entries[f] = e /\ lockedBy[e] = p
  BY <1>4, <1>6, <1>7, <1>8, <1>9 DEF FrameOK
<1>11. b \in Seq(Frames) /\ Len(b) = n - 1 /\ \A i \in 1 .. n - 1 : b[i] = s[i]
  BY <1>3, <1>5, <1>6, <1>7, BelowIs
<1>12. b[1] = s[1] /\ Len(b) >= 1
  BY <1>8, <1>11
<1>13. StackOK(p, b)
  <2>1. \A i \in 2 .. Len(b) : i \in 2 .. n /\ i \in 1 .. n - 1
    BY <1>8, <1>11
  <2>2. \A i \in 2 .. Len(b) : FrameOK(p, c, b[i])
    BY <1>9, <1>11, <2>1
  <2>3. \A i, j \in 1 .. Len(b) : b[i].file = b[j].file => i = j
    BY <1>8, <1>9, <1>11
  <2> QED BY <1>9, <1>12, <2>2, <2>3 DEF StackOK
<1>14. Parsed(b, f) \in Seq(Frames) /\ Len(Parsed(b, f)) = Len(b) /\ Parsed(b, f)[1].file = c
  BY <1>11, <1>12, ParsedIs
<1>15. w \in Works /\ w.pc = "load" /\ w.snap = New /\ w.stack = Parsed(b, f) /\ w.waiting = Nil
  BY <1>5, <1>6, <1>14 DEF Works
<1>16. go' = [go EXCEPT ![p] = w]
  BY <1>5
<1>17. /\ entries' = entries /\ owners' = [owners EXCEPT ![e] = @ \cup {New}]
       /\ UNCHANGED <<registry, life, current, panicked>> /\ toLoad' = toLoad
  BY <1>5, <1>6 DEF snapVars
<1> HIDE DEF w
<1>18. entries \in [ExtendedFiles -> Entries \cup {Nil}] /\ lockedBy \in [Entries -> Procs \cup {Nil}]
  BY <1>1 DEF WellTyped
<1>19. lockedBy' \in [Entries -> Procs \cup {Nil}] /\ \A x \in Entries : x # e => lockedBy'[x] = lockedBy[x]
  BY <1>5, <1>18
<1>20. \A q \in Procs : q # p => go'[q] = go[q]
  BY <1>1, <1>6, <1>16 DEF WellTyped
<1>21. New' = New
  BY <1>20, Goroutines DEF New
<1>22. Grows(p) /\ owners' \in [Entries -> SUBSET Snapshots] /\ OwnsFile(New, f)'
  <2>1. \A q \in Loaders : \A g \in ExtendedFiles :
          q # p /\ entries[g] # Nil /\ lockedBy[entries[g]] = q => lockedBy'[entries[g]] = q
    BY <1>10, <1>18, <1>19
  <2>2. \A q \in Loaders : q # p => go'[q] = go[q]
    BY <1>20, Goroutines
  <2> QED BY <1>1, <1>6, <1>10, <1>17, <1>21, <2>1, <2>2, Acquired
<1>23. WellTyped' /\ go'[p] = w
  BY <1>1, <1>6, <1>15, <1>16, <1>17, <1>18, <1>19, <1>22, LoaderTyped
<1>24. LoaderOK(p)'
  <2>1. \A g \in ExtendedFiles : OwnsFile(New, g) => OwnsFile(New, g)'
    <3>1. \A x \in Snapshots : \A g \in ExtendedFiles : OwnsFile(x, g) => entries'[g] # Nil /\ x \in owners'[entries'[g]]
      BY <1>22 DEF Grows, OwnsFile
    <3> QED BY <1>6, <1>21, <3>1 DEF OwnsFile
  <2>2. ASSUME NEW i \in 2 .. Len(b) PROVE entries'[b[i].file] = b[i].entry /\ lockedBy'[b[i].entry] = p
    <3>1. i \in 2 .. n /\ i \in 1 .. n /\ i # n /\ n \in 1 .. n /\ b[i] = s[i]
      BY <1>8, <1>11
    <3>2. FrameOK(p, c, s[i])
      BY <1>9, <3>1
    <3>3. s[i].file \in ExtendedFiles /\ s[i].entry \in Entries /\ entries[s[i].file] = s[i].entry /\ lockedBy[s[i].entry] = p
      BY <1>6, <3>2 DEF FrameOK
    <3>4. s[i].file # f
      BY <1>4, <1>6, <1>7, <1>9, <3>1
    <3>5. s[i].entry # e
      BY <1>1, <1>10, <3>3, <3>4, FilesOf DEF OneFile
    <3> QED BY <1>17, <1>19, <3>1, <3>3, <3>5
  <2>3. b[1].file \in Configs
    BY <1>6, <1>12
  <2>4. StackOK(p, Parsed(b, f))'
    BY <1>11, <1>13, <1>17, <1>21, <1>22, <2>1, <2>2, <2>3, ParsedOK
  <2> QED BY <1>15, <1>21, <1>23, <2>4 DEF LoaderOK
<1>25. \A d \in toLoad \ toLoad' : w.pc = "load" /\ w.stack[1].file = d
  BY <1>17
<1>26. w.pc = "load" /\ w.stack[1].file = go[p].stack[1].file
  BY <1>2, <1>14, <1>15
<1> QED BY <1>6, <1>15, <1>16, <1>17, <1>22, <1>23, <1>24, <1>25, <1>26, LoaderSteps

-----------------------------------------------------------------------------
(* The steps of the clone.                                                      *)

\* A disposer goes on when the cache and what its snapshot uses stays as it is.
LEMMA DisposerSame ==
  ASSUME Kept, UNCHANGED cacheVars, NEW d \in Disposers, go'[d] = go[d],
         \A s \in Snapshots : life[s] = "disposing" => registry'[s] = registry[s]
  PROVE  ReleaseOK(d)' /\ (LeftOK(d) => LeftOK(d)')
<1>1. WellTyped /\ OneDisposal /\ ReleaseOK(d)
  BY DEF Kept
<1>2. entries' = entries /\ owners' = owners
  BY DEF cacheVars
<1>4. go'[d] = go[d] /\ go[d] \in Works
  BY <1>1, Goroutines DEF WellTyped
<1>5. go[d].todo \subseteq UsesOf(go[d].snap) => go'[d].todo \subseteq UsesOf(go[d].snap)'
  <2>1. CASE go[d].pc = "release"
    <3>1. life[go[d].snap] = "disposing" /\ go[d].snap \in Snapshots
      BY <1>1, <1>4, <2>1 DEF OneDisposal, Works
    <3>2. UsesOf(go[d].snap)' = UsesOf(go[d].snap)
      BY <1>4, <3>1 DEF UsesOf
    <3> QED BY <1>4, <3>2
  <2>2. CASE go[d].pc # "release"
    <3>1. go[d].todo = {}
      BY <1>1, <2>2, NoWorkIs DEF OneDisposal
    <3> QED BY <1>4, <3>1
  <2> QED BY <2>1, <2>2
<1>6. \A f \in ExtendedFiles : OwnsFile(go[d].snap, f)' <=> OwnsFile(go[d].snap, f)
  BY <1>2, <1>4 DEF OwnsFile
<1>7. ReleaseOK(d)'
  BY <1>1, <1>2, <1>4, <1>5, <1>6, DisposerStays
<1>8. LeftOK(d) => LeftOK(d)'
  BY <1>2, <1>4, <1>6 DEF LeftOK, Todo
<1> QED BY <1>7, <1>8

\* While no configuration is loaded the loaders are idle.
LEMMA LoadersIdle ==
  ASSUME \A p \in Loaders : go[p].pc = "idle" /\ LoaderOK(p) /\ go'[p] = go[p]
  PROVE  \A p \in Loaders : go'[p] = NoWork /\ LoaderOK(p)'
<1>1. \A p \in Loaders : go'[p] = NoWork
  BY DEF LoaderOK
<1> QED BY <1>1, NoWorkIs DEF LoaderOK

\* The snapshots that have been born are numbered without a gap.
LEMMA NewSnapshotIs ==
  ASSUME NEW n \in 1 .. Last + 1, \A s \in Snapshots : life[s] # "unborn" <=> s < n
  PROVE  NewSnapshot = n
<1>1. {s \in Snapshots : life[s] # "unborn"} = 0 .. n - 1
  BY Snaps
<1>2. Cardinality(0 .. n - 1) = n
  BY Snaps, FS_Interval
<1> QED BY <1>1, <1>2 DEF NewSnapshot

\* A clone starts.
LEMMA StartsOK == ASSUME Exact, Closed, StartClone PROVE Exact'
<1>1. /\ WellTyped /\ OneClone /\ OneDisposal /\ OneFile /\ ~panicked
      /\ \A q \in Loaders : LoaderOK(q)
      /\ AllOwned
  BY DEF Exact, Kept
<1>2. PICK configs \in SUBSET Configs, loads \in SUBSET Configs :
       /\ configs \ registry[current] \subseteq loads /\ loads \subseteq configs
       /\ registry' = [registry EXCEPT ![NewSnapshot] = configs] /\ toLoad' = loads
       /\ life' = [life EXCEPT ![NewSnapshot] = "building"]
       /\ go' = [go EXCEPT ![Builder] = [NoWork EXCEPT !.pc = "load", !.snap = NewSnapshot]]
  BY DEF StartClone
<1>3. /\ go[Builder].pc = "idle" /\ life[Last] = "unborn"
      /\ UNCHANGED <<cacheVars, current, panicked>>
  BY DEF StartClone
<1>4. PICK n \in 1 .. Last + 1 : \A s \in Snapshots : life[s] # "unborn" <=> s < n
  BY <1>1 DEF OneClone
<1>5. NewSnapshot = n
  BY <1>4, NewSnapshotIs
<1>6. n \in 1 .. Last /\ n \in Snapshots /\ life[n] = "unborn"
  BY <1>3, <1>4, Snaps
<1>7. registry \in [Snapshots -> SUBSET Configs] /\ current \in Snapshots
      /\ life \in [Snapshots -> {"unborn", "building", "live", "disposing", "disposed"}]
      /\ go \in [Procs -> Works]
  BY <1>1 DEF WellTyped
<1> DEFINE w == [NoWork EXCEPT !.pc = "load", !.snap = n]
<1>8. w \in Works /\ w.pc = "load" /\ w.snap = n /\ w.waiting = Nil
  BY <1>6, NoWorkIs DEF Works, NoWork
<1>9. go' = [go EXCEPT ![Builder] = w]
  BY <1>2, <1>5
<1> HIDE DEF w
<1>10. go'[Builder] = w /\ \A q \in Procs : q # Builder => go'[q] = go[q]
  BY <1>7, <1>9, Goroutines
<1>11. New' = n
  BY <1>8, <1>10 DEF New
<1>12. registry'[n] = configs /\ \A s \in Snapshots : s # n => registry'[s] = registry[s]
  BY <1>2, <1>5, <1>6, <1>7
<1>13. life'[n] = "building" /\ \A s \in Snapshots : s # n => life'[s] = life[s]
  BY <1>2, <1>5, <1>6, <1>7
<1>14. entries' = entries /\ lockedBy' = lockedBy /\ owners' = owners /\ current' = current /\ panicked' = panicked
  BY <1>3 DEF cacheVars
<1>15. WellTyped'
  <2>1. registry' \in [Snapshots -> SUBSET Configs]
    BY <1>2, <1>5, <1>6, <1>7
  <2>2. life' \in [Snapshots -> {"unborn", "building", "live", "disposing", "disposed"}]
    BY <1>2, <1>5, <1>6, <1>7
  <2>3. go' \in [Procs -> Works]
    BY <1>7, <1>8, <1>9
  <2> QED BY <1>1, <1>2, <1>14, <2>1, <2>2, <2>3 DEF WellTyped
<1>16. \A p \in Loaders : go[p].pc = "idle"
  BY <1>1, <1>3 DEF OneClone
<1>17. \A p \in Loaders : go'[p] = go[p]
  BY <1>10, Goroutines
<1>18. \A p \in Loaders : LoaderOK(p)'
  BY <1>1, <1>16, <1>17, LoadersIdle
<1>19. \A d \in Disposers : go'[d] = go[d]
  BY <1>10, Goroutines
<1>20. \A d \in Disposers : ReleaseOK(d)' /\ (LeftOK(d) => LeftOK(d)')
  <2>1. \A s \in Snapshots : life[s] = "disposing" => registry'[s] = registry[s]
    BY <1>6, <1>12
  <2> QED BY <1>3, <1>19, <2>1, DisposerSame DEF Exact
<1>21. OneClone'
  <2>1. \A s \in Snapshots : life'[s] = "building" <=> s = n
    BY <1>1, <1>3, <1>13 DEF OneClone
  <2>2. life'[current'] = "live"
    BY <1>1, <1>6, <1>7, <1>13, <1>14 DEF OneClone
  <2>3. toLoad' \subseteq registry'[n]
    BY <1>2, <1>12
  <2>4. \A s \in Snapshots : life'[s] # "unborn" <=> s < n + 1
    BY <1>4, <1>6, <1>13, Snaps
  <2>5. n + 1 \in 1 .. Last + 1
    BY <1>6, Snaps
  <2> QED BY <1>8, <1>10, <1>11, <2>1, <2>2, <2>3, <2>4, <2>5 DEF OneClone
<1>22. OneDisposal'
  <2>1. \A d \in Disposers : go[d].pc = "release" => go[d].snap \in Snapshots /\ life'[go[d].snap] = "disposing"
    BY <1>1, <1>6, <1>7, <1>13, Goroutines DEF OneDisposal, Works
  <2> QED BY <1>1, <1>19, <2>1 DEF OneDisposal
<1>23. OneFile'
  BY <1>1, <1>14 DEF OneFile
<1>24. Loading'
  <2>1. current # n
    BY <1>1, <1>6 DEF OneClone
  <2>2. registry'[current'] = registry[current]
    BY <1>7, <1>12, <1>14, <2>1
  <2> QED BY <1>2, <1>11, <1>12, <2>2 DEF Loading
<1>25. Owning'
  BY <1>8, <1>10 DEF Owning
<1>26. \A s \in Snapshots : s # n => UsedBy(s)' = UsedBy(s)
  BY <1>12 DEF UsedBy
<1>27. \A s \in Snapshots : \A f \in ExtendedFiles : OwnsFile(s, f)' <=> OwnsFile(s, f)
  BY <1>14 DEF OwnsFile
<1>28. AllOwned'
  <2> SUFFICES ASSUME NEW s \in Snapshots, life'[s] = "live", NEW f \in UsedBy(s)' PROVE OwnsFile(s, f)'
    BY DEF AllOwned
  <2>1. s # n
    BY <1>13
  <2>2. life[s] = "live" /\ f \in UsedBy(s) /\ registry[s] \subseteq Configs
    BY <1>7, <1>13, <1>26, <2>1
  <2>3. f \in ExtendedFiles
    BY <2>2, FilesOf DEF UsedBy
  <2> QED BY <1>1, <1>27, <2>2, <2>3 DEF AllOwned
<1>29. NoRest'
  <2> SUFFICES ASSUME ~MayDrop PROVE OnlyUsed' /\ \A d \in Disposers : LeftOK(d)'
    BY DEF NoRest
  <2>1. OnlyUsed /\ \A d \in Disposers : LeftOK(d)
    BY DEF Exact, NoRest
  <2>2. ASSUME NEW s \in Snapshots, NEW f \in ExtendedFiles, OwnsFile(s, f)'
        PROVE  life'[s] \notin {"unborn", "disposed"} /\ (life'[s] \in {"live", "building"} => f \in UsedBy(s)')
    <3>1. OwnsFile(s, f)
      BY <1>27, <2>2
    <3>2. life[s] \notin {"unborn", "disposed"} /\ (life[s] \in {"live", "building"} => f \in UsedBy(s))
      BY <2>1, <3>1 DEF OnlyUsed
    <3>3. s # n
      BY <1>6, <3>2
    <3> QED BY <1>13, <1>26, <3>2, <3>3
  <2>3. OnlyUsed'
    BY <2>2 DEF OnlyUsed
  <2> QED BY <1>20, <2>1, <2>3
<1>30. (~panicked)'
  BY <1>1, <1>14
<1> QED BY <1>15, <1>18, <1>20, <1>21, <1>22, <1>23, <1>24, <1>25, <1>28, <1>29, <1>30 DEF Exact, Kept

\* The types, when the clone's goroutine and the history change.
LEMMA BuilderTyped ==
  ASSUME WellTyped, NEW w \in Works, go' = [go EXCEPT ![Builder] = w],
         UNCHANGED <<entries, lockedBy, life, current, toLoad, panicked>>,
         registry' \in [Snapshots -> SUBSET Configs], owners' \in [Entries -> SUBSET Snapshots]
  PROVE  WellTyped'
<1>1. go \in [Procs -> Works]
  BY DEF WellTyped
<1>2. go' \in [Procs -> Works]
  BY <1>1
<1> QED BY <1>2 DEF WellTyped

\* Who the goroutines are after a step of the clone's.
LEMMA BuilderSteps ==
  ASSUME WellTyped, NEW w \in Works, go' = [go EXCEPT ![Builder] = w]
  PROVE  /\ go'[Builder] = w /\ \A p \in Loaders : go'[p] = go[p]
         /\ \A d \in Disposers : go'[d] = go[d]
         /\ \A q \in Procs : q # Builder => go'[q] = go[q]
<1>1. go \in [Procs -> Works]
  BY DEF WellTyped
<1>2. go'[Builder] = w /\ \A q \in Procs : q # Builder => go'[q] = go[q]
  BY <1>1, Goroutines
<1> QED BY <1>2, Goroutines

\* The clone takes the ownership of what its configurations extend: that is owned already,
\* by the clone or by the session's snapshot.
LEMMA FinishLoadingOK == ASSUME Exact, Closed, FinishLoading PROVE Exact'
<1>1. /\ WellTyped /\ OneClone /\ OneDisposal /\ OneFile /\ ~panicked
      /\ \A q \in Loaders : LoaderOK(q)
      /\ Loading /\ AllOwned
  BY DEF Exact, Kept
<1>2. /\ go[Builder].pc = "load" /\ toLoad = {} /\ \A p \in Loaders : go[p].pc = "idle"
      /\ UNCHANGED <<cacheVars, life, current, toLoad, panicked>>
  BY DEF FinishLoading, Loaded
<1>3. PICK drop \in SUBSET registry[New] :
       /\ MayDrop \/ drop = {}
       /\ registry' = [registry EXCEPT ![New] = @ \ drop]
       /\ go' = [go EXCEPT ![Builder].pc = "own", ![Builder].todo = ToOwn(registry[New] \ drop)]
  BY DEF FinishLoading, New
<1>4. New \in Snapshots /\ New # current /\ life[New] = "building"
      /\ \A d \in Disposers : go[d].pc = "release" => go[d].snap # New
  BY <1>1, <1>2, NewIsNew
<1>5. registry \in [Snapshots -> SUBSET Configs] /\ current \in Snapshots /\ go[Builder] \in Works
  BY <1>1, Goroutines DEF WellTyped
<1> DEFINE configs == registry[New] \ drop
           todo == UsesIn(configs)
           w == [go[Builder] EXCEPT !.pc = "own", !.todo = todo]
<1>6. configs \in SUBSET Configs
  BY <1>4, <1>5
<1>7. /\ todo \subseteq Configs \X ExtendedFiles
      /\ {u[2] : u \in todo} = UNION {Extends[c] : c \in configs}
  BY <1>6, UsesInIs
<1>8. go[Builder].waiting = Nil
  BY <1>1, <1>2 DEF OneClone
<1>9. go' = [go EXCEPT ![Builder] = w]
  BY <1>3 DEF ToOwn
<1> HIDE DEF todo
<1>10. w \in Works /\ w.pc = "own" /\ w.snap = New /\ w.waiting = Nil /\ w.todo = todo
  BY <1>5, <1>7, <1>8 DEF Works, New
<1> HIDE DEF w
<1>11. registry'[New] = configs /\ \A s \in Snapshots : s # New => registry'[s] = registry[s]
  BY <1>3, <1>4, <1>5
<1> HIDE DEF configs
<1>12. go'[Builder] = w /\ (\A p \in Loaders : go'[p] = go[p]) /\ \A d \in Disposers : go'[d] = go[d]
  BY <1>1, <1>9, <1>10, BuilderSteps
<1>13. New' = New
  BY <1>10, <1>12 DEF New
<1>14. entries' = entries /\ lockedBy' = lockedBy /\ owners' = owners /\ current' = current /\ panicked' = panicked
       /\ life' = life /\ toLoad' = toLoad
  BY <1>2 DEF cacheVars
<1>15. WellTyped'
  <2>1. owners \in [Entries -> SUBSET Snapshots]
    BY <1>1 DEF WellTyped
  <2>2. registry' \in [Snapshots -> SUBSET Configs]
    BY <1>3, <1>4, <1>5
  <2> QED BY <1>1, <1>9, <1>10, <1>14, <2>1, <2>2, BuilderTyped
<1>16. \A p \in Loaders : LoaderOK(p)' /\ go'[p].pc = "idle"
  BY <1>1, <1>2, <1>12, LoadersIdle
<1>17. \A d \in Disposers : ReleaseOK(d)' /\ (LeftOK(d) => LeftOK(d)')
  <2>1. \A s \in Snapshots : life[s] = "disposing" => registry'[s] = registry[s]
    BY <1>4, <1>11
  <2> QED BY <1>2, <1>12, <2>1, DisposerSame DEF Exact
<1>18. OneClone'
  <2>1. /\ \A s \in Snapshots : life[s] = "building" <=> go[Builder].pc # "idle" /\ s = New
        /\ life[current] = "live"
        /\ \E n \in 1 .. Last + 1 : \A s \in Snapshots : life[s] # "unborn" <=> s < n
    BY <1>1 DEF OneClone
  <2> QED BY <1>2, <1>10, <1>12, <1>13, <1>14, <1>16, <2>1 DEF OneClone
<1>19. OneDisposal'
  BY <1>1, <1>12, <1>14 DEF OneDisposal
<1>20. OneFile'
  BY <1>1, <1>14 DEF OneFile
<1>21. Loading'
  BY <1>10, <1>12 DEF Loading
<1>22. \A s \in Snapshots : s # New => UsedBy(s)' = UsedBy(s)
  BY <1>11 DEF UsedBy
<1>23. UsedBy(New)' = UNION {Extends[c] : c \in configs} /\ UsedBy(New)' \subseteq UsedBy(New)
  BY <1>11, <1>13 DEF UsedBy, configs
<1>24. \A s \in Snapshots : \A f \in ExtendedFiles : OwnsFile(s, f)' <=> OwnsFile(s, f)
  BY <1>14 DEF OwnsFile
<1>25. Todo(Builder)' = UsedBy(New)'
  BY <1>7, <1>10, <1>12, <1>23 DEF Todo
<1>26. ASSUME NEW f \in UsedBy(New)' PROVE OwnsFile(current, f)' \/ OwnsFile(New, f)'
  <2>1. PICK c \in configs : f \in Extends[c]
    BY <1>23, <1>26
  <2>2. c \in registry[New] /\ c \in Configs
    BY <2>1, <1>6 DEF configs
  <2>3. f \in ExtendedFiles
    BY <2>1, <2>2, FilesOf
  <2>4. CASE c \in registry[current]
    <3>1. f \in UsedBy(current)
      BY <2>1, <2>4 DEF UsedBy
    <3>2. OwnsFile(current, f)
      BY <1>1, <1>5, <3>1 DEF AllOwned, OneClone
    <3> QED BY <1>14, <3>2 DEF OwnsFile
  <2>5. CASE \A g \in Extends[c] : OwnsFile(New, g)
    BY <1>13, <1>14, <2>1, <2>5 DEF OwnsFile
  <2>6. c \in registry[current] \/ \A g \in Extends[c] : OwnsFile(New, g)
    BY <1>1, <1>2, <2>2 DEF Loading
  <2> QED BY <2>4, <2>5, <2>6
<1>27. Owning'
  BY <1>10, <1>12, <1>25, <1>26 DEF Owning
<1>28. AllOwned'
  <2> SUFFICES ASSUME NEW s \in Snapshots, life[s] = "live", NEW f \in UsedBy(s)' PROVE OwnsFile(s, f)'
    BY <1>14 DEF AllOwned
  <2>1. s # New
    BY <1>4
  <2>2. f \in UsedBy(s) /\ registry[s] \subseteq Configs
    BY <1>5, <1>22, <2>1
  <2>3. f \in ExtendedFiles
    BY <2>2, FilesOf DEF UsedBy
  <2> QED BY <1>1, <1>24, <2>2, <2>3 DEF AllOwned
<1>29. NoRest'
  <2> SUFFICES ASSUME ~MayDrop PROVE OnlyUsed' /\ \A d \in Disposers : LeftOK(d)'
    BY DEF NoRest
  <2>1. OnlyUsed /\ \A d \in Disposers : LeftOK(d)
    BY DEF Exact, NoRest
  <2>2. drop = {}
    BY <1>3
  <2>3. registry' = registry
    BY <1>3, <1>4, <1>5, <2>2
  <2>4. \A s \in Snapshots : UsedBy(s)' = UsedBy(s)
    BY <2>3 DEF UsedBy
  <2>5. OnlyUsed'
    BY <1>14, <1>24, <2>1, <2>4 DEF OnlyUsed
  <2> QED BY <1>17, <2>1, <2>5
<1>30. (~panicked)'
  BY <1>1, <1>14
<1> QED BY <1>15, <1>16, <1>17, <1>18, <1>19, <1>20, <1>21, <1>27, <1>28, <1>29, <1>30 DEF Exact, Kept

\* A step of the clone's while it takes its ownership keeps the invariant if it keeps what
\* remains to be owned.
LEMMA OwnSteps ==
  ASSUME Exact, Closed, go[Builder].pc = "own", Grows(Builder), NEW w \in Works, go' = [go EXCEPT ![Builder] = w],
         w.pc = "own", w.snap = New, UNCHANGED <<entries, lockedBy, registry, life, current, toLoad, panicked>>,
         owners' \in [Entries -> SUBSET Snapshots], Owning'
  PROVE  Exact'
<1>1. /\ WellTyped /\ OneClone /\ OneDisposal /\ OneFile /\ ~panicked
      /\ \A q \in Loaders : LoaderOK(q)
      /\ AllOwned
  BY DEF Exact, Kept
<1>2. /\ go'[Builder] = w /\ (\A p \in Loaders : go'[p] = go[p]) /\ (\A d \in Disposers : go'[d] = go[d])
      /\ \A q \in Procs : q # Builder => go'[q] = go[q]
  BY <1>1, BuilderSteps
<1>3. New' = New /\ New \in Snapshots
  BY <1>1, <1>2, NewIsNew DEF New
<1>4. WellTyped'
  <2>1. registry \in [Snapshots -> SUBSET Configs]
    BY <1>1 DEF WellTyped
  <2> QED BY <1>1, <2>1, BuilderTyped
<1>5. (\A q \in Loaders : LoaderOK(q)') /\ \A d \in Disposers : ReleaseOK(d)'
  <2>1. /\ \A q \in Loaders : q # Builder => LoaderOK(q)'
        /\ \A d \in Disposers : d # Builder => ReleaseOK(d)'
    BY <1>2, <1>3, Growing, Goroutines DEF Exact
  <2> QED BY <2>1, Goroutines
<1>6. OneClone'
  <2>1. /\ \A s \in Snapshots : life[s] = "building" <=> go[Builder].pc # "idle" /\ s = New
        /\ life[current] = "live" /\ toLoad = {} /\ \A p \in Loaders : go[p].pc = "idle"
        /\ \E n \in 1 .. Last + 1 : \A s \in Snapshots : life[s] # "unborn" <=> s < n
    BY <1>1 DEF OneClone
  <2> QED BY <1>2, <1>3, <2>1 DEF OneClone
<1>7. OneDisposal'
  BY <1>1, <1>2 DEF OneDisposal
<1>8. OneFile'
  BY DEF Grows
<1>9. Loading'
  BY <1>2 DEF Loading
<1>10. \A s \in Snapshots : UsedBy(s)' = UsedBy(s)
  BY DEF UsedBy
<1>11. AllOwned'
  <2> SUFFICES ASSUME NEW s \in Snapshots, life[s] = "live", NEW f \in UsedBy(s) PROVE OwnsFile(s, f)'
    BY <1>10 DEF AllOwned
  <2>1. registry[s] \subseteq Configs
    BY <1>1 DEF WellTyped
  <2>2. f \in ExtendedFiles
    BY <2>1, FilesOf DEF UsedBy
  <2> QED BY <1>1, <2>2 DEF AllOwned, Grows
<1>12. NoRest'
  <2> SUFFICES ASSUME ~MayDrop PROVE OnlyUsed' /\ \A d \in Disposers : LeftOK(d)'
    BY DEF NoRest
  <2>1. OnlyUsed /\ \A d \in Disposers : LeftOK(d)
    BY DEF Exact, NoRest
  <2> QED BY <1>1, <1>2, <2>1, RestStays, Goroutines
<1>13. (~panicked)'
  BY <1>1
<1> QED BY <1>4, <1>5, <1>6, <1>7, <1>8, <1>9, <1>11, <1>12, <1>13 DEF Exact, Kept

\* AddOwner looks an entry up, and finds one: it is owned.
LEMMA AddLookupOK == ASSUME Exact, Closed, AddOwnerLookup PROVE Exact'
<1>1. WellTyped /\ OneClone /\ OneDisposal /\ OneFile /\ Owning
  BY DEF Exact, Kept
<1>2. PICK u \in go[Builder].todo :
       IF entries[u[2]] = Nil
       THEN panicked' = TRUE /\ UNCHANGED go
       ELSE /\ go' = [go EXCEPT ![Builder].waiting = entries[u[2]], ![Builder].todo = @ \ {u}]
            /\ UNCHANGED panicked
  BY DEF AddOwnerLookup
<1>3. /\ go[Builder].pc = "own" /\ go[Builder].waiting = Nil
      /\ entries' = entries /\ lockedBy' = lockedBy /\ owners' = owners
      /\ UNCHANGED <<registry, life, current, toLoad>>
      /\ UNCHANGED cacheVars
  BY DEF AddOwnerLookup, cacheVars, snapVars
<1>4. PICK f : f = u[2]
  OBVIOUS
<1>5. go[Builder] \in Works /\ f \in Todo(Builder)
  BY <1>1, <1>2, <1>4, Goroutines DEF WellTyped, Todo
<1>6. f \in UsedBy(New)
  BY <1>1, <1>3, <1>5 DEF Owning
<1>7. f \in ExtendedFiles
  BY <1>2, <1>4, <1>5 DEF Works
<1>8. entries[f] # Nil
  BY <1>1, <1>3, <1>6 DEF Owning, OwnsFile
<1>9. entries[f] \in Entries
  BY <1>1, <1>7, <1>8 DEF WellTyped
<1> DEFINE w == [go[Builder] EXCEPT !.waiting = entries[f], !.todo = @ \ {u}]
<1>10. go' = [go EXCEPT ![Builder] = w] /\ UNCHANGED panicked
  BY <1>2, <1>4, <1>8
<1>11. w \in Works /\ w.pc = "own" /\ w.snap = New /\ w.waiting = entries[f] /\ w.todo = go[Builder].todo \ {u}
  BY <1>3, <1>5, <1>9 DEF Works, New
<1> HIDE DEF w
<1>12. go'[Builder] = w /\ \A p \in Loaders : go'[p] = go[p]
  BY <1>1, <1>10, <1>11, BuilderSteps
<1>13. New' = New
  BY <1>11, <1>12 DEF New
<1>14. UsedBy(New)' = UsedBy(New)
  BY <1>3, <1>13 DEF UsedBy
<1>15. Todo(Builder)' \subseteq Todo(Builder) /\ Todo(Builder) \subseteq Todo(Builder)' \cup {f}
  BY <1>4, <1>11, <1>12 DEF Todo
<1>16. Owning'
  <2>1. ASSUME NEW g \in UsedBy(New)
        PROVE  /\ OwnsFile(current, g)' \/ OwnsFile(New, g)'
               /\ g \in Todo(Builder)' \/ entries'[g] = go'[Builder].waiting \/ OwnsFile(New, g)'
    <3>1. /\ OwnsFile(current, g) \/ OwnsFile(New, g)
          /\ g \in Todo(Builder) \/ entries[g] = go[Builder].waiting \/ OwnsFile(New, g)
      BY <1>1, <1>3 DEF Owning
    <3>2. (OwnsFile(current, g)' <=> OwnsFile(current, g)) /\ (OwnsFile(New, g)' <=> OwnsFile(New, g))
      BY <1>3, <1>13 DEF OwnsFile
    <3>3. entries[g] # Nil
      BY <3>1 DEF OwnsFile
    <3> QED BY <1>3, <1>11, <1>12, <1>15, <3>1, <3>2, <3>3
  <2>2. \E g \in UsedBy(New) : entries'[g] = go'[Builder].waiting
    BY <1>3, <1>6, <1>11, <1>12
  <2>3. Todo(Builder)' \subseteq UsedBy(New)
    BY <1>1, <1>3, <1>15 DEF Owning
  <2> QED BY <1>14, <2>1, <2>2, <2>3 DEF Owning
<1>17. Grows(Builder)
  BY <1>1, <1>3, <1>12, Goroutines, SameGrows
<1>18. owners' \in [Entries -> SUBSET Snapshots]
  BY <1>1, <1>3 DEF WellTyped
<1> QED BY <1>3, <1>10, <1>11, <1>16, <1>17, <1>18, OwnSteps

\* AddOwner adds the owner; the entry has one already.
LEMMA AddOK == ASSUME Exact, Closed, AddOwner PROVE Exact'
<1>1. WellTyped /\ OneClone /\ OneDisposal /\ OneFile /\ Owning /\ ~panicked
  BY DEF Exact, Kept
<1>2. PICK e : e = go[Builder].waiting
  OBVIOUS
<1>3. /\ go[Builder].pc = "own" /\ e # Nil
      /\ owners' = [owners EXCEPT ![e] = @ \cup {New}]
      /\ panicked' = (panicked \/ owners[e] = {})
      /\ go' = [go EXCEPT ![Builder].waiting = Nil]
      /\ entries' = entries /\ lockedBy' = lockedBy
      /\ UNCHANGED <<registry, life, current, toLoad>>
  BY <1>2 DEF AddOwner, CanLock, snapVars, New
<1>4. PICK f \in UsedBy(New) : entries[f] = e
  BY <1>1, <1>2, <1>3 DEF Owning
<1>5. New \in Snapshots /\ go[Builder] \in Works
  BY <1>1, <1>3, NewIsNew, Goroutines DEF WellTyped
<1>6. registry[New] \subseteq Configs
  BY <1>1, <1>5 DEF WellTyped
<1>7. f \in ExtendedFiles
  BY <1>6, FilesOf DEF UsedBy
<1>8. e \in Entries
  BY <1>1, <1>3, <1>4, <1>7 DEF WellTyped
<1>9. owners[e] # {}
  BY <1>1, <1>3, <1>4 DEF Owning, OwnsFile
<1> DEFINE w == [go[Builder] EXCEPT !.waiting = Nil]
<1>10. w \in Works /\ w.pc = "own" /\ w.snap = New /\ w.waiting = Nil /\ w.todo = go[Builder].todo
  BY <1>3, <1>5 DEF Works, New
<1>11. go' = [go EXCEPT ![Builder] = w] /\ UNCHANGED panicked
  <2>1. panicked = FALSE
    BY <1>1, Zenon DEF WellTyped
  <2>2. panicked' = FALSE
    BY <1>3, <1>9, <2>1, Zenon
  <2> QED BY <1>3, <2>1, <2>2
<1> HIDE DEF w
<1>12. go'[Builder] = w /\ \A p \in Loaders : go'[p] = go[p]
  BY <1>1, <1>10, <1>11, BuilderSteps
<1>13. New' = New
  BY <1>10, <1>12 DEF New
<1>14. Grows(Builder) /\ owners' \in [Entries -> SUBSET Snapshots] /\ OwnsFile(New, f)'
  BY <1>1, <1>3, <1>4, <1>5, <1>7, <1>8, <1>12, <1>13, Goroutines, Acquired
<1>15. Owning'
  <2>1. UsedBy(New)' = UsedBy(New) /\ Todo(Builder)' = Todo(Builder)
    BY <1>3, <1>10, <1>12, <1>13 DEF UsedBy, Todo
  <2>2. ASSUME NEW g \in UsedBy(New)
        PROVE  /\ OwnsFile(current, g)' \/ OwnsFile(New, g)'
               /\ g \in Todo(Builder)' \/ entries'[g] = go'[Builder].waiting \/ OwnsFile(New, g)'
    <3>1. /\ OwnsFile(current, g) \/ OwnsFile(New, g)
          /\ g \in Todo(Builder) \/ entries[g] = e \/ OwnsFile(New, g)
      BY <1>1, <1>2, <1>3 DEF Owning
    <3>2. g \in ExtendedFiles /\ current \in Snapshots
      BY <1>1, <1>6, FilesOf DEF UsedBy, WellTyped
    <3>3. \A s \in Snapshots : OwnsFile(s, g) => entries'[g] # Nil /\ s \in owners'[entries'[g]]
      BY <1>14, <3>2 DEF Grows, OwnsFile
    <3>4. (OwnsFile(current, g) => OwnsFile(current, g)') /\ (OwnsFile(New, g) => OwnsFile(New, g)')
      BY <1>3, <1>5, <1>13, <3>2, <3>3 DEF OwnsFile
    <3>5. entries[g] = e => OwnsFile(New, g)'
      BY <1>1, <1>3, <1>4, <1>7, <1>14, <3>2 DEF OneFile
    <3> QED BY <2>1, <3>1, <3>4, <3>5
  <2>3. Todo(Builder) \subseteq UsedBy(New)
    BY <1>1, <1>3 DEF Owning
  <2> QED BY <1>10, <1>12, <2>1, <2>2, <2>3 DEF Owning
<1> QED BY <1>3, <1>10, <1>11, <1>14, <1>15, OwnSteps

\* The clone is the session's snapshot now, and owns all that it uses.
LEMMA FinishCloneOK == ASSUME Exact, Closed, FinishClone PROVE Exact'
<1>1. /\ WellTyped /\ OneClone /\ OneDisposal /\ OneFile /\ ~panicked
      /\ \A q \in Loaders : LoaderOK(q)
      /\ Owning /\ AllOwned
  BY DEF Exact, Kept
<1>2. /\ go[Builder].pc = "own" /\ go[Builder].waiting = Nil /\ go[Builder].todo = {}
      /\ life' = [life EXCEPT ![New] = "live"] /\ current' = New
      /\ go' = [go EXCEPT ![Builder] = NoWork]
      /\ UNCHANGED <<cacheVars, registry, toLoad, panicked>>
  BY DEF FinishClone, New
<1>3. New \in Snapshots /\ New # current /\ life[New] = "building"
      /\ \A d \in Disposers : go[d].pc = "release" => go[d].snap # New
  BY <1>1, <1>2, NewIsNew
<1>4. registry \in [Snapshots -> SUBSET Configs] /\ current \in Snapshots
      /\ life \in [Snapshots -> {"unborn", "building", "live", "disposing", "disposed"}]
  BY <1>1 DEF WellTyped
<1>5. PICK n : n = New
  OBVIOUS
<1>6. life'[n] = "live" /\ \A s \in Snapshots : s # n => life'[s] = life[s]
  BY <1>2, <1>3, <1>4, <1>5
<1>7. go'[Builder] = NoWork /\ (\A p \in Loaders : go'[p] = go[p]) /\ \A d \in Disposers : go'[d] = go[d]
  BY <1>1, <1>2, NoWorkIs, BuilderSteps
<1>8. entries' = entries /\ lockedBy' = lockedBy /\ owners' = owners
  BY <1>2 DEF cacheVars
<1>9. WellTyped'
  <2>1. life' \in [Snapshots -> {"unborn", "building", "live", "disposing", "disposed"}]
    BY <1>2, <1>3, <1>4
  <2>2. go' \in [Procs -> Works]
    <3>1. go \in [Procs -> Works]
      BY <1>1 DEF WellTyped
    <3> QED BY <1>2, <3>1, NoWorkIs
  <2> QED BY <1>1, <1>2, <1>3, <1>8, <2>1, <2>2 DEF WellTyped
<1>10. toLoad = {} /\ \A p \in Loaders : go[p].pc = "idle"
  BY <1>1, <1>2 DEF OneClone
<1>11. \A p \in Loaders : LoaderOK(p)' /\ go'[p].pc = "idle"
  BY <1>1, <1>7, <1>10, LoadersIdle
<1>12. \A d \in Disposers : ReleaseOK(d)' /\ (LeftOK(d) => LeftOK(d)')
  BY <1>2, <1>7, DisposerSame DEF Exact
<1>13. OneClone'
  <2>1. \A s \in Snapshots : life'[s] # "building"
    BY <1>1, <1>5, <1>6 DEF OneClone
  <2>2. \E m \in 1 .. Last + 1 : \A s \in Snapshots : life'[s] # "unborn" <=> s < m
    <3>1. PICK m \in 1 .. Last + 1 : \A s \in Snapshots : life[s] # "unborn" <=> s < m
      BY <1>1 DEF OneClone
    <3> QED BY <1>3, <1>5, <1>6, <3>1
  <2> QED BY <1>2, <1>5, <1>6, <1>7, <1>10, <1>11, <2>1, <2>2, NoWorkIs DEF OneClone
<1>14. OneDisposal'
  <2>1. \A d \in Disposers : go[d].pc = "release" => go[d].snap \in Snapshots
    BY <1>1, Goroutines DEF WellTyped, Works
  <2> QED BY <1>1, <1>3, <1>5, <1>6, <1>7, <2>1 DEF OneDisposal
<1>15. OneFile'
  BY <1>1, <1>8 DEF OneFile
<1>16. Loading' /\ Owning'
  BY <1>7, NoWorkIs DEF Loading, Owning
<1>17. \A s \in Snapshots : UsedBy(s)' = UsedBy(s)
  BY <1>2 DEF UsedBy
<1>18. \A s \in Snapshots : \A f \in ExtendedFiles : OwnsFile(s, f)' <=> OwnsFile(s, f)
  BY <1>8 DEF OwnsFile
<1>19. \A s \in Snapshots : UsedBy(s) \subseteq ExtendedFiles
  BY <1>4, FilesOf DEF UsedBy
<1>20. ASSUME NEW f \in UsedBy(n) PROVE OwnsFile(n, f)
  <2>1. /\ OwnsFile(current, f) \/ OwnsFile(New, f)
        /\ f \in Todo(Builder) \/ entries[f] = go[Builder].waiting \/ OwnsFile(New, f)
    BY <1>1, <1>2, <1>5, <1>20 DEF Owning
  <2>2. entries[f] # Nil /\ Todo(Builder) = {}
    BY <1>2, <2>1 DEF OwnsFile, Todo
  <2> QED BY <1>2, <1>5, <2>1, <2>2 DEF OwnsFile
<1>21. AllOwned'
  <2> SUFFICES ASSUME NEW s \in Snapshots, life'[s] = "live", NEW f \in UsedBy(s) PROVE OwnsFile(s, f)'
    BY <1>17 DEF AllOwned
  <2>1. OwnsFile(s, f)
    BY <1>1, <1>6, <1>20 DEF AllOwned
  <2> QED BY <1>18, <1>19, <2>1
<1>22. NoRest'
  <2> SUFFICES ASSUME ~MayDrop PROVE OnlyUsed' /\ \A d \in Disposers : LeftOK(d)'
    BY DEF NoRest
  <2>1. OnlyUsed /\ \A d \in Disposers : LeftOK(d)
    BY DEF Exact, NoRest
  <2>2. ASSUME NEW s \in Snapshots, NEW f \in ExtendedFiles, OwnsFile(s, f)'
        PROVE  life'[s] \notin {"unborn", "disposed"} /\ (life'[s] \in {"live", "building"} => f \in UsedBy(s)')
    <3>1. life[s] \notin {"unborn", "disposed"} /\ (life[s] \in {"live", "building"} => f \in UsedBy(s))
      BY <1>18, <2>1, <2>2 DEF OnlyUsed
    <3> QED BY <1>3, <1>5, <1>6, <1>17, <3>1
  <2>3. OnlyUsed'
    BY <2>2 DEF OnlyUsed
  <2> QED BY <1>12, <2>1, <2>3
<1>23. (~panicked)'
  BY <1>1, <1>2
<1> QED BY <1>9, <1>11, <1>12, <1>13, <1>14, <1>15, <1>16, <1>21, <1>22, <1>23 DEF Exact, Kept

-----------------------------------------------------------------------------
(* The steps of disposers.                                                      *)

\* A step of a disposer that leaves the cache as it is keeps the invariant if it keeps its
\* own obligations, and concerns a snapshot that is not the session's.
LEMMA DisposerSteps ==
  ASSUME Exact, Closed, NEW d \in Disposers, NEW w \in Works, go' = [go EXCEPT ![d] = w],
         UNCHANGED <<cacheVars, registry, current, toLoad, panicked>>,
         life' \in [Snapshots -> {"unborn", "building", "live", "disposing", "disposed"}],
         \A s \in Snapshots : life'[s] = life[s] \/
           (s # current /\ life[s] \in {"live", "disposing"} /\ life'[s] \in {"disposing", "disposed"}),
         OneDisposal', ReleaseOK(d)', ~MayDrop => OnlyUsed' /\ LeftOK(d)'
  PROVE  Exact'
<1>1. /\ WellTyped /\ OneClone /\ OneDisposal /\ OneFile /\ ~panicked
      /\ \A q \in Loaders : LoaderOK(q)
      /\ Loading /\ Owning /\ AllOwned
  BY DEF Exact, Kept
<1>2. go \in [Procs -> Works] /\ registry \in [Snapshots -> SUBSET Configs] /\ current \in Snapshots
  BY <1>1 DEF WellTyped
<1>3. /\ go'[d] = w /\ go'[Builder] = go[Builder] /\ (\A q \in Loaders : go'[q] = go[q])
      /\ \A e \in Disposers : e # d => go'[e] = go[e]
  BY <1>2, Goroutines
<1>4. entries' = entries /\ lockedBy' = lockedBy /\ owners' = owners
  BY DEF cacheVars
<1>5. New' = New
  BY <1>3 DEF New
<1>6. WellTyped'
  <2>1. go' \in [Procs -> Works]
    BY <1>2
  <2> QED BY <1>1, <1>4, <2>1 DEF WellTyped
<1>7. \A s \in Snapshots : \A f \in ExtendedFiles : OwnsFile(s, f)' <=> OwnsFile(s, f)
  BY <1>4 DEF OwnsFile
<1>8. \A q \in Loaders : LoaderOK(q)'
  <2> SUFFICES ASSUME NEW q \in Loaders PROVE LoaderOK(q)'
    OBVIOUS
  <2>1. \A f \in ExtendedFiles : OwnsFile(New, f) => OwnsFile(New, f)'
    BY <1>4, <1>5 DEF OwnsFile
  <2>2. Dead(go[q].waiting) => Dead(go[q].waiting)'
    BY <1>3, <1>4 DEF Dead
  <2> QED BY <1>1, <1>3, <1>4, <1>5, <2>1, <2>2, LoaderStays
<1>9. \A e \in Disposers : ReleaseOK(e)'
  <2> SUFFICES ASSUME NEW e \in Disposers, e # d PROVE ReleaseOK(e)'
    OBVIOUS
  <2> QED BY <1>3, DisposerSame DEF Exact
<1>10. OneClone'
  <2>1. \A s \in Snapshots : (life'[s] = "building" <=> life[s] = "building") /\ (life'[s] # "unborn" <=> life[s] # "unborn")
    OBVIOUS
  <2>2. life'[current] = "live"
    BY <1>1, <1>2 DEF OneClone
  <2>3. /\ go[Builder].pc \in {"idle", "load", "own"}
        /\ \A s \in Snapshots : life[s] = "building" <=> go[Builder].pc # "idle" /\ s = New
        /\ go[Builder].pc = "load" => toLoad \subseteq registry[New] /\ go[Builder].waiting = Nil
        /\ go[Builder].pc # "load" => toLoad = {} /\ \A p \in Loaders : go[p].pc = "idle"
        /\ go[Builder].pc = "idle" => go[Builder] = NoWork
        /\ \E n \in 1 .. Last + 1 : \A s \in Snapshots : life[s] # "unborn" <=> s < n
    BY <1>1 DEF OneClone
  <2> QED BY <1>3, <1>5, <2>1, <2>2, <2>3 DEF OneClone
<1>11. OneFile'
  BY <1>1, <1>4 DEF OneFile
<1>12. UsedBy(New)' = UsedBy(New) /\ \A s \in Snapshots : UsedBy(s)' = UsedBy(s)
  BY <1>5 DEF UsedBy
<1>13. \A f : (OwnsFile(New, f)' <=> OwnsFile(New, f)) /\ (OwnsFile(current, f)' <=> OwnsFile(current, f))
  BY <1>4, <1>5 DEF OwnsFile
<1>14. Loading'
  <2> SUFFICES ASSUME go[Builder].pc = "load", NEW c \in registry[New]
               PROVE  \/ c \in registry[current] \/ c \in toLoad
                      \/ \E p \in Loaders : go'[p].pc = "load" /\ go'[p].stack[1].file = c
                      \/ \A f \in Extends[c] : OwnsFile(New, f)'
    BY <1>3, <1>5 DEF Loading
  <2> QED BY <1>1, <1>3, <1>13 DEF Loading
<1>15. Owning'
  <2> SUFFICES ASSUME go[Builder].pc = "own"
               PROVE  /\ Todo(Builder) \subseteq UsedBy(New)
                      /\ \A f \in UsedBy(New) :
                           /\ OwnsFile(current, f)' \/ OwnsFile(New, f)'
                           /\ f \in Todo(Builder) \/ entries[f] = go[Builder].waiting \/ OwnsFile(New, f)'
                      /\ go[Builder].waiting # Nil => \E f \in UsedBy(New) : entries[f] = go[Builder].waiting
    BY <1>3, <1>4, <1>12 DEF Owning, Todo
  <2> QED BY <1>1, <1>13 DEF Owning
<1>16. AllOwned'
  <2> SUFFICES ASSUME NEW s \in Snapshots, life'[s] = "live", NEW f \in UsedBy(s) PROVE OwnsFile(s, f)'
    BY <1>12 DEF AllOwned
  <2>1. life[s] = "live"
    OBVIOUS
  <2>2. f \in ExtendedFiles
    BY <1>2, FilesOf DEF UsedBy
  <2> QED BY <1>1, <1>7, <2>1, <2>2 DEF AllOwned
<1>17. NoRest'
  <2> SUFFICES ASSUME ~MayDrop PROVE OnlyUsed' /\ \A e \in Disposers : LeftOK(e)'
    BY DEF NoRest
  <2>1. ASSUME NEW e \in Disposers, e # d PROVE LeftOK(e)'
    <3>1. LeftOK(e)
      BY DEF Exact, NoRest
    <3> QED BY <1>3, <2>1, <3>1, DisposerSame DEF Exact
  <2> QED BY <2>1
<1>18. (~panicked)'
  BY <1>1
<1> QED BY <1>6, <1>8, <1>9, <1>10, <1>11, <1>14, <1>15, <1>16, <1>17, <1>18 DEF Exact, Kept

\* A snapshot that is not the session's is disposed of.
LEMMA StartDisposeOK == ASSUME Exact, Closed, NEW d \in Disposers, StartDispose(d) PROVE Exact'
<1>1. WellTyped /\ OneDisposal /\ AllOwned
  BY DEF Exact, Kept
<1>2. PICK s \in Snapshots :
       /\ life[s] = "live" /\ s # current
       /\ life' = [life EXCEPT ![s] = "disposing"]
       /\ go' = [go EXCEPT ![d] = [NoWork EXCEPT !.pc = "release", !.snap = s, !.todo = UsesOf(s)]]
  BY DEF StartDispose
<1>3. go[d].pc = "idle" /\ UNCHANGED <<cacheVars, registry, current, toLoad, panicked>>
  BY DEF StartDispose
<1> DEFINE w == [NoWork EXCEPT !.pc = "release", !.snap = s, !.todo = UsesOf(s)]
<1>4. registry[s] \in SUBSET Configs /\ go \in [Procs -> Works] /\ d \in Procs
      /\ life \in [Snapshots -> {"unborn", "building", "live", "disposing", "disposed"}]
  BY <1>1, Goroutines DEF WellTyped
<1>5. UsesOf(s) \subseteq Configs \X ExtendedFiles /\ {u[2] : u \in UsesOf(s)} = UsedBy(s)
  BY <1>4, UsesInIs DEF UsesOf, UsedBy
<1>6. /\ w \in Works /\ w.pc = "release" /\ w.snap = s /\ w.todo = UsesOf(s) /\ w.waiting = Nil
  <2>1. PICK todo \in SUBSET (Configs \X ExtendedFiles) : todo = UsesOf(s)
    BY <1>5
  <2>2. w = [NoWork EXCEPT !.pc = "release", !.snap = s, !.todo = todo]
    BY <2>1
  <2> HIDE DEF w
  <2> QED BY <2>1, <2>2, NoWorkIs DEF Works
<1>7. go' = [go EXCEPT ![d] = w]
  BY <1>2
<1> HIDE DEF w
<1>8. go'[d] = w /\ \A e \in Disposers : e # d => go'[e] = go[e]
  BY <1>4, <1>7, Goroutines
<1>9. entries' = entries /\ owners' = owners
  BY <1>3 DEF cacheVars
<1>10. life'[s] = "disposing" /\ \A r \in Snapshots : r # s => life'[r] = life[r]
  BY <1>2, <1>4
<1>11. life' \in [Snapshots -> {"unborn", "building", "live", "disposing", "disposed"}]
  BY <1>2, <1>4
<1>12. OneDisposal'
  <2>1. \A e \in Disposers : e # d /\ go[e].pc = "release" =>
          go[e].snap # s /\ go[e].snap \in Snapshots /\ life'[go[e].snap] = "disposing"
    BY <1>1, <1>2, <1>4, <1>10, Goroutines DEF OneDisposal, Works
  <2>2. \A e \in Disposers : go'[e].pc \in {"idle", "release"} /\ (go'[e].pc = "idle" => go'[e] = NoWork)
    BY <1>1, <1>6, <1>8 DEF OneDisposal
  <2>3. \A e \in Disposers : go'[e].pc = "release" => life'[go'[e].snap] = "disposing"
    BY <1>6, <1>8, <1>10, <2>1
  <2>4. \A e, g \in Disposers : go'[e].pc = "release" /\ go'[g].pc = "release" /\ go'[e].snap = go'[g].snap => e = g
    BY <1>1, <1>6, <1>8, <2>1 DEF OneDisposal
  <2> QED BY <2>2, <2>3, <2>4 DEF OneDisposal
<1>13. Todo(d)' = UsedBy(s)
  BY <1>5, <1>6, <1>8 DEF Todo
<1>14. ReleaseOK(d)'
  <2>1. UsesOf(s)' = UsesOf(s)
    BY <1>3 DEF UsesOf
  <2>2. \A f \in UsedBy(s) : OwnsFile(s, f)
    BY <1>1, <1>2 DEF AllOwned
  <2>3. \A f \in UsedBy(s) : OwnsFile(s, f)'
    BY <1>9, <2>2 DEF OwnsFile
  <2>4. go'[d].todo \subseteq UsesOf(go[d].snap)'
    BY <1>3, <1>6, <1>8 DEF UsesOf
  <2>5. go'[d].snap = s /\ go'[d].waiting = Nil
    BY <1>6, <1>8
  <2>6. \A f \in UsedBy(s) : OwnsFile(go[d].snap, f)'
    BY <1>6, <1>8, <2>3 DEF OwnsFile
  <2> QED BY <1>13, <2>4, <2>5, <2>6 DEF ReleaseOK
<1>15. ASSUME ~MayDrop PROVE OnlyUsed' /\ LeftOK(d)'
  <2>1. OnlyUsed
    BY <1>15 DEF Exact, NoRest
  <2>2. \A r \in Snapshots : UsedBy(r)' = UsedBy(r)
    BY <1>3 DEF UsedBy
  <2>3. \A r \in Snapshots : \A f \in ExtendedFiles : OwnsFile(r, f)' <=> OwnsFile(r, f)
    BY <1>9 DEF OwnsFile
  <2>4. ASSUME NEW r \in Snapshots, NEW f \in ExtendedFiles, OwnsFile(r, f)'
        PROVE  life'[r] \notin {"unborn", "disposed"} /\ (life'[r] \in {"live", "building"} => f \in UsedBy(r)')
    <3>1. life[r] \notin {"unborn", "disposed"} /\ (life[r] \in {"live", "building"} => f \in UsedBy(r))
      BY <2>1, <2>3, <2>4 DEF OnlyUsed
    <3> QED BY <1>10, <2>2, <3>1
  <2>5. OnlyUsed'
    BY <2>4 DEF OnlyUsed
  <2>6. ASSUME NEW f \in ExtendedFiles, OwnsFile(go[d].snap, f)' PROVE f \in UsedBy(s)
    <3>1. OwnsFile(s, f)
      BY <1>6, <1>8, <1>9, <2>6 DEF OwnsFile
    <3> QED BY <1>2, <2>1, <3>1 DEF OnlyUsed
  <2>7. LeftOK(d)'
    BY <1>13, <2>6 DEF LeftOK
  <2> QED BY <2>5, <2>7
<1>16. \A r \in Snapshots : life'[r] = life[r] \/
         (r # current /\ life[r] \in {"live", "disposing"} /\ life'[r] \in {"disposing", "disposed"})
  BY <1>2, <1>10
<1> QED BY <1>3, <1>6, <1>7, <1>11, <1>12, <1>14, <1>15, <1>16, DisposerSteps

\* Release looks an entry up: an owner that has still to be taken away is found.
LEMMA ReleaseLookupOK == ASSUME Exact, Closed, NEW d \in Disposers, ReleaseLookup(d) PROVE Exact'
<1>1. WellTyped /\ OneDisposal /\ OneFile /\ ReleaseOK(d)
  BY DEF Exact, Kept
<1>2. PICK u \in go[d].todo :
        go' = [go EXCEPT ![d].todo = @ \ {u}, ![d].waiting = entries[u[2]],
                         ![d].file = IF entries[u[2]] = Nil THEN Nil ELSE u[2]]
  BY DEF ReleaseLookup
<1>3. /\ go[d].pc = "release" /\ go[d].waiting = Nil
      /\ UNCHANGED <<cacheVars, registry, life, current, toLoad, panicked>>
      /\ entries' = entries /\ owners' = owners
  BY DEF ReleaseLookup, snapVars, cacheVars
<1>4. PICK f : f = u[2]
  OBVIOUS
<1>5. d \in Procs /\ go[d] \in Works /\ go \in [Procs -> Works]
      /\ registry \in [Snapshots -> SUBSET Configs]
      /\ life \in [Snapshots -> {"unborn", "building", "live", "disposing", "disposed"}]
  BY <1>1, Goroutines DEF WellTyped
<1>6. go[d].snap \in Snapshots /\ go[d].todo \in SUBSET (Configs \X ExtendedFiles) /\ go[d].todo \subseteq UsesOf(go[d].snap)
  BY <1>1, <1>5 DEF Works, ReleaseOK
<1>7. f \in ExtendedFiles /\ f \in Todo(d)
  BY <1>2, <1>4, <1>6 DEF Todo
<1>8. entries[f] \in Entries \cup {Nil}
  BY <1>1, <1>7 DEF WellTyped
<1> DEFINE w == [go[d] EXCEPT !.todo = @ \ {u}, !.waiting = entries[f], !.file = IF entries[f] = Nil THEN Nil ELSE f]
<1>9. /\ w \in Works /\ w.pc = "release" /\ w.snap = go[d].snap /\ w.todo = go[d].todo \ {u}
      /\ w.waiting = entries[f] /\ w.file = IF entries[f] = Nil THEN Nil ELSE f
  BY <1>3, <1>5, <1>6, <1>7, <1>8 DEF Works
<1>10. go' = [go EXCEPT ![d] = w]
  BY <1>2, <1>4
<1> HIDE DEF w
<1>11. go'[d] = w /\ \A e \in Disposers : e # d => go'[e] = go[e]
  BY <1>5, <1>10, Goroutines
<1>12. OneDisposal'
  <2>1. \A e \in Disposers : go'[e].pc = go[e].pc /\ go'[e].snap = go[e].snap
    BY <1>3, <1>9, <1>11
  <2>2. \A e \in Disposers : go'[e].pc = "idle" => go'[e] = NoWork
    BY <1>1, <1>9, <1>11 DEF OneDisposal
  <2> QED BY <1>1, <1>3, <2>1, <2>2 DEF OneDisposal
<1>13. PICK s : s = go[d].snap
  OBVIOUS
<1>14. \A g : (OwnsFile(go[d].snap, g)' <=> OwnsFile(s, g)) /\ (OwnsFile(go[d].snap, g) <=> OwnsFile(s, g))
  BY <1>3, <1>9, <1>11, <1>13 DEF OwnsFile
<1>15. Todo(d)' \subseteq Todo(d) /\ Todo(d) \subseteq Todo(d)' \cup {f} /\ Todo(d) \subseteq ExtendedFiles
  BY <1>4, <1>6, <1>9, <1>11 DEF Todo
<1>16. ReleaseOK(d)'
  <2>1. go'[d].todo \subseteq UsesOf(go[d].snap)'
    BY <1>3, <1>6, <1>9, <1>11 DEF UsesOf
  <2>2. ASSUME Once PROVE /\ \A g \in Todo(d) : OwnsFile(s, g)
                          /\ f \notin Todo(d)'
    <3>1. \A g \in Todo(d) : OwnsFile(s, g)
      BY <1>1, <1>14, <2>2 DEF ReleaseOK
    <3>2. ASSUME f \in Todo(d)' PROVE FALSE
      <4>1. PICK v \in go[d].todo \ {u} : v[2] = f
        BY <1>9, <1>11, <3>2 DEF Todo
      <4>2. u \in UsesIn(registry[s]) /\ v \in UsesIn(registry[s])
        BY <1>2, <1>6, <1>13, <4>1 DEF UsesOf
      <4>3. registry[s] \in SUBSET Configs
        BY <1>5, <1>6, <1>13
      <4>4. /\ u[1] \in Configs /\ u[2] \in Uses(u[1]) /\ u = <<u[1], u[2]>>
            /\ v[1] \in Configs /\ v[2] \in Uses(v[1]) /\ v = <<v[1], v[2]>>
        BY <4>2, <4>3, UsesInIs
      <4>5. u[1] = v[1]
        BY <1>4, <2>2, <4>1, <4>4 DEF Once
      <4> QED BY <1>4, <4>1, <4>4, <4>5
    <3> QED BY <3>1, <3>2
  <2>3. Once => \A g \in Todo(d)' : OwnsFile(go[d].snap, g)'
    BY <1>14, <1>15, <2>2
  <2>4. ASSUME go'[d].waiting # Nil
        PROVE  /\ go'[d].pc = "release" /\ go'[d].file \in ExtendedFiles /\ entries'[go'[d].file] = go'[d].waiting
               /\ Once => OwnsFile(go[d].snap, go[d].file)' /\ go'[d].file \notin Todo(d)'
    <3>1. entries[f] # Nil /\ go'[d].file = f
      BY <1>9, <1>11, <2>4
    <3>2. ASSUME Once PROVE OwnsFile(go[d].snap, go[d].file)'
      <4>1. OwnsFile(s, f)
        BY <1>7, <2>2, <3>2
      <4> QED BY <1>3, <1>9, <1>11, <1>13, <3>1, <4>1 DEF OwnsFile
    <3> QED BY <1>3, <1>7, <1>9, <1>11, <2>2, <3>1, <3>2
  <2> QED BY <2>1, <2>3, <2>4 DEF ReleaseOK, Once
<1>17. ASSUME ~MayDrop PROVE OnlyUsed' /\ LeftOK(d)'
  <2>1. OnlyUsed /\ LeftOK(d)
    BY <1>17 DEF Exact, NoRest
  <2>2. \A r \in Snapshots : UsedBy(r)' = UsedBy(r)
    BY <1>3 DEF UsedBy
  <2>3. \A r \in Snapshots : \A g \in ExtendedFiles : OwnsFile(r, g)' <=> OwnsFile(r, g)
    BY <1>3 DEF OwnsFile
  <2>4. OnlyUsed'
    BY <1>3, <2>1, <2>2, <2>3 DEF OnlyUsed
  <2>5. ASSUME NEW g \in ExtendedFiles, OwnsFile(go[d].snap, g)' PROVE g \in Todo(d)' \/ go'[d].waiting = entries'[g]
    <3>1. OwnsFile(s, g)
      BY <1>14, <2>5
    <3>2. g \in Todo(d) \/ Nil = entries[g]
      BY <1>3, <1>14, <2>1, <3>1 DEF LeftOK
    <3>3. g \in Todo(d)
      BY <3>1, <3>2 DEF OwnsFile
    <3> QED BY <1>3, <1>9, <1>11, <1>15, <3>3
  <2>6. LeftOK(d)'
    BY <2>5 DEF LeftOK
  <2> QED BY <2>4, <2>6
<1> QED BY <1>3, <1>5, <1>9, <1>10, <1>12, <1>16, <1>17, DisposerSteps

\* A snapshot has been disposed of, and owns nothing.
LEMMA FinishDisposeOK == ASSUME Exact, Closed, NEW d \in Disposers, FinishDispose(d) PROVE Exact'
<1>1. WellTyped /\ OneClone /\ OneDisposal /\ ReleaseOK(d)
  BY DEF Exact, Kept
<1>2. PICK s : s = go[d].snap
  OBVIOUS
<1>3. /\ go[d].pc = "release" /\ go[d].waiting = Nil /\ go[d].todo = {}
      /\ life' = [life EXCEPT ![s] = "disposed"] /\ go' = [go EXCEPT ![d] = NoWork]
      /\ UNCHANGED <<cacheVars, registry, current, toLoad, panicked>>
      /\ entries' = entries /\ owners' = owners
  BY <1>2 DEF FinishDispose, cacheVars
<1>4. d \in Procs /\ go[d] \in Works /\ go \in [Procs -> Works]
      /\ life \in [Snapshots -> {"unborn", "building", "live", "disposing", "disposed"}]
  BY <1>1, Goroutines DEF WellTyped
<1>5. s \in Snapshots /\ life[s] = "disposing" /\ s # current
  BY <1>1, <1>2, <1>3, <1>4 DEF Works, OneDisposal, OneClone
<1>6. life'[s] = "disposed" /\ \A r \in Snapshots : r # s => life'[r] = life[r]
  BY <1>3, <1>4, <1>5
<1>7. life' \in [Snapshots -> {"unborn", "building", "live", "disposing", "disposed"}]
  BY <1>3, <1>4
<1>8. go'[d] = NoWork /\ \A e \in Disposers : e # d => go'[e] = go[e]
  BY <1>3, <1>4, Goroutines
<1>9. OneDisposal'
  <2>1. \A e \in Disposers : e # d /\ go[e].pc = "release" =>
          go[e].snap # s /\ go[e].snap \in Snapshots /\ life'[go[e].snap] = "disposing"
    BY <1>1, <1>2, <1>3, <1>4, <1>6, Goroutines DEF OneDisposal, Works
  <2>2. \A e \in Disposers : go'[e].pc \in {"idle", "release"} /\ (go'[e].pc = "idle" => go'[e] = NoWork)
    BY <1>1, <1>8, NoWorkIs DEF OneDisposal
  <2>3. \A e \in Disposers : go'[e].pc = "release" => e # d /\ go'[e] = go[e]
    BY <1>8, NoWorkIs
  <2> QED BY <1>1, <2>1, <2>2, <2>3 DEF OneDisposal
<1>10. ReleaseOK(d)'
  <2>1. go'[d].todo = {} /\ go'[d].waiting = Nil
    BY <1>8, NoWorkIs
  <2>2. Todo(d)' = {}
    BY <2>1 DEF Todo
  <2> QED BY <2>1, <2>2 DEF ReleaseOK
<1>11. ASSUME ~MayDrop PROVE OnlyUsed' /\ LeftOK(d)'
  <2>1. OnlyUsed /\ LeftOK(d)
    BY <1>11 DEF Exact, NoRest
  <2>2. ASSUME NEW r \in Snapshots, NEW f \in ExtendedFiles, OwnsFile(r, f)'
        PROVE  life'[r] \notin {"unborn", "disposed"} /\ (life'[r] \in {"live", "building"} => f \in UsedBy(r)')
    <3>1. OwnsFile(r, f)
      BY <1>3, <2>2 DEF OwnsFile
    <3>2. life[r] \notin {"unborn", "disposed"} /\ (life[r] \in {"live", "building"} => f \in UsedBy(r))
      BY <2>1, <3>1 DEF OnlyUsed
    <3>3. ASSUME r = s PROVE FALSE
      <4>1. f \in Todo(d) \/ Nil = entries[f]
        BY <1>2, <1>3, <2>1, <3>1, <3>3 DEF LeftOK
      <4> QED BY <1>3, <3>1, <4>1 DEF Todo, OwnsFile
    <3>4. life'[r] = life[r] /\ UsedBy(r)' = UsedBy(r)
      BY <1>3, <1>6, <3>3 DEF UsedBy
    <3> QED BY <3>2, <3>4
  <2>3. OnlyUsed'
    BY <2>2 DEF OnlyUsed
  <2>4. LeftOK(d)'
    BY <1>8, NoWorkIs DEF LeftOK
  <2> QED BY <2>3, <2>4
<1>12. \A r \in Snapshots : life'[r] = life[r] \/
         (r # current /\ life[r] \in {"live", "disposing"} /\ life'[r] \in {"disposing", "disposed"})
  BY <1>5, <1>6
<1>13. go' = [go EXCEPT ![d] = NoWork]
  BY <1>3
<1> QED BY <1>3, <1>7, <1>9, <1>10, <1>11, <1>12, <1>13, NoWorkIs, DisposerSteps

\* What Release does to the cache: snapshot s is no owner of file h any more, whose entry
\* goes if nobody else owns it; nothing else changes.
LEMMA ReleasedIs ==
  ASSUME WellTyped, OneFile, NEW d \in Disposers, ReleaseEntry(d), ReleaseOK(d),
         NEW s \in Snapshots, s = go[d].snap, NEW h, h = go[d].file, NEW e, e = go[d].waiting
  PROVE  /\ go[d].pc = "release" /\ h \in ExtendedFiles /\ e \in Entries /\ entries[h] = e /\ lockedBy[e] = Nil
         /\ \A f \in ExtendedFiles : f # h => entries'[f] = entries[f] /\ entries[f] # e
         /\ entries'[h] = e \/ (entries'[h] = Nil /\ owners'[e] = {})
         /\ \A r \in Snapshots : \A f \in ExtendedFiles : r # s => (OwnsFile(r, f)' <=> OwnsFile(r, f))
         /\ \A f \in ExtendedFiles : OwnsFile(s, f)' <=> OwnsFile(s, f) /\ f # h
         /\ \A r \in Snapshots : \A f \in ExtendedFiles : OwnsFile(r, f)' => entries'[f] = entries[f]
         /\ OneFile' /\ entries' \in [ExtendedFiles -> Entries \cup {Nil}] /\ owners' \in [Entries -> SUBSET Snapshots]
         /\ \A x \in Entries : owners'[x] \subseteq owners[x]
<1>1. /\ go[d].pc = "release" /\ e # Nil /\ lockedBy[e] = Nil
      /\ owners' = [owners EXCEPT ![e] = owners[e] \ {s}]
      /\ entries' = (IF owners[e] \ {s} = {} THEN [entries EXCEPT ![h] = Nil] ELSE entries)
  BY DEF ReleaseEntry, CanLock, Remaining
<1>2. h \in ExtendedFiles /\ entries[h] = e
  BY <1>1 DEF ReleaseOK
<1>3. entries \in [ExtendedFiles -> Entries \cup {Nil}] /\ owners \in [Entries -> SUBSET Snapshots]
  BY DEF WellTyped
<1>4. e \in Entries /\ Nil \notin Entries
  BY <1>1, <1>2, <1>3, FilesOf
<1>5. \A f \in ExtendedFiles : f # h => entries'[f] = entries[f] /\ entries[f] # e
  BY <1>1, <1>2, <1>3 DEF OneFile
<1>6. owners'[e] = owners[e] \ {s} /\ \A x \in Entries : x # e => owners'[x] = owners[x]
  BY <1>1, <1>3, <1>4
<1>7. entries'[h] = IF owners[e] \ {s} = {} THEN Nil ELSE e
  BY <1>1, <1>2, <1>3
<1>8. entries' \in [ExtendedFiles -> Entries \cup {Nil}] /\ owners' \in [Entries -> SUBSET Snapshots]
  BY <1>1, <1>2, <1>3, <1>4
<1>9. ASSUME NEW r \in Snapshots, NEW f \in ExtendedFiles
      PROVE  /\ r # s => (OwnsFile(r, f)' <=> OwnsFile(r, f))
             /\ r = s => (OwnsFile(r, f)' <=> OwnsFile(r, f) /\ f # h)
             /\ OwnsFile(r, f)' => entries'[f] = entries[f]
  <2>1. CASE f = h
    BY <1>2, <1>4, <1>6, <1>7, <2>1 DEF OwnsFile
  <2>2. CASE f # h
    <3>1. entries'[f] = entries[f] /\ entries[f] # e /\ entries[f] \in Entries \cup {Nil}
      BY <1>3, <1>5, <2>2
    <3>2. entries[f] # Nil => owners'[entries[f]] = owners[entries[f]]
      BY <1>6, <3>1
    <3> QED BY <2>2, <3>1, <3>2 DEF OwnsFile
  <2> QED BY <2>1, <2>2
<1>10. OneFile'
  <2>1. \A f \in ExtendedFiles : entries'[f] # Nil => entries'[f] = entries[f]
    BY <1>2, <1>5, <1>7
  <2> QED BY <2>1 DEF OneFile
<1> QED BY <1>1, <1>2, <1>4, <1>5, <1>6, <1>7, <1>8, <1>9, <1>10

\* An owner is taken away: nobody else loses what he relies on.
LEMMA ReleaseEntryOK == ASSUME Exact, Careful, NEW d \in Disposers, ReleaseEntry(d) PROVE Exact'
<1>1. /\ WellTyped /\ OneClone /\ OneDisposal /\ OneFile /\ ~panicked
      /\ \A q \in Loaders : LoaderOK(q)
      /\ \A c \in Disposers : ReleaseOK(c)
      /\ Loading /\ Owning /\ AllOwned
  BY DEF Exact, Kept
<1>2. d \in Procs /\ go[d] \in Works /\ go \in [Procs -> Works] /\ current \in Snapshots
      /\ registry \in [Snapshots -> SUBSET Configs]
  BY <1>1, Goroutines DEF WellTyped
<1>3. PICK s \in Snapshots : s = go[d].snap
  BY <1>2 DEF Works
<1>4. PICK h, e : h = go[d].file /\ e = go[d].waiting
  OBVIOUS
<1>5. /\ go[d].pc = "release" /\ h \in ExtendedFiles /\ e \in Entries /\ entries[h] = e /\ lockedBy[e] = Nil
      /\ \A f \in ExtendedFiles : f # h => entries'[f] = entries[f] /\ entries[f] # e
      /\ entries'[h] = e \/ (entries'[h] = Nil /\ owners'[e] = {})
  BY <1>1, <1>3, <1>4, ReleasedIs
<1>6. /\ \A r \in Snapshots : \A f \in ExtendedFiles : r # s => (OwnsFile(r, f)' <=> OwnsFile(r, f))
      /\ \A f \in ExtendedFiles : OwnsFile(s, f)' <=> OwnsFile(s, f) /\ f # h
      /\ \A r \in Snapshots : \A f \in ExtendedFiles : OwnsFile(r, f)' => entries'[f] = entries[f]
  BY <1>1, <1>3, <1>4, ReleasedIs
<1>7. /\ OneFile' /\ entries' \in [ExtendedFiles -> Entries \cup {Nil}] /\ owners' \in [Entries -> SUBSET Snapshots]
      /\ \A x \in Entries : owners'[x] \subseteq owners[x]
  BY <1>1, <1>3, <1>4, ReleasedIs
<1>8. /\ go' = [go EXCEPT ![d].waiting = Nil, ![d].file = Nil]
      /\ lockedBy' = lockedBy /\ UNCHANGED <<registry, life, current, toLoad, panicked>>
  BY DEF ReleaseEntry, snapVars
<1> DEFINE w == [go[d] EXCEPT !.waiting = Nil, !.file = Nil]
<1>9. /\ w \in Works /\ w.pc = "release" /\ w.snap = s /\ w.todo = go[d].todo /\ w.waiting = Nil
      /\ go' = [go EXCEPT ![d] = w]
  BY <1>2, <1>3, <1>5, <1>8 DEF Works
<1> HIDE DEF w
<1>10. /\ go'[d] = w /\ go'[Builder] = go[Builder] /\ (\A q \in Loaders : go'[q] = go[q])
       /\ \A c \in Disposers : c # d => go'[c] = go[c]
  BY <1>2, <1>9, Goroutines
<1>11. New' = New /\ \A r \in Snapshots : UsedBy(r)' = UsedBy(r)
  BY <1>8, <1>10 DEF New, UsedBy
<1>12. \A r \in Snapshots : UsedBy(r) \subseteq ExtendedFiles
  BY <1>2, FilesOf DEF UsedBy
<1>13. life[s] = "disposing" /\ s # current
  BY <1>1, <1>3, <1>5 DEF OneDisposal, OneClone
<1>14. go[Builder].pc # "idle" => New \in Snapshots /\ New # s
  BY <1>1, <1>3, <1>5, NewIsNew
<1>15. WellTyped'
  <2>1. go' \in [Procs -> Works]
    BY <1>2, <1>9
  <2> QED BY <1>1, <1>7, <1>8, <2>1 DEF WellTyped
<1>16. OneClone'
  <2>1. /\ go[Builder].pc \in {"idle", "load", "own"}
        /\ \A r \in Snapshots : life[r] = "building" <=> go[Builder].pc # "idle" /\ r = New
        /\ life[current] = "live"
        /\ go[Builder].pc = "load" => toLoad \subseteq registry[New] /\ go[Builder].waiting = Nil
        /\ go[Builder].pc # "load" => toLoad = {} /\ \A p \in Loaders : go[p].pc = "idle"
        /\ go[Builder].pc = "idle" => go[Builder] = NoWork
        /\ \E n \in 1 .. Last + 1 : \A r \in Snapshots : life[r] # "unborn" <=> r < n
    BY <1>1 DEF OneClone
  <2> QED BY <1>8, <1>10, <1>11, <2>1 DEF OneClone
<1>17. OneDisposal'
  <2>1. \A c \in Disposers : go'[c].pc = go[c].pc /\ go'[c].snap = go[c].snap
    BY <1>3, <1>5, <1>9, <1>10
  <2>2. \A c \in Disposers : go'[c].pc = "idle" => go'[c] = NoWork
    BY <1>1, <1>9, <1>10 DEF OneDisposal
  <2>3. \A c \in Disposers : go'[c].pc \in {"idle", "release"}
    BY <1>1, <2>1 DEF OneDisposal
  <2>4. \A c \in Disposers : go'[c].pc = "release" => life'[go'[c].snap] = "disposing"
    BY <1>1, <1>8, <2>1 DEF OneDisposal
  <2>5. \A c, b \in Disposers : go'[c].pc = "release" /\ go'[b].pc = "release" /\ go'[c].snap = go'[b].snap => c = b
    BY <1>1, <2>1 DEF OneDisposal
  <2> QED BY <2>2, <2>3, <2>4, <2>5 DEF OneDisposal
<1>18. ASSUME NEW q \in Loaders PROVE LoaderOK(q)'
  <2>1. CASE go[q].pc = "idle"
    BY <1>1, <1>10, <2>1, NoWorkIs DEF LoaderOK
  <2>2. CASE go[q].pc # "idle"
    <3>1. go[Builder].pc = "load"
      BY <1>1, <2>2 DEF OneClone
    <3>2. \A f \in ExtendedFiles : entries[f] \in Entries /\ lockedBy[entries[f]] = q =>
            entries'[f] = entries[f] /\ lockedBy'[entries[f]] = q
      <4>1. q # Nil
        BY Goroutines
      <4> QED BY <1>5, <1>8, <4>1
    <3>3. \A f \in ExtendedFiles : OwnsFile(New, f) => OwnsFile(New, f)'
      <4>1. \A r \in Snapshots : \A f \in ExtendedFiles : r # s /\ OwnsFile(r, f) => entries'[f] # Nil /\ r \in owners'[entries'[f]]
        BY <1>6 DEF OwnsFile
      <4> QED BY <1>11, <1>14, <3>1, <4>1 DEF OwnsFile
    <3>4. ASSUME NEW f \in ExtendedFiles, entries[f] = go[q].waiting, entries[f] # Nil
          PROVE  entries'[f] = go[q].waiting \/ Dead(go[q].waiting)'
      <4>1. CASE f # h \/ entries'[h] = e
        BY <1>5, <3>4, <4>1
      <4>2. CASE f = h /\ entries'[h] = Nil /\ owners'[e] = {}
        <5>1. go'[q].waiting = e
          BY <1>5, <1>10, <3>4, <4>2
        <5>2. \A g \in ExtendedFiles : entries'[g] # e
          BY <1>5, <4>2, FilesOf
        <5> QED BY <4>2, <5>1, <5>2 DEF Dead
      <4> QED BY <1>5, <4>1, <4>2
    <3>5. Dead(go[q].waiting) /\ go[q].waiting \in Entries => Dead(go[q].waiting)'
      <4> SUFFICES ASSUME Dead(go[q].waiting), go[q].waiting \in Entries PROVE Dead(go[q].waiting)'
        OBVIOUS
      <4>1. owners'[go[q].waiting] = {}
        BY <1>7 DEF Dead
      <4>2. \A g \in ExtendedFiles : entries'[g] # go[q].waiting
        BY <1>5, FilesOf DEF Dead
      <4> QED BY <1>10, <4>1, <4>2 DEF Dead
    <3>6. go'[q] = go[q] /\ New' = New /\ registry'[New] = registry[New]
      BY <1>8, <1>10, <1>11
    <3> QED BY <1>1, <3>2, <3>3, <3>4, <3>5, <3>6, LoaderStays
  <2> QED BY <2>1, <2>2
<1>19. Todo(d)' = Todo(d) /\ Todo(d) \subseteq ExtendedFiles
  BY <1>2, <1>9, <1>10 DEF Todo, Works
<1>20. ReleaseOK(d)'
  <2>1. go[d].todo \subseteq UsesOf(go[d].snap)
    BY <1>1 DEF ReleaseOK
  <2>2. go'[d].todo \subseteq UsesOf(go[d].snap)'
    BY <1>3, <1>8, <1>9, <1>10, <2>1 DEF UsesOf
  <2>3. ASSUME Once, NEW f \in Todo(d) PROVE OwnsFile(go[d].snap, f)'
    <3>1. OwnsFile(go[d].snap, f) /\ f # h
      BY <1>1, <1>4, <1>5, <2>3, FilesOf DEF ReleaseOK
    <3>2. f \in ExtendedFiles
      BY <1>19
    <3>3. OwnsFile(s, f)
      BY <1>3, <3>1 DEF OwnsFile
    <3>4. OwnsFile(s, f)'
      BY <1>6, <3>1, <3>2, <3>3
    <3> QED BY <1>9, <1>10, <3>4 DEF OwnsFile
  <2> QED BY <1>9, <1>10, <1>19, <2>2, <2>3 DEF ReleaseOK, Once
<1>21. ASSUME NEW c \in Disposers, c # d, go[c].pc = "release"
       PROVE  go[c].snap \in Snapshots /\ go[c].snap # s /\ go'[c] = go[c]
  <2>1. go[c].snap \in Snapshots
    BY <1>1, Goroutines DEF WellTyped, Works
  <2> QED BY <1>1, <1>3, <1>5, <1>10, <1>21, <2>1 DEF OneDisposal
<1>22. ASSUME NEW c \in Disposers, c # d PROVE ReleaseOK(c)'
  <2>1. CASE go[c].pc # "release"
    <3>1. go'[c].todo = {} /\ go'[c].waiting = Nil
      BY <1>1, <1>10, <1>22, <2>1, NoWorkIs DEF OneDisposal
    <3>2. Todo(c)' = {}
      BY <3>1 DEF Todo
    <3> QED BY <3>1, <3>2 DEF ReleaseOK
  <2>2. CASE go[c].pc = "release"
    <3>1. go[c].snap \in Snapshots /\ go[c].snap # s /\ go'[c] = go[c]
      BY <1>21, <1>22, <2>2
    <3>2. PICK r \in Snapshots : r = go[c].snap
      BY <3>1
    <3>3. Once
      BY <1>22 DEF Careful, Apart, Once
    <3>4. go[c].waiting # Nil => entries'[go[c].file] = entries[go[c].file]
      <4> SUFFICES ASSUME go[c].waiting # Nil PROVE entries'[go[c].file] = entries[go[c].file]
        OBVIOUS
      <4>1. go[c].file \in ExtendedFiles /\ OwnsFile(go[c].snap, go[c].file)
        BY <1>1, <3>3 DEF ReleaseOK
      <4>2. PICK f \in ExtendedFiles : f = go[c].file
        BY <4>1
      <4>3. OwnsFile(r, f)
        BY <3>2, <4>1, <4>2
      <4> QED BY <1>6, <3>1, <3>2, <4>2, <4>3
    <3>5. \A f \in ExtendedFiles : OwnsFile(go[c].snap, f) => OwnsFile(go[c].snap, f)'
      <4>1. \A f \in ExtendedFiles : OwnsFile(r, f) => entries'[f] # Nil /\ r \in owners'[entries'[f]]
        BY <1>6, <3>1, <3>2 DEF OwnsFile
      <4> QED BY <3>1, <3>2, <4>1 DEF OwnsFile
    <3>6. go[c].todo \subseteq UsesOf(go[c].snap) => go'[c].todo \subseteq UsesOf(go[c].snap)'
      BY <1>8, <3>1 DEF UsesOf
    <3> QED BY <1>1, <3>1, <3>4, <3>5, <3>6, DisposerStays
  <2> QED BY <2>1, <2>2
<1>23. Loading'
  <2> SUFFICES ASSUME go[Builder].pc = "load", NEW c \in registry[New]
               PROVE  \/ c \in registry[current] \/ c \in toLoad
                      \/ \E p \in Loaders : go'[p].pc = "load" /\ go'[p].stack[1].file = c
                      \/ \A f \in Extends[c] : OwnsFile(New, f)'
    BY <1>8, <1>10, <1>11 DEF Loading
  <2>1. New \in Snapshots /\ New # s
    BY <1>14
  <2>2. Extends[c] \subseteq ExtendedFiles
    BY <1>2, <2>1, FilesOf
  <2>3. \A r \in Snapshots : \A f \in ExtendedFiles : r # s /\ OwnsFile(r, f) => entries'[f] # Nil /\ r \in owners'[entries'[f]]
    BY <1>6 DEF OwnsFile
  <2>4. ASSUME \A f \in Extends[c] : OwnsFile(New, f) PROVE \A f \in Extends[c] : OwnsFile(New, f)'
    BY <1>11, <2>1, <2>2, <2>3, <2>4 DEF OwnsFile
  <2>5. \/ c \in registry[current] \/ c \in toLoad
        \/ \E p \in Loaders : go[p].pc = "load" /\ go[p].stack[1].file = c
        \/ \A f \in Extends[c] : OwnsFile(New, f)
    BY <1>1 DEF Loading
  <2> QED BY <1>10, <2>4, <2>5
<1>24. Owning'
  <2> SUFFICES ASSUME go[Builder].pc = "own"
               PROVE  /\ Todo(Builder) \subseteq UsedBy(New)
                      /\ \A f \in UsedBy(New) :
                           /\ OwnsFile(current, f)' \/ OwnsFile(New, f)'
                           /\ f \in Todo(Builder) \/ entries'[f] = go[Builder].waiting \/ OwnsFile(New, f)'
                      /\ go[Builder].waiting # Nil => \E f \in UsedBy(New) : entries'[f] = go[Builder].waiting
    <3>1. Todo(Builder)' = Todo(Builder)
      BY <1>10 DEF Todo
    <3>2. UsedBy(New)' = UsedBy(New)
      BY <1>8, <1>11 DEF UsedBy
    <3> QED BY <1>10, <3>1, <3>2 DEF Owning
  <2>1. New \in Snapshots /\ New # s /\ UsedBy(New) \subseteq ExtendedFiles
    BY <1>12, <1>14
  <2>2. \A r \in Snapshots : \A f \in ExtendedFiles :
          r # s /\ OwnsFile(r, f) => entries'[f] # Nil /\ r \in owners'[entries'[f]] /\ entries'[f] = entries[f]
    BY <1>6 DEF OwnsFile
  <2>3. ASSUME NEW f \in UsedBy(New)
        PROVE  /\ OwnsFile(current, f) => OwnsFile(current, f)' /\ entries'[f] = entries[f]
               /\ OwnsFile(New, f) => OwnsFile(New, f)' /\ entries'[f] = entries[f]
    BY <1>2, <1>8, <1>11, <1>13, <2>1, <2>2 DEF OwnsFile
  <2>4. Todo(Builder) \subseteq UsedBy(New)
    BY <1>1 DEF Owning
  <2>5. ASSUME NEW f \in UsedBy(New)
        PROVE  /\ OwnsFile(current, f)' \/ OwnsFile(New, f)'
               /\ f \in Todo(Builder) \/ entries'[f] = go[Builder].waiting \/ OwnsFile(New, f)'
               /\ entries'[f] = entries[f]
    <3>1. /\ OwnsFile(current, f) \/ OwnsFile(New, f)
          /\ f \in Todo(Builder) \/ entries[f] = go[Builder].waiting \/ OwnsFile(New, f)
      BY <1>1 DEF Owning
    <3> QED BY <2>3, <3>1
  <2>6. go[Builder].waiting # Nil => \E f \in UsedBy(New) : entries[f] = go[Builder].waiting
    BY <1>1 DEF Owning
  <2> QED BY <2>4, <2>5, <2>6
<1>25. AllOwned'
  <2> SUFFICES ASSUME NEW r \in Snapshots, life[r] = "live", NEW f \in UsedBy(r) PROVE OwnsFile(r, f)'
    BY <1>8, <1>11 DEF AllOwned
  <2>1. f \in ExtendedFiles /\ OwnsFile(r, f) /\ r # s
    BY <1>1, <1>12, <1>13 DEF AllOwned
  <2> QED BY <1>6, <2>1
<1>26. NoRest'
  <2> SUFFICES ASSUME ~MayDrop PROVE OnlyUsed' /\ \A c \in Disposers : LeftOK(c)'
    BY DEF NoRest
  <2>1. OnlyUsed /\ \A c \in Disposers : LeftOK(c)
    BY DEF Exact, NoRest
  <2>2. OnlyUsed'
    <3>1. \A r \in Snapshots : \A f \in ExtendedFiles : OwnsFile(r, f)' => OwnsFile(r, f)
      BY <1>6
    <3> QED BY <1>8, <1>11, <2>1, <3>1 DEF OnlyUsed
  <2>3. ASSUME NEW c \in Disposers PROVE LeftOK(c)'
    <3> SUFFICES ASSUME go'[c].pc = "release", NEW f \in ExtendedFiles, OwnsFile(go[c].snap, f)'
                 PROVE  f \in Todo(c)' \/ go'[c].waiting = entries'[f]
      BY DEF LeftOK
    <3>1. CASE c = d
      <4>1. OwnsFile(s, f)'
        BY <1>9, <1>10, <3>1 DEF OwnsFile
      <4>2. OwnsFile(s, f) /\ f # h
        BY <1>6, <4>1
      <4>3. OwnsFile(go[d].snap, f)
        BY <1>3, <4>2
      <4>4. f \in Todo(d) \/ e = entries[f]
        BY <1>4, <1>5, <2>1, <4>3 DEF LeftOK
      <4> QED BY <1>5, <1>19, <3>1, <4>2, <4>4
    <3>2. CASE c # d
      <4>1. go'[c] = go[c] /\ go[c].pc = "release"
        BY <1>10, <3>2
      <4>2. go[c].snap \in Snapshots /\ go[c].snap # s
        BY <1>21, <3>2, <4>1
      <4>3. PICK r \in Snapshots : r = go[c].snap
        BY <4>2
      <4>4. OwnsFile(r, f)'
        BY <4>1, <4>3 DEF OwnsFile
      <4>5. OwnsFile(r, f) /\ entries'[f] = entries[f]
        BY <1>6, <4>2, <4>3, <4>4
      <4>6. OwnsFile(go[c].snap, f)
        BY <4>3, <4>5
      <4>7. f \in Todo(c) \/ go[c].waiting = entries[f]
        BY <2>1, <4>1, <4>6 DEF LeftOK
      <4> QED BY <4>1, <4>5, <4>7 DEF Todo
    <3> QED BY <3>1, <3>2
  <2> QED BY <2>2, <2>3
<1>27. (~panicked)'
  BY <1>1, <1>8
<1>28. OneFile'
  BY <1>7
<1>29. (\A q \in Loaders : LoaderOK(q)') /\ \A c \in Disposers : ReleaseOK(c)'
  BY <1>18, <1>20, <1>22
<1> QED BY <1>15, <1>16, <1>17, <1>23, <1>24, <1>25, <1>26, <1>27, <1>28, <1>29 DEF Exact, Kept

-----------------------------------------------------------------------------
(* The theorems.                                                                *)

\* Nothing is owned or used at the start.
LEMMA ExactInit == ASSUME OwnersInit PROVE Exact
<1>1. /\ entries = [f \in ExtendedFiles |-> Nil]
      /\ lockedBy = [e \in Entries |-> Nil] /\ owners = [e \in Entries |-> {}]
      /\ registry = [s \in Snapshots |-> {}] /\ current = 0 /\ toLoad = {}
      /\ life = [s \in Snapshots |-> IF s = 0 THEN "live" ELSE "unborn"]
      /\ go = [p \in Procs |-> NoWork] /\ panicked = FALSE
  BY DEF OwnersInit
<1>2. WellTyped
  BY <1>1, NoWorkIs, Snaps DEF WellTyped
<1>3. (\A p \in Procs : go[p] = NoWork) /\ go[Builder] = NoWork
  BY <1>1, Goroutines
<1>4. \A f \in ExtendedFiles : entries[f] = Nil
  BY <1>1
<1>5. \A s \in Snapshots : UsedBy(s) = {}
  BY <1>1 DEF UsedBy
<1>6. OneClone
  <2>1. 1 \in 1 .. Last + 1 /\ \A s \in Snapshots : life[s] # "unborn" <=> s < 1
    BY <1>1, Snaps
  <2>2. life[current] = "live" /\ \A s \in Snapshots : life[s] # "building"
    BY <1>1, Snaps
  <2> QED BY <1>1, <1>3, <2>1, <2>2, NoWorkIs, Goroutines DEF OneClone
<1>7. OneDisposal
  BY <1>3, NoWorkIs, Goroutines DEF OneDisposal
<1>8. OneFile
  BY <1>4 DEF OneFile
<1>9. \A p \in Loaders : LoaderOK(p)
  BY <1>3, NoWorkIs, Goroutines DEF LoaderOK
<1>10. \A d \in Disposers : ReleaseOK(d) /\ LeftOK(d)
  <2> SUFFICES ASSUME NEW d \in Disposers PROVE ReleaseOK(d) /\ LeftOK(d)
    OBVIOUS
  <2>1. go[d] = NoWork
    BY <1>3, Goroutines
  <2>2. go[d].pc = "idle" /\ go[d].todo = {} /\ go[d].waiting = Nil
    BY <2>1, NoWorkIs
  <2>3. Todo(d) = {}
    BY <2>2 DEF Todo
  <2> QED BY <2>2, <2>3 DEF ReleaseOK, LeftOK
<1>11. Loading /\ Owning
  BY <1>3, NoWorkIs DEF Loading, Owning
<1>12. AllOwned
  BY <1>5 DEF AllOwned
<1>13. OnlyUsed
  BY <1>4 DEF OnlyUsed, OwnsFile
<1> QED BY <1>1, <1>2, <1>6, <1>7, <1>8, <1>9, <1>10, <1>11, <1>12, <1>13 DEF Exact, Kept, NoRest

\* Nothing happens.
LEMMA ExactStutter == ASSUME Exact, UNCHANGED ownersVars PROVE Exact'
<1>1. /\ entries' = entries /\ lockedBy' = lockedBy /\ owners' = owners
      /\ registry' = registry /\ life' = life /\ current' = current /\ toLoad' = toLoad
      /\ go' = go /\ panicked' = panicked
  BY DEF ownersVars, cacheVars, snapVars
<1>2. WellTyped' /\ OneClone' /\ OneDisposal' /\ OneFile' /\ (~panicked)'
  BY <1>1 DEF Exact, Kept, WellTyped, OneClone, OneDisposal, OneFile, New
<1>3. \A p \in Loaders : LoaderOK(p)'
  BY <1>1 DEF Exact, Kept, LoaderOK, StackOK, FrameOK, WaitOK, Dead, OwnsFile, New, Top, OnStack
<1>4. \A d \in Disposers : ReleaseOK(d)'
  BY <1>1 DEF Exact, Kept, ReleaseOK, UsesOf, OwnsFile, Todo
<1>5. Loading' /\ Owning' /\ AllOwned'
  BY <1>1 DEF Exact, Kept, Loading, Owning, AllOwned, OwnsFile, New, UsedBy, Todo
<1>6. NoRest'
  BY <1>1 DEF Exact, NoRest, OnlyUsed, LeftOK, OwnsFile, UsedBy, Todo
<1> QED BY <1>2, <1>3, <1>4, <1>5, <1>6 DEF Exact, Kept

\* Every step keeps the invariant.
LEMMA ExactStep == ASSUME Careful, Exact, [OwnersNext]_ownersVars PROVE Exact'
<1>1. Closed
  BY DEF Careful
<1>2. CASE StartClone
  BY <1>1, <1>2, StartsOK
<1>3. CASE BuilderStep
  BY <1>1, <1>3, FinishLoadingOK, AddLookupOK, AddOK, FinishCloneOK DEF BuilderStep
<1>4. ASSUME NEW p \in Loaders, LoaderStep(p) PROVE Exact'
  BY <1>1, <1>4, VisitsOK, ReportsOK, StoresOK, FindsOK, RetriesOK, ReusesOK, ReparsesOK, FileOK, ConfigOK
  DEF LoaderStep
<1>5. ASSUME NEW d \in Disposers, StartDispose(d) \/ DisposerStep(d) PROVE Exact'
  BY <1>1, <1>5, StartDisposeOK, ReleaseLookupOK, ReleaseEntryOK, FinishDisposeOK DEF DisposerStep
<1>6. CASE UNCHANGED ownersVars
  BY <1>6, ExactStutter
<1> QED BY <1>2, <1>3, <1>4, <1>5, <1>6 DEF OwnersNext

\* The invariant says what is wanted of a snapshot that somebody may use.
LEMMA ExactOwned == ASSUME Closed, Exact PROVE NoPanic /\ LiveOwned
<1>1. WellTyped /\ AllOwned /\ ~panicked
  BY DEF Exact, Kept
<1>2. ASSUME NEW s \in Snapshots, life[s] = "live", NEW u \in UsesOf(s) PROVE OwnsFile(s, u[2])
  <2>1. registry[s] \in SUBSET Configs
    BY <1>1 DEF WellTyped
  <2>2. u[2] \in {v[2] : v \in UsesIn(registry[s])}
    BY <1>2 DEF UsesOf
  <2>3. u[2] \in UsedBy(s)
    BY <2>1, <2>2, UsesInIs DEF UsedBy
  <2> QED BY <1>1, <1>2, <2>3 DEF AllOwned
<1> QED BY <1>1, <1>2 DEF NoPanic, LiveOwned, OwnsFile

\* The invariant includes the types.
LEMMA ExactTypes == ASSUME Exact PROVE OwnersTypeOK
<1>1. WellTyped
  BY DEF Exact, Kept
<1>2. ASSUME NEW p \in Procs
      PROVE  /\ go[p].pc \in {"idle", "load", "own", "release"}
             /\ go[p].snap \in Snapshots /\ go[p].waiting \in Entries \cup {Nil}
             /\ go[p].todo \subseteq Configs \X ExtendedFiles /\ go[p].file \in ExtendedFiles \cup {Nil}
             /\ \A i \in DOMAIN go[p].stack :
                  go[p].stack[i].file \in Configs \cup ExtendedFiles /\ go[p].stack[i].rest \subseteq ExtendedFiles
  <2>1. go[p] \in Works
    BY <1>1 DEF WellTyped
  <2>2. PICK t \in Seq(Frames) : t = go[p].stack
    BY <2>1 DEF Works
  <2>3. \A i \in DOMAIN t : t[i] \in Frames
    BY <2>2
  <2>4. \A i \in DOMAIN t : t[i].file \in Configs \cup ExtendedFiles /\ t[i].rest \subseteq ExtendedFiles
    BY <2>3 DEF Frames
  <2> QED BY <2>1, <2>2, <2>4 DEF Works
<1> QED BY <1>1, <1>2 DEF OwnersTypeOK, WellTyped

\* If configurations name all that they extend, also in turn, and snapshots are disposed of
\* one at a time or no two configurations extend the same file: the types are right, AddOwner
\* never panics, and a snapshot that somebody may use owns the entry of every file that its
\* configurations extend (Clone's AddOwner loop, snapshot.go).
THEOREM LiveAreOwned == Careful => (OwnersSpec => [](OwnersTypeOK /\ NoPanic /\ LiveOwned))
<1> SUFFICES ASSUME Careful PROVE OwnersSpec => [](OwnersTypeOK /\ NoPanic /\ LiveOwned)
  OBVIOUS
<1>1. OwnersInit => Exact
  BY ExactInit
<1>2. Exact /\ [OwnersNext]_ownersVars => Exact'
  BY ExactStep
<1>3. Exact => OwnersTypeOK /\ NoPanic /\ LiveOwned
  BY ExactOwned, ExactTypes DEF Careful
<1> QED BY <1>1, <1>2, <1>3, PTL DEF OwnersSpec

\* If moreover no clone drops a configuration that it has loaded, an entry lives exactly as
\* long as somebody owns it: a snapshot that has been disposed of owns nothing (Release,
\* ownercache.go).
THEOREM OwnersAreExact == Careful /\ ~MayDrop => (OwnersSpec => []OwnersExact)
<1> SUFFICES ASSUME Careful, ~MayDrop PROVE OwnersSpec => []OwnersExact
  OBVIOUS
<1>1. OwnersInit => Exact
  BY ExactInit
<1>2. Exact /\ [OwnersNext]_ownersVars => Exact'
  BY ExactStep
<1>3. ASSUME Exact PROVE OwnersExact
  <2>1. NoPanic /\ LiveOwned
    BY <1>3, ExactOwned DEF Careful
  <2>2. OnlyUsed
    BY <1>3 DEF Exact, NoRest
  <2>3. NothingLeft
    BY <2>2 DEF OnlyUsed, NothingLeft, OwnsFile
  <2> QED BY <2>1, <2>3 DEF OwnersExact
<1> QED BY <1>1, <1>2, <1>3, PTL DEF OwnersSpec

-----------------------------------------------------------------------------
(* Nobody is stuck, whatever is loaded, kept or dropped, if no files extend     *)
(* each other in a circle.                                                      *)

\* Among any files there is one that extends none of the others.
NoCircle == \A files \in SUBSET ExtendedFiles : files # {} => \E f \in files : Extends[f] \cap files \subseteq {f}

TopOf(w) == w.stack[Len(w.stack)]

\* Each frame is that of a file that the frame below it extends.
Nested(s) ==
  /\ Len(s) >= 1
  /\ \A i \in 1 .. Len(s) : s[i].rest \subseteq Extends[s[i].file]
  /\ \A i \in 2 .. Len(s) : s[i].entry \in Entries /\ s[i].file \in Extends[s[i - 1].file] \ {s[i - 1].file}

\* A loader waits for a file that its topmost frame extends, and is not that file itself.
NestedOK(w) ==
  /\ w.pc \in {"idle", "load"}
  /\ w.pc = "idle" => w.waiting = Nil
  /\ w.pc = "load" => Nested(w.stack)
  /\ w.waiting # Nil => w.pc = "load" /\ w.file \in TopOf(w).rest /\ w.file # TopOf(w).file

\* Who holds an entry's lock is parsing it.
HasEntry(w, e) == \E i \in 2 .. Len(w.stack) : w.stack[i].entry = e
HeldOK == \A e \in Entries : lockedBy[e] # Nil =>
  lockedBy[e] \in Loaders /\ go[lockedBy[e]].pc = "load" /\ HasEntry(go[lockedBy[e]], e)

\* Everybody who knows an entry, the map included, knows it as that of one file.
KnownBy(w, e, f) ==
  \/ w.waiting = e /\ w.file = f
  \/ \E i \in 2 .. Len(w.stack) : w.stack[i].entry = e /\ w.stack[i].file = f
Known(e, f) == entries[f] = e \/ \E p \in Loaders \cup Disposers : KnownBy(go[p], e, f)
OneKey == \A e \in Entries : \A f, g \in ExtendedFiles : Known(e, f) /\ Known(e, g) => f = g

LockTyped ==
  /\ entries \in [ExtendedFiles -> Entries \cup {Nil}] /\ lockedBy \in [Entries -> Procs \cup {Nil}]
  /\ registry \in [Snapshots -> SUBSET Configs] /\ toLoad \in SUBSET Configs
  /\ go \in [Procs -> Works]

Locking ==
  /\ LockTyped /\ HeldOK /\ OneKey
  /\ \A p \in Loaders : NestedOK(go[p])
  /\ go[Builder].pc # "load" => \A p \in Loaders : go[p].pc = "idle"

\* Whatever a configuration extends, in turn, is a file.
LEMMA UsesAreFiles == ASSUME NEW c \in Configs PROVE Uses(c) \subseteq ExtendedFiles
<1> DEFINE N == Cardinality(ExtendedFiles)
           More(files) == files \cup UNION {Extends[f] : f \in files}
           G(g) == [n \in 0 .. N |-> IF n = 0 THEN Extends[c] ELSE More(g[n - 1])]
           reach == CHOOSE g : g = G(g)
           Goes(g, n) == /\ g \in [0 .. n -> SUBSET ExtendedFiles]
                         /\ \A m \in 0 .. n : g[m] = IF m = 0 THEN Extends[c] ELSE More(g[m - 1])
           Bad == {n \in Nat : ~\E g : Goes(g, n)}
<1>1. Uses(c) = reach[N]
  BY DEF Uses
<1>2. N \in Nat
  BY FilesAssumption, FS_CardinalityType
<1>3. Extends[c] \subseteq ExtendedFiles /\ \A files \in SUBSET ExtendedFiles : More(files) \subseteq ExtendedFiles
  BY FilesOf
<1> HIDE DEF N, More
<1>4. ASSUME Bad # {} PROVE FALSE
  <2>1. PICK n \in Bad : \A m \in Bad : n <= m
    BY <1>4, Smallest
  <2>2. CASE n = 0
    <3>1. Goes([m \in 0 .. 0 |-> Extends[c]], 0)
      BY <1>3
    <3> QED BY <2>1, <2>2, <3>1
  <2>3. CASE n # 0
    <3>1. n \in Nat /\ n - 1 \in Nat /\ n - 1 \in 0 .. n - 1
      BY <2>1, <2>3
    <3>2. n - 1 \notin Bad
      <4> HIDE DEF Bad
      <4> QED BY <2>1, <3>1
    <3>3. PICK g : Goes(g, n - 1)
      BY <3>1, <3>2
    <3> DEFINE h == [m \in 0 .. n |-> IF m = n THEN More(g[n - 1]) ELSE g[m]]
    <3>4. More(g[n - 1]) \in SUBSET ExtendedFiles /\ \A m \in 0 .. n - 1 : g[m] \in SUBSET ExtendedFiles
      BY <1>3, <3>1, <3>3
    <3>5. h \in [0 .. n -> SUBSET ExtendedFiles]
      BY <3>1, <3>4
    <3>6. ASSUME NEW m \in 0 .. n PROVE h[m] = IF m = 0 THEN Extends[c] ELSE More(h[m - 1])
      <4>1. CASE m = n
        <5>1. n - 1 \in 0 .. n /\ n - 1 # n
          BY <3>1
        <5>2. h[n - 1] = g[n - 1]
          BY <5>1
        <5> QED BY <2>3, <4>1, <5>2
      <4>2. CASE m # n
        <5>1. m \in 0 .. n - 1 /\ (m # 0 => m - 1 \in 0 .. n /\ m - 1 # n)
          BY <3>1, <4>2
        <5>2. h[m] = g[m] /\ (m # 0 => h[m - 1] = g[m - 1])
          BY <4>2, <5>1
        <5> QED BY <3>3, <5>1, <5>2
      <4> QED BY <4>1, <4>2
    <3> HIDE DEF h
    <3>7. Goes(h, n)
      BY <3>5, <3>6
    <3> QED BY <2>1, <3>7
  <2> QED BY <2>2, <2>3
<1>5. PICK g : Goes(g, N)
  BY <1>2, <1>4
<1>6. g = G(g)
  BY <1>5
<1>7. reach = G(reach)
  BY <1>6
<1> HIDE DEF reach
<1> DEFINE Off == {n \in Nat : n \in 0 .. N /\ ~(reach[n] \subseteq ExtendedFiles)}
<1>8. ASSUME Off # {} PROVE FALSE
  <2>1. PICK n \in Off : \A m \in Off : n <= m
    BY <1>8, Smallest
  <2>2. n # 0
    BY <1>2, <1>3, <1>7, <2>1
  <2>3. n - 1 \in 0 .. N /\ n - 1 \in Nat
    BY <1>2, <2>1, <2>2
  <2>4. reach[n - 1] \in SUBSET ExtendedFiles
    BY <2>1, <2>3
  <2> QED BY <1>3, <1>7, <2>1, <2>2, <2>4
<1>9. N \notin Off
  BY <1>8
<1> QED BY <1>1, <1>2, <1>9

\* What is to be owned or released are pairs of a configuration and a file.
LEMMA UsesInFiles == ASSUME NEW configs \in SUBSET Configs PROVE UsesIn(configs) \in SUBSET (Configs \X ExtendedFiles)
BY UsesAreFiles DEF UsesIn

\* The next snapshot is one within the bound, if the last one is still unborn.
LEMMA NewSnapshotBounded == ASSUME life[Last] = "unborn" PROVE NewSnapshot \in Snapshots
<1> DEFINE born == {s \in Snapshots : life[s] # "unborn"}
<1>1. Last \in Nat /\ born \subseteq 0 .. Last - 1
  BY Snaps
<1>2. IsFiniteSet(0 .. Last - 1) /\ Cardinality(0 .. Last - 1) = Last
  BY <1>1, FS_Interval
<1>3. IsFiniteSet(born) /\ Cardinality(born) <= Last
  BY <1>1, <1>2, FS_Subset
<1>4. Cardinality(born) \in Nat
  BY <1>3, FS_CardinalityType
<1>5. NewSnapshot = Cardinality(born)
  BY DEF NewSnapshot
<1> HIDE DEF born
<1> QED BY <1>1, <1>3, <1>4, <1>5, Snaps

\* What a step of one goroutine has to show.
LEMMA LockSteps ==
  ASSUME Locking, NEW p \in Procs, NEW w \in Works, go' = [go EXCEPT ![p] = w],
         entries' \in [ExtendedFiles -> Entries \cup {Nil}], lockedBy' \in [Entries -> Procs \cup {Nil}],
         registry' \in [Snapshots -> SUBSET Configs], toLoad' \in SUBSET Configs,
         p \in Loaders => NestedOK(w) /\ (w.pc # "idle" => go[Builder].pc = "load"),
         p = Builder /\ w.pc # "load" => \A q \in Loaders : go[q].pc = "idle",
         \A e \in Entries :
           \/ lockedBy'[e] = Nil
           \/ lockedBy'[e] = p /\ p \in Loaders /\ w.pc = "load" /\ HasEntry(w, e)
           \/ lockedBy'[e] = lockedBy[e] /\ lockedBy[e] # p,
         OneKey'
  PROVE  Locking'
<1>1. LockTyped /\ HeldOK /\ \A q \in Loaders : NestedOK(go[q])
  BY DEF Locking
<1>2. go' \in [Procs -> Works] /\ go'[p] = w /\ \A q \in Procs : q # p => go'[q] = go[q]
  BY <1>1 DEF LockTyped
<1>3. LockTyped'
  BY <1>2 DEF LockTyped
<1>4. HeldOK'
  <2> SUFFICES ASSUME NEW e \in Entries, lockedBy'[e] # Nil
               PROVE  lockedBy'[e] \in Loaders /\ go'[lockedBy'[e]].pc = "load" /\ HasEntry(go'[lockedBy'[e]], e)
    BY DEF HeldOK, HasEntry
  <2>1. CASE lockedBy'[e] = p
    <3>1. lockedBy[e] # Nil /\ lockedBy'[e] = lockedBy[e] /\ lockedBy[e] # p => FALSE
      BY <2>1
    <3> QED BY <1>2, <2>1, <3>1
  <2>2. CASE lockedBy'[e] # p
    <3>1. lockedBy'[e] = lockedBy[e]
      BY <2>2
    <3>2. lockedBy[e] \in Loaders /\ go[lockedBy[e]].pc = "load" /\ HasEntry(go[lockedBy[e]], e)
      BY <1>1, <3>1 DEF HeldOK
    <3>3. lockedBy[e] \in Procs /\ go'[lockedBy[e]] = go[lockedBy[e]]
      BY <1>2, <2>2, <3>1, <3>2, Goroutines
    <3> QED BY <3>1, <3>2, <3>3
  <2> QED BY <2>1, <2>2
<1>5. \A q \in Loaders : NestedOK(go[q])'
  <2> SUFFICES ASSUME NEW q \in Loaders PROVE NestedOK(go'[q])
    BY DEF NestedOK, Nested, TopOf
  <2>1. q # p => go'[q] = go[q]
    BY <1>2, Goroutines
  <2> QED BY <1>1, <1>2, <2>1
<1>6. go'[Builder].pc # "load" => \A q \in Loaders : go'[q].pc = "idle"
  <2> SUFFICES ASSUME go'[Builder].pc # "load", NEW q \in Loaders PROVE go'[q].pc = "idle"
    OBVIOUS
  <2>1. q # Builder /\ q \in Procs /\ Builder \in Procs
    BY Goroutines
  <2>2. CASE p = Builder
    BY <1>2, <2>1, <2>2
  <2>3. CASE p # Builder
    <3>1. go[Builder].pc # "load"
      BY <1>2, <2>1, <2>3
    <3>2. go[q].pc = "idle"
      BY <3>1 DEF Locking
    <3> QED BY <1>2, <2>1, <3>1, <3>2
  <2> QED BY <2>2, <2>3
<1> QED BY <1>3, <1>4, <1>5, <1>6 DEF Locking

\* If the goroutine and the map know no more than before, entries have one key each.
LEMMA KeysStay ==
  ASSUME Locking, NEW p \in Procs, NEW w, go' = [go EXCEPT ![p] = w],
         \A e \in Entries : \A f \in ExtendedFiles : entries'[f] = e => Known(e, f),
         p # Builder => \A e \in Entries : \A f \in ExtendedFiles : KnownBy(w, e, f) => Known(e, f)
  PROVE  OneKey'
<1>1. go'[p] = w /\ \A q \in Procs : q # p => go'[q] = go[q]
  BY DEF Locking, LockTyped
<1>2. ASSUME NEW e \in Entries, NEW f \in ExtendedFiles, Known(e, f)' PROVE Known(e, f)
  <2>1. CASE entries'[f] = e
    BY <2>1
  <2>2. ASSUME NEW q \in Loaders \cup Disposers, KnownBy(go'[q], e, f) PROVE Known(e, f)
    <3>1. q \in Procs /\ q # Builder
      BY Goroutines
    <3>2. CASE q = p
      BY <1>1, <2>2, <3>1, <3>2
    <3>3. CASE q # p
      BY <1>1, <2>2, <3>1, <3>3 DEF Known
    <3> QED BY <3>2, <3>3
  <2>3. entries'[f] = e \/ \E q \in Loaders \cup Disposers : KnownBy(go'[q], e, f)
    BY <1>2 DEF Known, KnownBy
  <2> QED BY <2>1, <2>2, <2>3
<1>3. OneKey
  BY DEF Locking
<1> QED BY <1>2, <1>3 DEF OneKey

\* A frame that has one file less to load is still that of the same file.
LEMMA NestedParsed ==
  ASSUME NEW s \in Seq(Frames), Nested(s), NEW f, NEW t, t = Parsed(s, f)
  PROVE  /\ t \in Seq(Frames) /\ Nested(t) /\ Len(t) = Len(s)
         /\ \A i \in 1 .. Len(s) : t[i].entry = s[i].entry /\ t[i].file = s[i].file
<1>1. Len(s) >= 1 /\ Len(s) \in Nat
  BY DEF Nested
<1>2. /\ t \in Seq(Frames) /\ Len(t) = Len(s)
      /\ \A i \in 1 .. Len(s) : /\ t[i].file = s[i].file /\ t[i].entry = s[i].entry
                                /\ i # Len(s) => t[i].rest = s[i].rest
      /\ t[Len(s)].rest = s[Len(s)].rest \ {f}
  BY <1>1, ParsedIs
<1>3. \A i \in 1 .. Len(s) : t[i].rest \subseteq Extends[t[i].file]
  BY <1>2 DEF Nested
<1>4. ASSUME NEW i \in 2 .. Len(s)
      PROVE  t[i].entry \in Entries /\ t[i].file \in Extends[t[i - 1].file] \ {t[i - 1].file}
  <2>1. i \in 1 .. Len(s) /\ i - 1 \in 1 .. Len(s)
    BY <1>1
  <2> QED BY <1>2, <2>1 DEF Nested
<1> QED BY <1>1, <1>2, <1>3, <1>4 DEF Nested

\* A frame is put on the stack, of a file that the topmost one extends.
LEMMA NestedAppend ==
  ASSUME NEW s \in Seq(Frames), Nested(s), NEW x \in Frames, x.rest \subseteq Extends[x.file], x.entry \in Entries,
         x.file \in Extends[s[Len(s)].file], x.file # s[Len(s)].file, NEW t, t = Append(s, x)
  PROVE  Nested(t)
<1>1. Len(s) >= 1 /\ Len(s) \in Nat
  BY DEF Nested
<1>2. /\ t \in Seq(Frames) /\ Len(t) = Len(s) + 1 /\ t[Len(s) + 1] = x
      /\ \A i \in 1 .. Len(s) : t[i] = s[i]
  BY AppendedIs
<1>3. ASSUME NEW i \in 1 .. Len(t) PROVE t[i].rest \subseteq Extends[t[i].file]
  <2>1. i \in 1 .. Len(s) \/ i = Len(s) + 1
    BY <1>1, <1>2
  <2> QED BY <1>2, <2>1 DEF Nested
<1>4. ASSUME NEW i \in 2 .. Len(t)
      PROVE  t[i].entry \in Entries /\ t[i].file \in Extends[t[i - 1].file] \ {t[i - 1].file}
  <2>1. i - 1 \in 1 .. Len(s)
    BY <1>1, <1>2
  <2>2. CASE i = Len(s) + 1
    <3>1. i - 1 = Len(s)
      BY <1>1, <2>2
    <3> QED BY <1>2, <2>1, <2>2, <3>1
  <2>3. CASE i # Len(s) + 1
    <3>1. i \in 2 .. Len(s) /\ i \in 1 .. Len(s)
      BY <1>1, <1>2, <2>3
    <3> QED BY <1>2, <2>1, <3>1 DEF Nested
  <2> QED BY <2>2, <2>3
<1> QED BY <1>1, <1>2, <1>3, <1>4 DEF Nested

\* The topmost frame is taken off.
LEMMA NestedBelow ==
  ASSUME NEW s \in Seq(Frames), Nested(s), Len(s) > 1, NEW t, t = SubSeq(s, 1, Len(s) - 1)
  PROVE  /\ t \in Seq(Frames) /\ Nested(t) /\ Len(t) = Len(s) - 1
         /\ \A i \in 1 .. Len(t) : t[i] = s[i]
<1>1. Len(s) \in Nat
  OBVIOUS
<1>2. t \in Seq(Frames) /\ Len(t) = Len(s) - 1 /\ \A i \in 1 .. Len(t) : t[i] = s[i]
  BY BelowIs
<1>3. ASSUME NEW i \in 2 .. Len(t) PROVE i \in 2 .. Len(s) /\ i \in 1 .. Len(t) /\ i - 1 \in 1 .. Len(t)
  BY <1>1, <1>2
<1>4. \A i \in 1 .. Len(t) : i \in 1 .. Len(s)
  BY <1>1, <1>2
<1>5. \A i \in 1 .. Len(t) : t[i].rest \subseteq Extends[t[i].file]
  BY <1>2, <1>4 DEF Nested
<1>6. \A i \in 2 .. Len(t) : t[i].entry \in Entries /\ t[i].file \in Extends[t[i - 1].file] \ {t[i - 1].file}
  BY <1>2, <1>3 DEF Nested
<1> QED BY <1>1, <1>2, <1>5, <1>6 DEF Nested

\* What is known of a loader that loads a configuration.
LEMMA LoaderIs ==
  ASSUME Locking, NEW p \in Loaders, go[p].pc = "load", NEW s, s = go[p].stack
  PROVE  /\ p \in Procs /\ p # Builder /\ go[p] \in Works /\ go[Builder].pc = "load"
         /\ s \in Seq(Frames) /\ Nested(s) /\ Len(s) \in 1 .. Len(s)
         /\ Top(p) = s[Len(s)] /\ Top(p) \in Frames /\ Top(p).rest \subseteq ExtendedFiles
         /\ Top(p).rest \subseteq Extends[Top(p).file]
<1>1. LockTyped /\ NestedOK(go[p]) /\ p \in Procs /\ p # Builder
  BY Goroutines DEF Locking
<1>2. go[p] \in Works
  BY <1>1 DEF LockTyped
<1>3. s \in Seq(Frames) /\ Nested(s)
  BY <1>1, <1>2 DEF Works, NestedOK
<1>4. Len(s) \in 1 .. Len(s)
  BY <1>3 DEF Nested
<1>5. Top(p) = s[Len(s)] /\ Top(p) \in Frames
  BY <1>3, <1>4 DEF Top
<1>6. Top(p).rest \subseteq Extends[Top(p).file]
  BY <1>3, <1>4, <1>5 DEF Nested
<1>7. go[Builder].pc = "load"
  BY DEF Locking
<1> QED BY <1>1, <1>2, <1>3, <1>4, <1>5, <1>6, <1>7 DEF Frames

\* A step of a loader that leaves the cache alone.
LEMMA LoaderMoves ==
  ASSUME Locking, NEW p \in Loaders, NEW w \in Works, go' = [go EXCEPT ![p] = w], UNCHANGED <<entries, lockedBy, registry>>,
         toLoad' \in SUBSET Configs, NestedOK(w), w.pc # "idle" => go[Builder].pc = "load",
         go[p].pc = "load" => \A e \in Entries : lockedBy[e] = p /\ HasEntry(go[p], e) => w.pc = "load" /\ HasEntry(w, e),
         \A e \in Entries : \A f \in ExtendedFiles : KnownBy(w, e, f) => Known(e, f)
  PROVE  Locking'
<1>1. LockTyped /\ HeldOK /\ p \in Procs /\ p # Builder /\ p # Nil
  BY Goroutines DEF Locking
<1>2. entries' = entries /\ lockedBy' = lockedBy /\ registry' = registry
  OBVIOUS
<1>3. OneKey'
  BY <1>1, <1>2, KeysStay DEF Known
<1>4. ASSUME NEW e \in Entries, lockedBy[e] = p PROVE w.pc = "load" /\ HasEntry(w, e)
  BY <1>1, <1>4 DEF HeldOK
<1>5. /\ entries' \in [ExtendedFiles -> Entries \cup {Nil}] /\ lockedBy' \in [Entries -> Procs \cup {Nil}]
      /\ registry' \in [Snapshots -> SUBSET Configs]
  BY <1>1, <1>2 DEF LockTyped
<1>6. \A e \in Entries :
           \/ lockedBy'[e] = Nil
           \/ lockedBy'[e] = p /\ p \in Loaders /\ w.pc = "load" /\ HasEntry(w, e)
           \/ lockedBy'[e] = lockedBy[e] /\ lockedBy[e] # p
  BY <1>2, <1>4
<1> QED BY <1>1, <1>3, <1>5, <1>6, LockSteps

\* The search visits a project.
LEMMA VisitLocks == ASSUME Locking, NEW p \in Loaders, VisitConfig(p) PROVE Locking'
<1>1. LockTyped /\ p \in Procs /\ Builder \in Procs
  BY Goroutines DEF Locking
<1>2. PICK c \in toLoad :
        /\ go[p].pc = "idle" /\ go[Builder].pc = "load"
        /\ toLoad' = toLoad \ {c}
        /\ go' = [go EXCEPT ![p] = [NoWork EXCEPT !.pc = "load", !.snap = go[Builder].snap, !.stack = <<Frame(c, Nil)>>]]
        /\ UNCHANGED <<cacheVars, registry, life, current, panicked>>
  BY DEF VisitConfig
<1> DEFINE w == [NoWork EXCEPT !.pc = "load", !.snap = go[Builder].snap, !.stack = <<Frame(c, Nil)>>]
<1>3. c \in Configs /\ go[Builder].snap \in Snapshots
  BY <1>1, <1>2 DEF LockTyped, Works
<1>4. Frame(c, Nil) \in Frames /\ Frame(c, Nil).file = c /\ Frame(c, Nil).rest = Extends[c]
  BY <1>3, FilesOf DEF Frame, Frames
<1>5. /\ w.pc = "load" /\ w.waiting = Nil /\ w.stack = <<Frame(c, Nil)>> /\ w \in Works
      /\ Len(w.stack) = 1 /\ w.stack[1] = Frame(c, Nil)
  <2>1. <<Frame(c, Nil)>> \in Seq(Frames) /\ Len(<<Frame(c, Nil)>>) = 1 /\ <<Frame(c, Nil)>>[1] = Frame(c, Nil)
    BY <1>4
  <2> QED BY <1>3, <2>1 DEF NoWork, Works
<1>6. go' = [go EXCEPT ![p] = w] /\ UNCHANGED <<entries, lockedBy, registry>> /\ toLoad' \in SUBSET Configs
  BY <1>1, <1>2 DEF LockTyped, cacheVars
<1> HIDE DEF w
<1>7. NestedOK(w)
  BY <1>4, <1>5 DEF NestedOK, Nested
<1>8. \A e \in Entries : \A f \in ExtendedFiles : ~KnownBy(w, e, f)
  BY <1>5, FilesOf DEF KnownBy
<1> QED BY <1>2, <1>5, <1>6, <1>7, <1>8, LoaderMoves

\* A circularity is reported.
LEMMA ReportLocks == ASSUME Locking, NEW p \in Loaders, ReportCircularity(p) PROVE Locking'
<1>1. PICK f \in Top(p).rest :
        /\ go[p].pc = "load" /\ go[p].waiting = Nil
        /\ go' = [go EXCEPT ![p].stack = Parsed(@, f)]
        /\ UNCHANGED <<cacheVars, snapVars, panicked>>
  BY DEF ReportCircularity, Parsing
<1>2. PICK s : s = go[p].stack
  OBVIOUS
<1>3. PICK t : t = Parsed(s, f)
  OBVIOUS
<1>4. go[p] \in Works /\ s \in Seq(Frames) /\ Nested(s) /\ go[Builder].pc = "load"
  BY <1>1, <1>2, LoaderIs
<1>5. /\ t \in Seq(Frames) /\ Nested(t) /\ Len(t) = Len(s)
      /\ \A i \in 1 .. Len(s) : t[i].entry = s[i].entry /\ t[i].file = s[i].file
  BY <1>3, <1>4, NestedParsed
<1> DEFINE w == [go[p] EXCEPT !.stack = t]
<1>6. w \in Works /\ w.pc = "load" /\ w.waiting = Nil /\ w.stack = t
  BY <1>1, <1>4, <1>5 DEF Works
<1>7. go' = [go EXCEPT ![p] = w]
  BY <1>1, <1>2, <1>3
<1> HIDE DEF w
<1>8. /\ UNCHANGED <<entries, lockedBy, registry>> /\ toLoad' \in SUBSET Configs
  BY <1>1 DEF cacheVars, snapVars, Locking, LockTyped
<1>9. NestedOK(w)
  BY <1>5, <1>6 DEF NestedOK
<1>10. \A i \in 2 .. Len(s) : i \in 1 .. Len(s)
  BY <1>4
<1>11. \A e \in Entries : HasEntry(go[p], e) => HasEntry(w, e)
  BY <1>2, <1>5, <1>6, <1>10 DEF HasEntry
<1>12. \A e \in Entries : \A g \in ExtendedFiles : KnownBy(w, e, g) => KnownBy(go[p], e, g)
  BY <1>2, <1>5, <1>6, <1>10, FilesOf DEF KnownBy
<1> QED BY <1>4, <1>6, <1>7, <1>8, <1>9, <1>11, <1>12, LoaderMoves DEF Known

\* An entry is found.
LEMMA FindLocks == ASSUME Locking, NEW p \in Loaders, FindEntry(p) PROVE Locking'
<1>1. PICK f \in Top(p).rest :
        /\ go[p].pc = "load" /\ go[p].waiting = Nil /\ ~OnStack(p, f) /\ entries[f] # Nil
        /\ go' = [go EXCEPT ![p].waiting = entries[f], ![p].file = f]
        /\ UNCHANGED <<cacheVars, snapVars, panicked>>
  BY DEF FindEntry, Parsing
<1>2. PICK s : s = go[p].stack
  OBVIOUS
<1>3. /\ go[p] \in Works /\ s \in Seq(Frames) /\ Nested(s) /\ go[Builder].pc = "load" /\ Len(s) \in 1 .. Len(s)
      /\ Top(p) = s[Len(s)] /\ f \in ExtendedFiles
  BY <1>1, <1>2, LoaderIs
<1>4. f # s[Len(s)].file
  BY <1>1, <1>2, <1>3 DEF OnStack
<1>5. entries[f] \in Entries
  BY <1>1, <1>3 DEF Locking, LockTyped
<1> DEFINE w == [go[p] EXCEPT !.waiting = entries[f], !.file = f]
<1>6. w \in Works /\ w.pc = "load" /\ w.waiting = entries[f] /\ w.file = f /\ w.stack = s
  BY <1>1, <1>2, <1>3, <1>5 DEF Works
<1>7. go' = [go EXCEPT ![p] = w]
  BY <1>1
<1> HIDE DEF w
<1>8. /\ UNCHANGED <<entries, lockedBy, registry>> /\ toLoad' \in SUBSET Configs
  BY <1>1 DEF cacheVars, snapVars, Locking, LockTyped
<1>9. NestedOK(w)
  BY <1>1, <1>3, <1>4, <1>6 DEF NestedOK, TopOf
<1>10. \A e \in Entries : HasEntry(go[p], e) => HasEntry(w, e)
  BY <1>2, <1>6 DEF HasEntry
<1>11. \A e \in Entries : \A g \in ExtendedFiles : KnownBy(w, e, g) => Known(e, g)
  BY <1>2, <1>6 DEF Known, KnownBy
<1> QED BY <1>3, <1>6, <1>7, <1>8, <1>9, <1>10, <1>11, LoaderMoves

\* The entry has been deleted meanwhile.
LEMMA RetryLocks == ASSUME Locking, NEW p \in Loaders, Retry(p) PROVE Locking'
<1>1. /\ go[p].pc = "load"
      /\ go' = [go EXCEPT ![p].waiting = Nil, ![p].file = Nil]
      /\ UNCHANGED <<cacheVars, snapVars, panicked>>
  BY DEF Retry
<1>2. PICK s : s = go[p].stack
  OBVIOUS
<1>3. go[p] \in Works /\ s \in Seq(Frames) /\ Nested(s) /\ go[Builder].pc = "load"
  BY <1>1, <1>2, LoaderIs
<1> DEFINE w == [go[p] EXCEPT !.waiting = Nil, !.file = Nil]
<1>4. w \in Works /\ w.pc = "load" /\ w.waiting = Nil /\ w.stack = s
  BY <1>1, <1>2, <1>3 DEF Works
<1>5. go' = [go EXCEPT ![p] = w]
  BY <1>1
<1> HIDE DEF w
<1>6. /\ UNCHANGED <<entries, lockedBy, registry>> /\ toLoad' \in SUBSET Configs
  BY <1>1 DEF cacheVars, snapVars, Locking, LockTyped
<1>7. NestedOK(w)
  BY <1>3, <1>4 DEF NestedOK
<1>8. \A e \in Entries : HasEntry(go[p], e) => HasEntry(w, e)
  BY <1>2, <1>4 DEF HasEntry
<1>9. \A e \in Entries : \A g \in ExtendedFiles : KnownBy(w, e, g) => Known(e, g)
  BY <1>2, <1>4, FilesOf DEF Known, KnownBy
<1> QED BY <1>3, <1>4, <1>5, <1>6, <1>7, <1>8, <1>9, LoaderMoves

\* A configuration is loaded.
LEMMA ConfigLocks == ASSUME Locking, NEW p \in Loaders, FinishConfig(p) PROVE Locking'
<1>1. /\ go[p].pc = "load" /\ Len(go[p].stack) = 1
      /\ go' = [go EXCEPT ![p] = NoWork]
      /\ UNCHANGED <<cacheVars, snapVars, panicked>>
  BY DEF FinishConfig, Parsing
<1>2. \A e \in Entries : ~HasEntry(go[p], e)
  BY <1>1 DEF HasEntry
<1>3. /\ UNCHANGED <<entries, lockedBy, registry>> /\ toLoad' \in SUBSET Configs
  BY <1>1 DEF cacheVars, snapVars, Locking, LockTyped
<1>4. \A e \in Entries : \A f \in ExtendedFiles : ~KnownBy(NoWork, e, f)
  BY NoWorkIs, FilesOf DEF KnownBy
<1>5. NestedOK(NoWork)
  BY NoWorkIs DEF NestedOK
<1> QED BY <1>1, <1>2, <1>3, <1>4, <1>5, NoWorkIs, LoaderMoves

\* An entry is stored, which nobody knows.
LEMMA StoreLocks == ASSUME Locking, NEW p \in Loaders, StoreEntry(p) PROVE Locking'
<1>1. LockTyped /\ HeldOK /\ OneKey
  BY DEF Locking
<1>2. PICK f \in Top(p).rest, e \in FreeEntries :
        /\ go[p].pc = "load" /\ go[p].waiting = Nil
        /\ ~OnStack(p, f)
        /\ entries' = [entries EXCEPT ![f] = e]
        /\ lockedBy' = [lockedBy EXCEPT ![e] = p]
        /\ go' = [go EXCEPT ![p].stack = Append(@, Frame(f, e))]
        /\ UNCHANGED <<snapVars, panicked>>
  BY DEF StoreEntry, Parsing
<1>3. PICK s : s = go[p].stack
  OBVIOUS
<1>4. PICK t : t = Append(s, Frame(f, e))
  OBVIOUS
<1>5. /\ p \in Procs /\ p # Builder /\ go[p] \in Works /\ s \in Seq(Frames) /\ Nested(s) /\ go[Builder].pc = "load"
      /\ Len(s) \in 1 .. Len(s) /\ Top(p) = s[Len(s)] /\ f \in ExtendedFiles /\ f \in Extends[s[Len(s)].file]
  BY <1>2, <1>3, LoaderIs
<1>6. f # s[Len(s)].file
  BY <1>2, <1>3, <1>5 DEF OnStack
<1>7. /\ e \in Entries /\ \A g \in ExtendedFiles : entries[g] # e
      /\ \A q \in Procs : go[q].waiting # e /\ \A i \in DOMAIN go[q].stack : go[q].stack[i].entry # e
  BY <1>2 DEF FreeEntries, Pending
<1>8. Frame(f, e) \in Frames /\ Frame(f, e).file = f /\ Frame(f, e).entry = e /\ Frame(f, e).rest = Extends[f]
  BY <1>5, <1>7, FilesOf DEF Frame, Frames
<1>9. /\ t \in Seq(Frames) /\ Nested(t) /\ Len(t) = Len(s) + 1 /\ t[Len(t)] = Frame(f, e) /\ Len(t) \in 2 .. Len(t)
      /\ \A i \in 1 .. Len(s) : t[i] = s[i]
  <2>1. PICK x : x = Frame(f, e)
    OBVIOUS
  <2>2. /\ x \in Frames /\ x.rest \subseteq Extends[x.file] /\ x.entry \in Entries
        /\ x.file \in Extends[s[Len(s)].file] /\ x.file # s[Len(s)].file /\ t = Append(s, x)
    BY <1>4, <1>5, <1>6, <1>7, <1>8, <2>1
  <2>3. Nested(t)
    BY <1>5, <2>2, NestedAppend, Zenon
  <2>4. t \in Seq(Frames) /\ Len(t) = Len(s) + 1 /\ t[Len(s) + 1] = x /\ \A i \in 1 .. Len(s) : t[i] = s[i]
    BY <1>5, <2>2, AppendedIs
  <2>5. Len(t) \in 2 .. Len(t)
    BY <1>5, <2>4
  <2> QED BY <2>1, <2>3, <2>4, <2>5
<1> DEFINE w == [go[p] EXCEPT !.stack = t]
<1>10. w \in Works /\ w.pc = "load" /\ w.waiting = Nil /\ w.stack = t
  BY <1>2, <1>5, <1>9 DEF Works
<1>11. go' = [go EXCEPT ![p] = w]
  BY <1>2, <1>3, <1>4
<1> HIDE DEF w
<1>12. /\ entries' \in [ExtendedFiles -> Entries \cup {Nil}] /\ lockedBy' \in [Entries -> Procs \cup {Nil}]
       /\ registry' \in [Snapshots -> SUBSET Configs] /\ toLoad' \in SUBSET Configs
  BY <1>1, <1>2, <1>5, <1>7 DEF snapVars, LockTyped
<1>13. NestedOK(w)
  BY <1>9, <1>10 DEF NestedOK
<1>14. go'[p] = w /\ \A q \in Procs : q # p => go'[q] = go[q]
  BY <1>1, <1>5, <1>11 DEF LockTyped
<1>15. HasEntry(w, e) /\ \A x \in Entries : HasEntry(go[p], x) => HasEntry(w, x)
  <2>1. \A i \in 2 .. Len(s) : i \in 2 .. Len(t) /\ t[i] = s[i]
    BY <1>5, <1>9
  <2> QED BY <1>3, <1>8, <1>9, <1>10, <2>1 DEF HasEntry
<1>16. ASSUME NEW x \in Entries, NEW g \in ExtendedFiles, Known(x, g)'
       PROVE  (x = e => g = f) /\ (x # e => Known(x, g))
  <2>1. CASE entries'[g] = x
    <3>1. entries'[g] = IF g = f THEN e ELSE entries[g]
      BY <1>1, <1>2 DEF LockTyped
    <3> QED BY <1>7, <2>1, <3>1 DEF Known
  <2>2. ASSUME NEW q \in Loaders \cup Disposers, KnownBy(go'[q], x, g) PROVE (x = e => g = f) /\ (x # e => Known(x, g))
    <3>1. q \in Procs
      BY Goroutines
    <3>2. CASE q # p
      <4>1. KnownBy(go[q], x, g)
        BY <1>14, <2>2, <3>1, <3>2
      <4>2. go[q] \in Works
        BY <1>1, <3>1 DEF LockTyped
      <4>3. PICK u \in Seq(Frames) : u = go[q].stack
        BY <4>2 DEF Works
      <4>4. \A i \in 2 .. Len(u) : i \in DOMAIN u
        OBVIOUS
      <4>5. x # e
        BY <1>7, <3>1, <4>1, <4>3, <4>4 DEF KnownBy
      <4> QED BY <4>1, <4>5 DEF Known
    <3>3. CASE q = p
      <4>1. PICK i \in 2 .. Len(t) : t[i].entry = x /\ t[i].file = g
        BY <1>10, <1>14, <2>2, <3>1, <3>3, FilesOf DEF KnownBy
      <4>2. CASE i = Len(t)
        BY <1>8, <1>9, <4>1, <4>2
      <4>3. CASE i # Len(t)
        <5>1. i \in 2 .. Len(s) /\ i \in 1 .. Len(s) /\ i \in DOMAIN s
          BY <1>5, <1>9, <4>1, <4>3
        <5>2. s[i].entry = x /\ s[i].file = g
          BY <1>9, <4>1, <5>1
        <5>3. x # e
          BY <1>3, <1>5, <1>7, <5>1, <5>2
        <5>4. KnownBy(go[p], x, g)
          BY <1>3, <5>1, <5>2 DEF KnownBy
        <5> QED BY <5>3, <5>4 DEF Known
      <4> QED BY <4>2, <4>3
    <3> QED BY <3>2, <3>3
  <2>3. entries'[g] = x \/ \E q \in Loaders \cup Disposers : KnownBy(go'[q], x, g)
    BY <1>16 DEF Known, KnownBy
  <2> QED BY <2>1, <2>2, <2>3
<1>17. OneKey'
  <2> SUFFICES ASSUME NEW x \in Entries, NEW g \in ExtendedFiles, NEW h \in ExtendedFiles, Known(x, g)', Known(x, h)'
               PROVE  g = h
    BY DEF OneKey
  <2>1. CASE x = e
    BY <1>16, <2>1
  <2>2. CASE x # e
    <3>1. Known(x, g) /\ Known(x, h)
      BY <1>16, <2>2
    <3> QED BY <1>1, <3>1 DEF OneKey
  <2> QED BY <2>1, <2>2
<1>18. ASSUME NEW x \in Entries
       PROVE  \/ lockedBy'[x] = Nil
              \/ lockedBy'[x] = p /\ p \in Loaders /\ w.pc = "load" /\ HasEntry(w, x)
              \/ lockedBy'[x] = lockedBy[x] /\ lockedBy[x] # p
  <2>1. lockedBy'[x] = IF x = e THEN p ELSE lockedBy[x]
    BY <1>1, <1>2 DEF LockTyped
  <2>2. lockedBy[x] = p => HasEntry(go[p], x)
    BY <1>1, <1>5, Goroutines DEF HeldOK
  <2> QED BY <1>10, <1>15, <2>1, <2>2
<1> QED BY <1>5, <1>10, <1>11, <1>12, <1>13, <1>17, <1>18, LockSteps

\* The entry's value will do.
LEMMA ReuseLocks == ASSUME Locking, NEW p \in Loaders, Reuse(p) PROVE Locking'
<1>1. /\ go[p].pc = "load"
      /\ go' = [go EXCEPT ![p].waiting = Nil, ![p].file = Nil, ![p].stack = Parsed(@, go[p].file)]
      /\ UNCHANGED <<entries, lockedBy, snapVars, panicked>>
  BY DEF Reuse
<1>2. PICK s : s = go[p].stack
  OBVIOUS
<1>3. PICK t : t = Parsed(s, go[p].file)
  OBVIOUS
<1>4. go[p] \in Works /\ s \in Seq(Frames) /\ Nested(s) /\ go[Builder].pc = "load"
  BY <1>1, <1>2, LoaderIs
<1>5. /\ t \in Seq(Frames) /\ Nested(t) /\ Len(t) = Len(s)
      /\ \A i \in 1 .. Len(s) : t[i].entry = s[i].entry /\ t[i].file = s[i].file
  BY <1>3, <1>4, NestedParsed
<1> DEFINE w == [go[p] EXCEPT !.waiting = Nil, !.file = Nil, !.stack = t]
<1>6. w \in Works /\ w.pc = "load" /\ w.waiting = Nil /\ w.stack = t
  BY <1>1, <1>4, <1>5 DEF Works
<1>7. go' = [go EXCEPT ![p] = w]
  BY <1>1, <1>2, <1>3
<1> HIDE DEF w
<1>8. /\ UNCHANGED <<entries, lockedBy, registry>> /\ toLoad' \in SUBSET Configs
  BY <1>1 DEF snapVars, Locking, LockTyped
<1>9. NestedOK(w)
  BY <1>5, <1>6 DEF NestedOK
<1>10. \A i \in 2 .. Len(s) : i \in 1 .. Len(s)
  BY <1>4
<1>11. \A e \in Entries : HasEntry(go[p], e) => HasEntry(w, e)
  BY <1>2, <1>5, <1>6, <1>10 DEF HasEntry
<1>12. \A e \in Entries : \A g \in ExtendedFiles : KnownBy(w, e, g) => KnownBy(go[p], e, g)
  BY <1>2, <1>5, <1>6, <1>10, FilesOf DEF KnownBy
<1> QED BY <1>4, <1>6, <1>7, <1>8, <1>9, <1>11, <1>12, LoaderMoves DEF Known

\* The entry is locked and parsed anew.
LEMMA ReparseLocks == ASSUME Locking, NEW p \in Loaders, Reparse(p) PROVE Locking'
<1>1. LockTyped /\ HeldOK /\ NestedOK(go[p])
  BY DEF Locking
<1>2. PICK e, f : e = go[p].waiting /\ f = go[p].file
  OBVIOUS
<1>3. /\ go[p].pc = "load" /\ e # Nil /\ lockedBy[e] = Nil
      /\ lockedBy' = [lockedBy EXCEPT ![e] = p]
      /\ go' = [go EXCEPT ![p].waiting = Nil, ![p].file = Nil, ![p].stack = Append(@, Frame(f, e))]
      /\ UNCHANGED <<entries, owners, snapVars, panicked>>
  BY <1>2 DEF Reparse, CanLock
<1>4. PICK s : s = go[p].stack
  OBVIOUS
<1>5. PICK t : t = Append(s, Frame(f, e))
  OBVIOUS
<1>6. /\ p \in Procs /\ p # Builder /\ go[p] \in Works /\ s \in Seq(Frames) /\ Nested(s) /\ go[Builder].pc = "load"
      /\ Len(s) \in 1 .. Len(s) /\ Top(p) = s[Len(s)] /\ Top(p).rest \subseteq ExtendedFiles
      /\ Top(p).rest \subseteq Extends[Top(p).file]
  BY <1>3, <1>4, LoaderIs
<1>7. f \in Top(p).rest /\ f # s[Len(s)].file
  BY <1>1, <1>2, <1>3, <1>4, <1>6 DEF NestedOK, TopOf
<1>8. e \in Entries
  BY <1>2, <1>3, <1>6 DEF Works
<1>9. Frame(f, e) \in Frames /\ Frame(f, e).file = f /\ Frame(f, e).entry = e /\ Frame(f, e).rest = Extends[f]
  BY <1>6, <1>7, <1>8, FilesOf DEF Frame, Frames
<1>10. /\ t \in Seq(Frames) /\ Nested(t) /\ Len(t) = Len(s) + 1 /\ t[Len(t)] = Frame(f, e) /\ Len(t) \in 2 .. Len(t)
       /\ \A i \in 1 .. Len(s) : t[i] = s[i]
  <2>1. PICK x : x = Frame(f, e)
    OBVIOUS
  <2>2. /\ x \in Frames /\ x.rest \subseteq Extends[x.file] /\ x.entry \in Entries
        /\ x.file \in Extends[s[Len(s)].file] /\ x.file # s[Len(s)].file /\ t = Append(s, x)
    BY <1>5, <1>6, <1>7, <1>8, <1>9, <2>1
  <2>3. Nested(t)
    BY <1>6, <2>2, NestedAppend, Zenon
  <2>4. t \in Seq(Frames) /\ Len(t) = Len(s) + 1 /\ t[Len(s) + 1] = x /\ \A i \in 1 .. Len(s) : t[i] = s[i]
    BY <1>6, <2>2, AppendedIs
  <2>5. Len(t) \in 2 .. Len(t)
    BY <1>6, <2>4
  <2> QED BY <2>1, <2>3, <2>4, <2>5
<1> DEFINE w == [go[p] EXCEPT !.waiting = Nil, !.file = Nil, !.stack = t]
<1>11. w \in Works /\ w.pc = "load" /\ w.waiting = Nil /\ w.stack = t
  BY <1>3, <1>6, <1>10 DEF Works
<1>12. go' = [go EXCEPT ![p] = w]
  BY <1>3, <1>4, <1>5
<1> HIDE DEF w
<1>13. /\ entries' \in [ExtendedFiles -> Entries \cup {Nil}] /\ lockedBy' \in [Entries -> Procs \cup {Nil}]
       /\ registry' \in [Snapshots -> SUBSET Configs] /\ toLoad' \in SUBSET Configs
  BY <1>1, <1>3, <1>6, <1>8 DEF snapVars, LockTyped
<1>14. NestedOK(w)
  BY <1>10, <1>11 DEF NestedOK
<1>15. HasEntry(w, e) /\ \A x \in Entries : HasEntry(go[p], x) => HasEntry(w, x)
  <2>1. \A i \in 2 .. Len(s) : i \in 2 .. Len(t) /\ t[i] = s[i]
    BY <1>6, <1>10
  <2> QED BY <1>4, <1>9, <1>10, <1>11, <2>1 DEF HasEntry
<1>16. ASSUME NEW x \in Entries, NEW g \in ExtendedFiles, KnownBy(w, x, g) PROVE KnownBy(go[p], x, g)
  <2>1. PICK i \in 2 .. Len(t) : t[i].entry = x /\ t[i].file = g
    BY <1>11, <1>16, FilesOf DEF KnownBy
  <2>2. CASE i = Len(t)
    BY <1>2, <1>9, <1>10, <2>1, <2>2 DEF KnownBy
  <2>3. CASE i # Len(t)
    <3>1. i \in 2 .. Len(s) /\ i \in 1 .. Len(s)
      BY <1>6, <1>10, <2>1, <2>3
    <3> QED BY <1>4, <1>10, <2>1, <3>1 DEF KnownBy
  <2> QED BY <2>2, <2>3
<1>17. OneKey'
  <2>1. \A x \in Entries : \A g \in ExtendedFiles : KnownBy(w, x, g) => Known(x, g)
    BY <1>16 DEF Known
  <2>2. \A x \in Entries : \A g \in ExtendedFiles : entries'[g] = x => Known(x, g)
    BY <1>3 DEF Known
  <2> QED BY <1>6, <1>12, <2>1, <2>2, KeysStay
<1>18. ASSUME NEW x \in Entries
       PROVE  \/ lockedBy'[x] = Nil
              \/ lockedBy'[x] = p /\ p \in Loaders /\ w.pc = "load" /\ HasEntry(w, x)
              \/ lockedBy'[x] = lockedBy[x] /\ lockedBy[x] # p
  <2>1. lockedBy'[x] = IF x = e THEN p ELSE lockedBy[x]
    BY <1>1, <1>3 DEF LockTyped
  <2>2. lockedBy[x] = p => HasEntry(go[p], x)
    BY <1>1, <1>6, Goroutines DEF HeldOK
  <2> QED BY <1>11, <1>15, <2>1, <2>2
<1> QED BY <1>6, <1>11, <1>12, <1>13, <1>14, <1>17, <1>18, LockSteps

\* A file is parsed, and its entry unlocked.
LEMMA FileLocks == ASSUME Locking, NEW p \in Loaders, FinishFile(p) PROVE Locking'
<1>1. LockTyped /\ HeldOK
  BY DEF Locking
<1>2. PICK s, b : s = go[p].stack /\ b = SubSeq(go[p].stack, 1, Len(go[p].stack) - 1)
  OBVIOUS
<1>3. PICK e, f : e = Top(p).entry /\ f = Top(p).file
  OBVIOUS
<1>4. PICK t : t = Parsed(b, f)
  OBVIOUS
<1>5. /\ go[p].pc = "load" /\ go[p].waiting = Nil /\ Len(s) > 1
      /\ lockedBy' = [lockedBy EXCEPT ![e] = Nil]
      /\ go' = [go EXCEPT ![p].stack = t]
      /\ UNCHANGED <<entries, snapVars, panicked>>
  BY <1>2, <1>3, <1>4 DEF FinishFile, Parsing, Unlocked
<1>6. /\ p \in Procs /\ p # Builder /\ go[p] \in Works /\ s \in Seq(Frames) /\ Nested(s) /\ go[Builder].pc = "load"
      /\ Len(s) \in 1 .. Len(s) /\ Top(p) = s[Len(s)]
  BY <1>2, <1>5, LoaderIs
<1>7. b \in Seq(Frames) /\ Nested(b) /\ Len(b) = Len(s) - 1 /\ \A i \in 1 .. Len(b) : b[i] = s[i]
  BY <1>2, <1>5, <1>6, NestedBelow
<1>8. /\ t \in Seq(Frames) /\ Nested(t) /\ Len(t) = Len(b)
      /\ \A i \in 1 .. Len(b) : t[i].entry = b[i].entry /\ t[i].file = b[i].file
  BY <1>4, <1>7, NestedParsed
<1> DEFINE w == [go[p] EXCEPT !.stack = t]
<1>9. w \in Works /\ w.pc = "load" /\ w.waiting = Nil /\ w.stack = t
  BY <1>5, <1>6, <1>8 DEF Works
<1>10. go' = [go EXCEPT ![p] = w]
  BY <1>5
<1> HIDE DEF w
<1>11. /\ entries' \in [ExtendedFiles -> Entries \cup {Nil}] /\ lockedBy' \in [Entries -> Procs \cup {Nil}]
       /\ registry' \in [Snapshots -> SUBSET Configs] /\ toLoad' \in SUBSET Configs
  BY <1>1, <1>5 DEF snapVars, LockTyped
<1>12. NestedOK(w)
  BY <1>8, <1>9 DEF NestedOK
<1>13. \A i \in 2 .. Len(t) : i \in 2 .. Len(s) /\ i \in 1 .. Len(b)
  BY <1>6, <1>7, <1>8
<1>14. \A x \in Entries : \A g \in ExtendedFiles : KnownBy(w, x, g) => KnownBy(go[p], x, g)
  BY <1>2, <1>7, <1>8, <1>9, <1>13, FilesOf DEF KnownBy
<1>15. OneKey'
  <2>1. \A x \in Entries : \A g \in ExtendedFiles : KnownBy(w, x, g) => Known(x, g)
    BY <1>14 DEF Known
  <2>2. \A x \in Entries : \A g \in ExtendedFiles : entries'[g] = x => Known(x, g)
    BY <1>5 DEF Known
  <2> QED BY <1>6, <1>10, <2>1, <2>2, KeysStay
<1>16. ASSUME NEW x \in Entries
       PROVE  \/ lockedBy'[x] = Nil
              \/ lockedBy'[x] = p /\ p \in Loaders /\ w.pc = "load" /\ HasEntry(w, x)
              \/ lockedBy'[x] = lockedBy[x] /\ lockedBy[x] # p
  <2>1. lockedBy'[x] = IF x = e THEN Nil ELSE lockedBy[x]
    BY <1>1, <1>5 DEF LockTyped
  <2>2. ASSUME x # e, lockedBy[x] = p PROVE HasEntry(w, x)
    <3>1. HasEntry(go[p], x)
      BY <1>1, <1>6, <2>2, Goroutines DEF HeldOK
    <3>2. PICK i \in 2 .. Len(s) : s[i].entry = x
      BY <1>2, <3>1 DEF HasEntry
    <3>3. i # Len(s)
      BY <1>3, <1>6, <2>2, <3>2
    <3>4. i \in 2 .. Len(t) /\ i \in 1 .. Len(b)
      BY <1>6, <1>7, <1>8, <3>2, <3>3
    <3>5. t[i].entry = x
      BY <1>7, <1>8, <3>2, <3>4
    <3> QED BY <1>9, <3>4, <3>5 DEF HasEntry
  <2> QED BY <1>9, <2>1, <2>2
<1> QED BY <1>6, <1>9, <1>10, <1>11, <1>12, <1>15, <1>16, LockSteps

\* A step of a goroutine that is no loader, and that stores and locks nothing.
LEMMA OtherMoves ==
  ASSUME Locking, NEW p \in {Builder} \cup Disposers, NEW w \in Works, go' = [go EXCEPT ![p] = w], UNCHANGED lockedBy,
         entries' \in [ExtendedFiles -> Entries \cup {Nil}],
         registry' \in [Snapshots -> SUBSET Configs], toLoad' \in SUBSET Configs,
         p = Builder /\ w.pc # "load" => \A q \in Loaders : go[q].pc = "idle",
         \A e \in Entries : \A f \in ExtendedFiles : entries'[f] = e => entries[f] = e,
         p # Builder => \A e \in Entries : \A f \in ExtendedFiles : KnownBy(w, e, f) => Known(e, f)
  PROVE  Locking'
<1>1. LockTyped /\ HeldOK /\ p \in Procs /\ p \notin Loaders
  BY Goroutines DEF Locking
<1>2. lockedBy' \in [Entries -> Procs \cup {Nil}]
  BY <1>1 DEF LockTyped
<1>3. OneKey'
  <2>1. \A e \in Entries : \A f \in ExtendedFiles : entries'[f] = e => Known(e, f)
    BY DEF Known
  <2> QED BY <1>1, <2>1, KeysStay
<1>4. \A e \in Entries : lockedBy'[e] = Nil \/ (lockedBy'[e] = lockedBy[e] /\ lockedBy[e] # p)
  BY <1>1 DEF HeldOK
<1> QED BY <1>1, <1>2, <1>3, <1>4, LockSteps

\* A clone starts.
LEMMA CloneLocks == ASSUME Locking, StartClone PROVE Locking'
<1>1. PICK configs \in SUBSET Configs, loads \in SUBSET Configs :
       /\ life[Last] = "unborn"
       /\ registry' = [registry EXCEPT ![NewSnapshot] = configs] /\ toLoad' = loads
       /\ go' = [go EXCEPT ![Builder] = [NoWork EXCEPT !.pc = "load", !.snap = NewSnapshot]]
       /\ UNCHANGED <<cacheVars, current, panicked>>
  BY DEF StartClone
<1> DEFINE w == [NoWork EXCEPT !.pc = "load", !.snap = NewSnapshot]
<1>2. w \in Works /\ w.pc = "load"
  BY <1>1, NewSnapshotBounded, NoWorkIs DEF Works, NoWork
<1>3. go' = [go EXCEPT ![Builder] = w]
  BY <1>1
<1> HIDE DEF w
<1>4. UNCHANGED <<entries, lockedBy>> /\ entries' \in [ExtendedFiles -> Entries \cup {Nil}]
  BY <1>1 DEF cacheVars, Locking, LockTyped
<1>5. registry' \in [Snapshots -> SUBSET Configs] /\ toLoad' \in SUBSET Configs
  BY <1>1 DEF Locking, LockTyped
<1> QED BY <1>2, <1>3, <1>4, <1>5, OtherMoves

\* Every configuration is loaded.
LEMMA LoadedLocks == ASSUME Locking, FinishLoading PROVE Locking'
<1>1. PICK drop \in SUBSET registry[go[Builder].snap] :
       /\ registry' = [registry EXCEPT ![go[Builder].snap] = @ \ drop]
       /\ go' = [go EXCEPT ![Builder].pc = "own",
                           ![Builder].todo = ToOwn(registry[go[Builder].snap] \ drop)]
  BY DEF FinishLoading
<1>2. (\A q \in Loaders : go[q].pc = "idle") /\ UNCHANGED <<entries, lockedBy, toLoad>>
  BY DEF FinishLoading, Loaded, cacheVars
<1>3. LockTyped /\ go[Builder] \in Works
  BY Goroutines DEF Locking, LockTyped
<1>4. go[Builder].snap \in Snapshots
  BY <1>3 DEF Works
<1>5. registry[go[Builder].snap] \in SUBSET Configs
  BY <1>3, <1>4 DEF LockTyped
<1>6. PICK todo \in SUBSET (Configs \X ExtendedFiles) : todo = ToOwn(registry[go[Builder].snap] \ drop)
  BY <1>5, UsesInFiles DEF ToOwn
<1> DEFINE w == [go[Builder] EXCEPT !.pc = "own", !.todo = todo]
<1>7. w \in Works
  BY <1>3, <1>6 DEF Works
<1>8. go' = [go EXCEPT ![Builder] = w]
  BY <1>1, <1>6
<1> HIDE DEF w
<1>9. /\ entries' \in [ExtendedFiles -> Entries \cup {Nil}] /\ toLoad' \in SUBSET Configs
      /\ registry' \in [Snapshots -> SUBSET Configs]
  BY <1>1, <1>2, <1>3, <1>5 DEF LockTyped
<1> QED BY <1>2, <1>7, <1>8, <1>9, OtherMoves

\* AddOwner looks an entry up, or panics.
LEMMA AddLookupLocks == ASSUME Locking, AddOwnerLookup PROVE Locking'
<1>1. /\ go[Builder].pc = "own" /\ UNCHANGED <<entries, lockedBy, registry, toLoad>>
  BY DEF AddOwnerLookup, cacheVars, snapVars
<1>2. PICK u \in go[Builder].todo :
        IF entries[u[2]] = Nil THEN UNCHANGED go
        ELSE go' = [go EXCEPT ![Builder].waiting = entries[u[2]], ![Builder].todo = @ \ {u}]
  BY DEF AddOwnerLookup
<1>3. LockTyped /\ go[Builder] \in Works /\ go \in [Procs -> Works] /\ Builder \in Procs
  BY Goroutines DEF Locking, LockTyped
<1>4. entries' \in [ExtendedFiles -> Entries \cup {Nil}] /\ registry' \in [Snapshots -> SUBSET Configs] /\ toLoad' \in SUBSET Configs
  BY <1>1, <1>3 DEF LockTyped
<1>5. \A q \in Loaders : go[q].pc = "idle"
  BY <1>1 DEF Locking
<1>6. go[Builder].todo \in SUBSET (Configs \X ExtendedFiles)
  BY <1>3 DEF Works
<1>7. PICK x : x = entries[u[2]]
  OBVIOUS
<1>8. x \in Entries \cup {Nil}
  BY <1>3, <1>6, <1>7 DEF LockTyped
<1>9. PICK w \in Works : go' = [go EXCEPT ![Builder] = w]
  <2>1. CASE x = Nil
    <3>1. go' = [go EXCEPT ![Builder] = go[Builder]]
      BY <1>2, <1>3, <1>7, <2>1
    <3> QED BY <1>3, <3>1
  <2>2. CASE x # Nil
    <3> DEFINE w == [go[Builder] EXCEPT !.waiting = x, !.todo = @ \ {u}]
    <3>1. w \in Works
      BY <1>3, <1>6, <1>8 DEF Works
    <3>2. go' = [go EXCEPT ![Builder] = w]
      BY <1>2, <1>7, <2>2
    <3> QED BY <3>1, <3>2
  <2> QED BY <2>1, <2>2
<1> QED BY <1>1, <1>4, <1>5, <1>9, OtherMoves

\* AddOwner, or the clone replaces the session's snapshot.
LEMMA AddLocks == ASSUME Locking, AddOwner \/ FinishClone PROVE Locking'
<1>1. /\ go[Builder].pc = "own" /\ UNCHANGED <<entries, lockedBy, registry, toLoad>>
      /\ go' = [go EXCEPT ![Builder].waiting = Nil] \/ go' = [go EXCEPT ![Builder] = NoWork]
  BY DEF AddOwner, FinishClone, cacheVars, snapVars
<1>2. LockTyped /\ go[Builder] \in Works
  BY Goroutines DEF Locking, LockTyped
<1>3. entries' \in [ExtendedFiles -> Entries \cup {Nil}] /\ registry' \in [Snapshots -> SUBSET Configs] /\ toLoad' \in SUBSET Configs
  BY <1>1, <1>2 DEF LockTyped
<1>4. \A q \in Loaders : go[q].pc = "idle"
  BY <1>1 DEF Locking
<1>5. [go[Builder] EXCEPT !.waiting = Nil] \in Works
  BY <1>2 DEF Works
<1>6. PICK w \in Works : go' = [go EXCEPT ![Builder] = w]
  BY <1>1, <1>5, NoWorkIs
<1> QED BY <1>1, <1>3, <1>4, <1>6, OtherMoves

\* A snapshot is disposed of, or has been.
LEMMA DisposeLocks == ASSUME Locking, NEW d \in Disposers, StartDispose(d) \/ FinishDispose(d) PROVE Locking'
<1>1. LockTyped /\ d # Builder
  BY Goroutines DEF Locking
<1>2. UNCHANGED <<entries, lockedBy, registry, toLoad>>
  BY DEF StartDispose, FinishDispose, cacheVars
<1>3. \/ go' = [go EXCEPT ![d] = NoWork]
      \/ \E s \in Snapshots : go' = [go EXCEPT ![d] = [NoWork EXCEPT !.pc = "release", !.snap = s, !.todo = UsesOf(s)]]
  BY DEF StartDispose, FinishDispose
<1>4. \A s \in Snapshots : UsesOf(s) \in SUBSET (Configs \X ExtendedFiles)
  BY <1>1, UsesInFiles DEF UsesOf, LockTyped
<1>5. ASSUME NEW s \in Snapshots, NEW todo \in SUBSET (Configs \X ExtendedFiles)
      PROVE  LET x == [NoWork EXCEPT !.pc = "release", !.snap = s, !.todo = todo]
             IN x \in Works /\ x.stack = <<>> /\ x.waiting = Nil
  BY NoWorkIs DEF Works
<1>6. PICK w \in Works : go' = [go EXCEPT ![d] = w] /\ w.stack = <<>> /\ w.waiting = Nil
  <2>1. CASE go' = [go EXCEPT ![d] = NoWork]
    BY <2>1, NoWorkIs
  <2>2. ASSUME NEW s \in Snapshots,
               go' = [go EXCEPT ![d] = [NoWork EXCEPT !.pc = "release", !.snap = s, !.todo = UsesOf(s)]]
        PROVE  \E w \in Works : go' = [go EXCEPT ![d] = w] /\ w.stack = <<>> /\ w.waiting = Nil
    BY <1>4, <1>5, <2>2
  <2> QED BY <1>3, <2>1, <2>2
<1>7. entries' \in [ExtendedFiles -> Entries \cup {Nil}] /\ registry' \in [Snapshots -> SUBSET Configs] /\ toLoad' \in SUBSET Configs
  BY <1>1, <1>2 DEF LockTyped
<1>8. \A e \in Entries : \A f \in ExtendedFiles : ~KnownBy(w, e, f)
  BY <1>6, FilesOf DEF KnownBy
<1> QED BY <1>1, <1>2, <1>6, <1>7, <1>8, OtherMoves

\* Release looks an entry up.
LEMMA ReleaseLookupLocks == ASSUME Locking, NEW d \in Disposers, ReleaseLookup(d) PROVE Locking'
<1>1. PICK u \in go[d].todo :
        go' = [go EXCEPT ![d].todo = @ \ {u}, ![d].waiting = entries[u[2]],
                         ![d].file = IF entries[u[2]] = Nil THEN Nil ELSE u[2]]
  BY DEF ReleaseLookup
<1>2. UNCHANGED <<entries, lockedBy, registry, toLoad>>
  BY DEF ReleaseLookup, snapVars, cacheVars
<1>3. LockTyped /\ d # Builder /\ d \in Procs /\ go[d] \in Works
  BY Goroutines DEF Locking, LockTyped
<1>4. PICK f : f = u[2]
  OBVIOUS
<1>5. go[d].todo \in SUBSET (Configs \X ExtendedFiles)
  BY <1>3 DEF Works
<1>6. f \in ExtendedFiles
  BY <1>1, <1>4, <1>5
<1>7. entries[f] \in Entries \cup {Nil}
  BY <1>3, <1>6 DEF LockTyped
<1> DEFINE w == [go[d] EXCEPT !.todo = @ \ {u}, !.waiting = entries[f], !.file = IF entries[f] = Nil THEN Nil ELSE f]
<1>8. w \in Works /\ w.stack = go[d].stack /\ w.waiting = entries[f] /\ w.file = IF entries[f] = Nil THEN Nil ELSE f
  BY <1>3, <1>5, <1>6, <1>7 DEF Works
<1>9. go' = [go EXCEPT ![d] = w]
  BY <1>1, <1>4
<1> HIDE DEF w
<1>10. entries' \in [ExtendedFiles -> Entries \cup {Nil}] /\ registry' \in [Snapshots -> SUBSET Configs] /\ toLoad' \in SUBSET Configs
  BY <1>2, <1>3 DEF LockTyped
<1>11. ASSUME NEW e \in Entries, NEW g \in ExtendedFiles, KnownBy(w, e, g) PROVE Known(e, g)
  <2>1. CASE w.waiting = e /\ w.file = g
    <3>1. entries[f] = e /\ f = g
      BY <1>8, <2>1, FilesOf
    <3> QED BY <3>1 DEF Known
  <2>2. CASE \E i \in 2 .. Len(w.stack) : w.stack[i].entry = e /\ w.stack[i].file = g
    BY <1>8, <2>2 DEF Known, KnownBy
  <2> QED BY <1>11, <2>1, <2>2 DEF KnownBy
<1> QED BY <1>2, <1>3, <1>8, <1>9, <1>10, <1>11, OtherMoves

\* Release.
LEMMA ReleaseLocks == ASSUME Locking, NEW d \in Disposers, ReleaseEntry(d) PROVE Locking'
<1>1. /\ go' = [go EXCEPT ![d].waiting = Nil, ![d].file = Nil]
      /\ entries' = entries \/ entries' = [entries EXCEPT ![go[d].file] = Nil]
      /\ UNCHANGED <<lockedBy, registry, toLoad>>
  BY DEF ReleaseEntry, snapVars
<1>2. LockTyped /\ d # Builder /\ d \in Procs /\ go[d] \in Works
  BY Goroutines DEF Locking, LockTyped
<1> DEFINE w == [go[d] EXCEPT !.waiting = Nil, !.file = Nil]
<1>3. w \in Works /\ w.stack = go[d].stack /\ w.waiting = Nil
  BY <1>2 DEF Works
<1>4. go' = [go EXCEPT ![d] = w]
  BY <1>1
<1> HIDE DEF w
<1>5. entries' \in [ExtendedFiles -> Entries \cup {Nil}] /\ registry' \in [Snapshots -> SUBSET Configs] /\ toLoad' \in SUBSET Configs
  BY <1>1, <1>2 DEF LockTyped
<1>6. \A e \in Entries : \A f \in ExtendedFiles : entries'[f] = e => entries[f] = e
  BY <1>1, <1>2, FilesOf DEF LockTyped
<1>7. \A e \in Entries : \A f \in ExtendedFiles : KnownBy(w, e, f) => Known(e, f)
  BY <1>3, FilesOf DEF Known, KnownBy
<1> QED BY <1>1, <1>2, <1>3, <1>4, <1>5, <1>6, <1>7, OtherMoves

\* The first snapshot has loaded nothing.
LEMMA LockInit == ASSUME OwnersInit PROVE Locking
<1>1. /\ entries = [f \in ExtendedFiles |-> Nil] /\ lockedBy = [e \in Entries |-> Nil]
      /\ registry = [s \in Snapshots |-> {}] /\ toLoad = {} /\ go = [p \in Procs |-> NoWork]
  BY DEF OwnersInit
<1>2. LockTyped
  BY <1>1, NoWorkIs DEF LockTyped
<1>3. \A p \in Procs : go[p] = NoWork
  BY <1>1
<1>4. \A p \in Loaders : NestedOK(go[p]) /\ go[p].pc = "idle"
  BY <1>3, NoWorkIs, Goroutines DEF NestedOK
<1>5. HeldOK
  BY <1>1 DEF HeldOK
<1>6. ASSUME NEW e \in Entries, NEW f \in ExtendedFiles PROVE ~Known(e, f)
  <2>1. \A p \in Loaders \cup Disposers : ~KnownBy(go[p], e, f)
    BY <1>3, NoWorkIs, Goroutines, FilesOf DEF KnownBy
  <2> QED BY <1>1, <2>1, FilesOf DEF Known
<1> QED BY <1>2, <1>4, <1>5, <1>6 DEF Locking, OneKey

\* Every step keeps it.
LEMMA LockStep == ASSUME Locking, [OwnersNext]_ownersVars PROVE Locking'
<1>1. CASE StartClone
  BY <1>1, CloneLocks
<1>2. CASE BuilderStep
  BY <1>2, LoadedLocks, AddLookupLocks, AddLocks DEF BuilderStep
<1>3. ASSUME NEW p \in Loaders, LoaderStep(p) PROVE Locking'
  BY <1>3, VisitLocks, ReportLocks, StoreLocks, FindLocks, RetryLocks, ReuseLocks, ReparseLocks, FileLocks, ConfigLocks
  DEF LoaderStep
<1>4. ASSUME NEW d \in Disposers, StartDispose(d) \/ DisposerStep(d) PROVE Locking'
  BY <1>4, DisposeLocks, ReleaseLookupLocks, ReleaseLocks DEF DisposerStep
<1>5. CASE UNCHANGED ownersVars
  <2>1. entries' = entries /\ lockedBy' = lockedBy /\ registry' = registry /\ toLoad' = toLoad /\ go' = go
    BY <1>5 DEF ownersVars, cacheVars, snapVars
  <2>2. LockTyped' /\ HeldOK'
    BY <2>1 DEF Locking, LockTyped, HeldOK, HasEntry
  <2>3. \A e, f : Known(e, f)' <=> Known(e, f)
    BY <2>1 DEF Known, KnownBy
  <2>4. OneKey'
    BY <2>3 DEF Locking, OneKey
  <2>5. \A p \in Loaders : NestedOK(go[p])'
    BY <2>1 DEF Locking, NestedOK, Nested, TopOf
  <2> QED BY <2>1, <2>2, <2>4, <2>5 DEF Locking
<1> QED BY <1>1, <1>2, <1>3, <1>4, <1>5 DEF OwnersNext

\* Of a file that is being parsed: if its goroutine is blocked, the file extends another
\* one that is being parsed, the next on the stack or the one waited for.
LEMMA NextParsed ==
  ASSUME Locking, NEW p \in Loaders, go[p].pc = "load", Blocked(p), NEW i \in 2 .. Len(go[p].stack)
  PROVE  \E q \in Loaders : /\ go[q].pc = "load"
           /\ \E j \in 2 .. Len(go[q].stack) :
                go[q].stack[j].file \in Extends[go[p].stack[i].file] \ {go[p].stack[i].file}
<1>1. PICK s : s = go[p].stack
  OBVIOUS
<1>2. /\ s \in Seq(Frames) /\ Nested(s) /\ Len(s) \in 1 .. Len(s) /\ p # Builder /\ go[p] \in Works
      /\ Top(p) = s[Len(s)] /\ Top(p).rest \subseteq ExtendedFiles /\ Top(p).rest \subseteq Extends[Top(p).file]
  BY <1>1, LoaderIs
<1>3. CASE i # Len(s)
  <2>1. i + 1 \in 2 .. Len(s) /\ (i + 1) - 1 = i
    BY <1>1, <1>2, <1>3
  <2>2. s[i + 1].file \in Extends[s[(i + 1) - 1].file] \ {s[(i + 1) - 1].file}
    BY <1>2, <2>1 DEF Nested
  <2> QED BY <1>1, <2>1, <2>2
<1>4. CASE i = Len(s)
  <2>1. PICK e, f : e = go[p].waiting /\ f = go[p].file
    OBVIOUS
  <2>2. e # Nil /\ e \in Entries /\ lockedBy[e] # Nil
    BY <1>2, <2>1 DEF Blocked, CanLock, Works
  <2>3. NestedOK(go[p]) /\ HeldOK /\ OneKey
    BY DEF Locking
  <2>4. f \in s[i].rest /\ f # s[i].file
    BY <1>1, <1>4, <2>1, <2>2, <2>3 DEF NestedOK, TopOf
  <2>5. f \in ExtendedFiles /\ f \in Extends[s[i].file]
    BY <1>2, <1>4, <2>4
  <2>6. PICK q \in Loaders : q = lockedBy[e] /\ go[q].pc = "load" /\ HasEntry(go[q], e)
    BY <2>2, <2>3 DEF HeldOK
  <2>7. PICK j \in 2 .. Len(go[q].stack) : go[q].stack[j].entry = e
    BY <2>6 DEF HasEntry
  <2>8. go[q].stack[j].file \in ExtendedFiles
    <3>1. PICK t : t = go[q].stack
      OBVIOUS
    <3>2. t \in Seq(Frames) /\ Nested(t) /\ Len(t) \in 1 .. Len(t)
      BY <2>6, <3>1, LoaderIs
    <3>3. j \in 2 .. Len(t) /\ j - 1 \in 1 .. Len(t)
      BY <2>7, <3>1, <3>2
    <3>4. t[j].file \in Extends[t[j - 1].file] /\ t[j - 1] \in Frames
      BY <3>2, <3>3 DEF Nested
    <3> QED BY <3>1, <3>4, FilesOf DEF Frames
  <2>9. Known(e, f) /\ Known(e, go[q].stack[j].file)
    BY <2>1, <2>6, <2>7 DEF Known, KnownBy
  <2>10. f = go[q].stack[j].file
    BY <2>2, <2>3, <2>5, <2>8, <2>9 DEF OneKey
  <2> QED BY <1>1, <2>4, <2>5, <2>6, <2>10
<1> QED BY <1>3, <1>4

\* Everybody waiting would mean that every file being parsed extends another one that is.
LEMMA LocksFree == ASSUME NoCircle, Locking PROVE NobodyStuck
<1> SUFFICES ASSUME NEW p \in Procs, go[p].pc # "idle", \A q \in Procs : go[q].pc # "idle" => Blocked(q)
             PROVE  FALSE
  BY DEF NobodyStuck
<1> DEFINE files == {f \in ExtendedFiles : \E q \in Loaders : go[q].pc = "load" /\
                       \E i \in 2 .. Len(go[q].stack) : go[q].stack[i].file = f}
<1>1. ASSUME NEW q \in Loaders, go[q].pc = "load", NEW i \in 2 .. Len(go[q].stack)
      PROVE  go[q].stack[i].file \in files
  <2>1. PICK t : t = go[q].stack
    OBVIOUS
  <2>2. t \in Seq(Frames) /\ Nested(t) /\ Len(t) \in 1 .. Len(t)
    BY <1>1, <2>1, LoaderIs
  <2>3. i \in 2 .. Len(t) /\ i - 1 \in 1 .. Len(t)
    BY <2>1, <2>2
  <2>4. t[i].file \in Extends[t[i - 1].file] /\ t[i - 1] \in Frames
    BY <2>2, <2>3 DEF Nested
  <2>5. t[i].file \in ExtendedFiles
    BY <2>4, FilesOf DEF Frames
  <2> QED BY <1>1, <2>1, <2>5
<1>2. \A q \in Loaders : q \in Procs /\ q # Builder /\ go[q].pc \in {"idle", "load"}
  BY Goroutines DEF Locking, NestedOK
<1>3. ASSUME NEW q \in Procs, go[q].waiting # Nil, ~CanLock(q) PROVE files # {}
  <2>1. go[q] \in Works
    BY DEF Locking, LockTyped
  <2>2. PICK e \in Entries : e = go[q].waiting /\ lockedBy[e] # Nil
    BY <1>3, <2>1 DEF Works, CanLock
  <2>3. PICK r \in Loaders : r = lockedBy[e] /\ go[r].pc = "load" /\ HasEntry(go[r], e)
    BY <2>2 DEF Locking, HeldOK
  <2>4. PICK i \in 2 .. Len(go[r].stack) : go[r].stack[i].entry = e
    BY <2>3 DEF HasEntry
  <2> QED BY <1>1, <2>3, <2>4
<1>4. files # {}
  <2>1. CASE go[p].waiting # Nil /\ ~CanLock(p)
    BY <1>3, <2>1
  <2>2. ASSUME NEW q \in Loaders, go[q].pc # "idle" PROVE files # {}
    <3>1. Blocked(q) /\ q # Builder /\ q \in Procs
      BY <1>2, <2>2
    <3>2. go[q].waiting # Nil /\ ~CanLock(q)
      BY <3>1 DEF Blocked
    <3> QED BY <1>3, <3>1, <3>2
  <2> QED BY <2>1, <2>2 DEF Blocked
<1>5. PICK f \in files : Extends[f] \cap files \subseteq {f}
  <2>1. files \in SUBSET ExtendedFiles
    OBVIOUS
  <2> HIDE DEF files
  <2> QED BY <1>4, <2>1 DEF NoCircle
<1>6. PICK q \in Loaders : go[q].pc = "load" /\ \E i \in 2 .. Len(go[q].stack) : go[q].stack[i].file = f
  BY <1>5
<1>7. PICK i \in 2 .. Len(go[q].stack) : go[q].stack[i].file = f
  BY <1>6
<1>8. Blocked(q)
  BY <1>2, <1>6
<1>9. PICK r \in Loaders : /\ go[r].pc = "load"
         /\ \E j \in 2 .. Len(go[r].stack) : go[r].stack[j].file \in Extends[go[q].stack[i].file] \ {go[q].stack[i].file}
  BY <1>6, <1>7, <1>8, NextParsed
<1>10. PICK j \in 2 .. Len(go[r].stack) : go[r].stack[j].file \in Extends[f] \ {f}
  BY <1>7, <1>9
<1>11. go[r].stack[j].file \in files
  BY <1>1, <1>9, <1>10
<1> QED BY <1>5, <1>10, <1>11

\* If no files extend each other in a circle, then whatever configurations say, whatever
\* clones drop and whoever disposes of snapshots, goroutines that hold entries' locks while
\* they load what those files extend never all wait for each other (getExtendedConfig,
\* tsconfigparsing.go; LoadAndAcquire, ownercache.go).
THEOREM NobodyIsBlocked == NoCircle => (OwnersSpec => []NobodyStuck)
<1> SUFFICES ASSUME NoCircle PROVE OwnersSpec => []NobodyStuck
  OBVIOUS
<1>1. OwnersInit => Locking
  BY LockInit
<1>2. Locking /\ [OwnersNext]_ownersVars => Locking'
  BY LockStep
<1>3. Locking => NobodyStuck
  BY LocksFree
<1> QED BY <1>1, <1>2, <1>3, PTL DEF OwnersSpec
=============================================================================
