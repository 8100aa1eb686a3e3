----------------------------- MODULE QueryProofs -----------------------------
(***************************************************************************)
(* Proofs about Query, for any number of threads and of row groups: each   *)
(* row group is counted at most once, the call's answer is exact, a call   *)
(* that could start its threads returns only after them, and every call    *)
(* implements the sequential scan of GroupScan.                            *)
(*                                                                         *)
(* None of these is inductive.  Inv adds what makes them so: who is inside *)
(* the mutex, how the local copies of position relate to it, which worker  *)
(* accounts for every group below it, and why a worker has stopped.        *)
(***************************************************************************)
EXTENDS Query, TLAPS

\* The labels between lock and unlock.
InMutex == {"read", "bump", "add", "mark"}

\* A worker between lock and unlock is the one that holds the mutex.
MutexInv == \A t \in Threads : pc[t] \in InMutex => mutex = t

\* A worker about to write position back still has its current value; any
\* other group in hand, counted or lost is below it.
PositionInv ==
    /\ \A t \in Threads : pc[t] = "bump" => claim[t] = position
    /\ \A t \in Threads :
           pc[t] \in {"open", "count", "enter", "add"} => claim[t] < position
    /\ \A t \in Threads :
           pc[t] \in {"count", "enter", "add"} => claim[t] < groupCount
    /\ \A g \in total \cup lost : g < position

\* A worker about to write the total back has read its current value.
SeenInv == \A t \in Threads : pc[t] = "add" => seen[t] = total

\* Every group below position has been counted, lost, or is in someone's hands.
AccountInv ==
    main # "returned" =>
        \A g \in Groups : g < position =>
            g \in total \cup lost \/ \E t \in Threads : Holds(t, g)

\* A worker that met an error and has not reported it yet.
Failing(t) == \/ pc[t] \in {"fail", "mark"}
              \/ pc[t] \in {"enter", "add", "check"} /\ cursorError[t]

\* Errors are reported exactly when groups are lost.
FailureInv ==
    /\ main # "returned" /\ lost # {} => error \/ \E t \in Threads : Failing(t)
    /\ error => lost # {}
    /\ \A t \in Threads : Failing(t) => lost # {}
    /\ \A t \in Threads :
           pc[t] \in {"enter", "add", "check"} /\ cursorError[t] => claim[t] \in lost

\* A worker stops only after an error, or when no group is left.
ExitInv == \A t \in Threads : pc[t] = "exited" => error \/ position >= groupCount

\* What the calling thread knows.
MainInv ==
    /\ \A t \in Threads : pc[t] = "unborn" <=> t > created
    /\ \A t \in Threads : t <= joined => pc[t] = "exited"
    /\ main = "called" => created = 0 /\ joined = 0 /\ outcome = "pending"
    /\ created = 0 => total = {}
    /\ main \in {"creating", "joining"} => /\ asked > 0 /\ groupCount > 0
                                           /\ created <= asked /\ joined <= created
                                           /\ outcome = "pending"
    /\ main = "creating" => joined = 0
    /\ main = "joining" => created = asked

Inv == /\ TypeOK /\ MutexInv /\ PositionInv /\ SeenInv /\ ClaimedOnce
       /\ AccountInv /\ FailureInv /\ ExitInv /\ MainInv /\ OutcomeIsExact

------------------------------------------------------------------------------
\* Inv is inductive: no step of the calling thread or of a worker breaks it.
THEOREM Inductive == Inv /\ [Next]_vars => Inv'
<1> SUFFICES ASSUME Inv, [Next]_vars PROVE Inv'
  OBVIOUS
<1> USE QueryAssumption DEF Threads, Groups, TypeOK, Inv
<1>1. CASE Begin
  <2> USE <1>1 DEF Begin, MainOnly, Return, mainVars, contextVars, workerVars
  <2>1. MutexInv' /\ PositionInv' /\ SeenInv' /\ ClaimedOnce' /\ ExitInv'
    BY DEF ClaimedOnce, ExitInv, Holds, InMutex, MutexInv, PositionInv, SeenInv
  <2>2. TypeOK'
    OBVIOUS
  <2>3. AccountInv'
    BY DEF AccountInv, Holds, PositionInv, SeenInv, MutexInv, InMutex, MainInv
  <2>4. FailureInv'
    BY DEF FailureInv, Failing, MutexInv, InMutex, SeenInv, MainInv
  <2>5. MainInv'
    BY DEF MainInv
  <2>6. OutcomeIsExact'
    <3>1. ASSUME groupCount = 0 PROVE total = {} /\ lost = {} /\ Groups = {}
      <4>1. \A g \in Groups : FALSE
        BY <3>1
      <4>2. total \subseteq Groups /\ lost \subseteq Groups
        OBVIOUS
      <4>3. QED BY ONLY <4>1, <4>2, Zenon
    <3>2. joined' = 0 /\ asked' = asked /\ groupCount' = groupCount
          /\ total' = total /\ lost' = lost
      BY DEF MainInv
    <3>3. outcome' = "true" => groupCount = 0
      BY DEF MainInv
    <3>4. (outcome' = "true" => total' = Groups' /\ lost' = {})
      BY ONLY <3>1, <3>2, <3>3 DEF Groups
    <3>5. QED BY <3>2, <3>4 DEF OutcomeIsExact
  <2> QED BY <2>1, <2>2, <2>3, <2>4, <2>5, <2>6
<1>2. CASE CreateThread
  <2> USE <1>2 DEF CreateThread, MainOnly, Return, mainVars, contextVars, workerVars
  <2>1. OutcomeIsExact'
    BY DEF OutcomeIsExact
  <2>2. TypeOK'
    OBVIOUS
  <2>3. MutexInv'
    BY DEF MutexInv, InMutex, MainInv
  <2>4. PositionInv'
    BY DEF PositionInv, MutexInv, InMutex, MainInv
  <2>5. SeenInv'
    BY DEF SeenInv, MutexInv, InMutex, MainInv
  <2>6. ClaimedOnce'
    BY DEF ClaimedOnce, Holds, MutexInv, InMutex, PositionInv, SeenInv
  <2>7. AccountInv'
    BY DEF AccountInv, Holds, PositionInv, SeenInv, MutexInv, InMutex, MainInv
  <2>8. FailureInv'
    BY DEF FailureInv, Failing, MutexInv, InMutex, SeenInv, MainInv
  <2>9. ExitInv'
    BY DEF ExitInv, PositionInv, MutexInv, InMutex, MainInv
  <2>10. MainInv'
    BY DEF MainInv
  <2> QED BY <2>1, <2>2, <2>3, <2>4, <2>5, <2>6, <2>7, <2>8, <2>9, <2>10
<1>3. CASE CreateFails
  <2> USE <1>3 DEF CreateFails, MainOnly, Return, mainVars, contextVars, workerVars
  <2>1. MutexInv' /\ PositionInv' /\ SeenInv' /\ ClaimedOnce' /\ ExitInv'
    BY DEF ClaimedOnce, ExitInv, Holds, InMutex, MutexInv, PositionInv, SeenInv
  <2>2. TypeOK'
    OBVIOUS
  <2>3. AccountInv'
    BY DEF AccountInv, Holds, PositionInv, SeenInv, MutexInv, InMutex, MainInv
  <2>4. FailureInv'
    BY DEF FailureInv, Failing, MutexInv, InMutex, SeenInv, MainInv
  <2>5. MainInv'
    BY DEF MainInv
  <2>6. OutcomeIsExact'
    BY DEF OutcomeIsExact, MainInv
  <2> QED BY <2>1, <2>2, <2>3, <2>4, <2>5, <2>6
<1>4. CASE AllCreated
  <2> USE <1>4 DEF AllCreated, MainOnly, Return, mainVars, contextVars, workerVars
  <2>1. MutexInv' /\ PositionInv' /\ SeenInv' /\ ClaimedOnce' /\ ExitInv' /\ OutcomeIsExact'
    BY DEF ClaimedOnce, ExitInv, Holds, InMutex, MutexInv, OutcomeIsExact, PositionInv, SeenInv
  <2>2. TypeOK'
    OBVIOUS
  <2>3. AccountInv'
    BY DEF AccountInv, Holds, PositionInv, SeenInv, MutexInv, InMutex, MainInv
  <2>4. FailureInv'
    BY DEF FailureInv, Failing, MutexInv, InMutex, SeenInv, MainInv
  <2>5. MainInv'
    BY DEF MainInv
  <2> QED BY <2>1, <2>2, <2>3, <2>4, <2>5
<1>5. CASE Join
  <2> USE <1>5 DEF Join, MainOnly, Return, mainVars, contextVars, workerVars
  <2>1. MutexInv' /\ PositionInv' /\ SeenInv' /\ ExitInv'
    BY DEF MutexInv, InMutex, PositionInv, SeenInv, ExitInv
  <2>5. ClaimedOnce' /\ AccountInv' /\ FailureInv'
    BY DEF ClaimedOnce, Holds, AccountInv, FailureInv, Failing
  <2>2. TypeOK'
    OBVIOUS
  <2>3. MainInv'
    BY DEF MainInv
  <2>4. OutcomeIsExact'
    BY DEF OutcomeIsExact, MainInv
  <2> QED BY <2>1, <2>2, <2>3, <2>4, <2>5
<1>6. CASE AllJoined
  <2> USE <1>6 DEF AllJoined, MainOnly, Return, mainVars, contextVars, workerVars
  <2>1. MutexInv' /\ PositionInv' /\ SeenInv' /\ ClaimedOnce' /\ ExitInv'
    BY DEF ClaimedOnce, ExitInv, Holds, InMutex, MutexInv, PositionInv, SeenInv
  <2>2. TypeOK'
    OBVIOUS
  <2>3. AccountInv'
    BY DEF AccountInv, Holds, PositionInv, SeenInv, MutexInv, InMutex, MainInv
  <2>4. FailureInv'
    BY DEF FailureInv, Failing, MutexInv, InMutex, SeenInv, MainInv
  <2>5. MainInv'
    BY DEF MainInv
  <2>6. OutcomeIsExact'
    \* Every worker has exited, so none holds a group or an error.
    <3>1. \A t \in Threads : pc[t] \in {"unborn", "exited"}
      BY DEF MainInv
    <3>2. \A t \in Threads : ~Failing(t) /\ \A g \in Groups : ~Holds(t, g)
      BY <3>1 DEF Failing, Holds
    <3>3. error <=> lost # {}
      BY <3>2 DEF FailureInv
    <3>4. 1 \in Threads /\ pc[1] = "exited"
      BY DEF MainInv
    <3>5. ASSUME ~error PROVE total = Groups
      <4>1. position >= groupCount
        BY <3>4, <3>5 DEF ExitInv
      <4>2. \A g \in Groups : g \in total
        BY <4>1, <3>2, <3>3, <3>5 DEF AccountInv
      <4>3. QED BY <4>2
    <3>6. QED BY <3>3, <3>5 DEF OutcomeIsExact, MainInv
  <2> QED BY <2>1, <2>2, <2>3, <2>4, <2>5, <2>6
<1>7. ASSUME NEW t \in Threads, LockContext(t) PROVE Inv'
  <2> USE <1>7 DEF LockContext, WorkerOnly, Goto, Acquire, Release, ContextAlive, mainVars, contextVars, workerVars
  <2>1. OutcomeIsExact'
    BY DEF OutcomeIsExact
  <2>2. TypeOK'
    OBVIOUS
  <2>3. MutexInv'
    BY DEF MutexInv, InMutex, MainInv
  <2>4. PositionInv'
    BY DEF PositionInv, MutexInv, InMutex, MainInv
  <2>5. SeenInv'
    BY DEF SeenInv, MutexInv, InMutex, MainInv
  <2>6. ClaimedOnce'
    BY DEF ClaimedOnce, Holds, MutexInv, InMutex, PositionInv, SeenInv
  <2>7. AccountInv'
    BY DEF AccountInv, Holds, PositionInv, SeenInv, MutexInv, InMutex, MainInv
  <2>8. FailureInv'
    BY DEF FailureInv, Failing, MutexInv, InMutex, SeenInv, MainInv
  <2>9. ExitInv'
    BY DEF ExitInv, PositionInv, MutexInv, InMutex, MainInv
  <2>10. MainInv'
    BY DEF MainInv
  <2> QED BY <2>1, <2>2, <2>3, <2>4, <2>5, <2>6, <2>7, <2>8, <2>9, <2>10
<1>8. ASSUME NEW t \in Threads, ReadPosition(t) PROVE Inv'
  <2> USE <1>8 DEF ReadPosition, WorkerOnly, Goto, Acquire, Release, ContextAlive, mainVars, contextVars, workerVars
  <2>1. OutcomeIsExact'
    BY DEF OutcomeIsExact
  <2>2. TypeOK'
    OBVIOUS
  <2>3. MutexInv'
    BY DEF MutexInv, InMutex, MainInv
  <2>4. PositionInv'
    BY DEF PositionInv, MutexInv, InMutex, MainInv
  <2>5. SeenInv'
    BY DEF SeenInv, MutexInv, InMutex, MainInv
  <2>6. ClaimedOnce'
    BY DEF ClaimedOnce, Holds, MutexInv, InMutex, PositionInv, SeenInv
  <2>7. AccountInv'
    BY DEF AccountInv, Holds, PositionInv, SeenInv, MutexInv, InMutex, MainInv
  <2>8. FailureInv'
    BY DEF FailureInv, Failing, MutexInv, InMutex, SeenInv, MainInv
  <2>9. ExitInv'
    BY DEF ExitInv, PositionInv, MutexInv, InMutex, MainInv
  <2>10. MainInv'
    BY DEF MainInv
  <2> QED BY <2>1, <2>2, <2>3, <2>4, <2>5, <2>6, <2>7, <2>8, <2>9, <2>10
<1>9. ASSUME NEW t \in Threads, BumpPosition(t) PROVE Inv'
  <2> USE <1>9 DEF BumpPosition, WorkerOnly, Goto, Acquire, Release, ContextAlive, mainVars, contextVars, workerVars
  <2>1. OutcomeIsExact'
    BY DEF OutcomeIsExact
  <2>2. TypeOK'
    OBVIOUS
  <2>3. MutexInv'
    BY DEF MutexInv, InMutex, MainInv
  <2>4. PositionInv'
    BY DEF PositionInv, MutexInv, InMutex, MainInv
  <2>5. SeenInv'
    BY DEF SeenInv, MutexInv, InMutex, MainInv
  <2>6. ClaimedOnce'
    BY DEF ClaimedOnce, Holds, MutexInv, InMutex, PositionInv, SeenInv
  <2>7. AccountInv'
    BY DEF AccountInv, Holds, PositionInv, SeenInv, MutexInv, InMutex, MainInv
  <2>8. FailureInv'
    BY DEF FailureInv, Failing, MutexInv, InMutex, SeenInv, MainInv
  <2>9. ExitInv'
    BY DEF ExitInv, PositionInv, MutexInv, InMutex, MainInv
  <2>10. MainInv'
    BY DEF MainInv
  <2> QED BY <2>1, <2>2, <2>3, <2>4, <2>5, <2>6, <2>7, <2>8, <2>9, <2>10
<1>10. ASSUME NEW t \in Threads, RunOut(t) PROVE Inv'
  <2> USE <1>10 DEF RunOut, WorkerOnly, Goto, Acquire, Release, ContextAlive, mainVars, contextVars, workerVars
  <2>1. OutcomeIsExact'
    BY DEF OutcomeIsExact
  <2>2. TypeOK'
    OBVIOUS
  <2>3. MutexInv'
    BY DEF MutexInv, InMutex, MainInv
  <2>4. PositionInv'
    BY DEF PositionInv, MutexInv, InMutex, MainInv
  <2>5. SeenInv'
    BY DEF SeenInv, MutexInv, InMutex, MainInv
  <2>6. ClaimedOnce'
    BY DEF ClaimedOnce, Holds, MutexInv, InMutex, PositionInv, SeenInv
  <2>7. AccountInv'
    BY DEF AccountInv, Holds, PositionInv, SeenInv, MutexInv, InMutex, MainInv
  <2>8. FailureInv'
    BY DEF FailureInv, Failing, MutexInv, InMutex, SeenInv, MainInv
  <2>9. ExitInv'
    BY DEF ExitInv, PositionInv, MutexInv, InMutex, MainInv
  <2>10. MainInv'
    BY DEF MainInv
  <2> QED BY <2>1, <2>2, <2>3, <2>4, <2>5, <2>6, <2>7, <2>8, <2>9, <2>10
<1>11. ASSUME NEW t \in Threads, Open(t) PROVE Inv'
  <2> USE <1>11 DEF Open, WorkerOnly, Goto, Acquire, Release, ContextAlive, mainVars, contextVars, workerVars
  <2>1. TypeOK'
    <3>1. claim[t] \in Groups
      BY DEF PositionInv
    <3>2. QED BY <3>1
  <2>2. MutexInv'
    BY DEF MutexInv, InMutex, MainInv
  <2>3. PositionInv'
    BY DEF PositionInv, MutexInv, InMutex, MainInv
  <2>4. SeenInv'
    BY DEF SeenInv, MutexInv, InMutex, MainInv
  <2>5. ClaimedOnce'
    BY DEF ClaimedOnce, Holds, MutexInv, InMutex, PositionInv, SeenInv
  <2>6. AccountInv'
    BY DEF AccountInv, Holds, PositionInv, SeenInv, MutexInv, InMutex, MainInv
  <2>7. FailureInv'
    BY DEF FailureInv, Failing, MutexInv, InMutex, SeenInv, MainInv
  <2>8. ExitInv'
    BY DEF ExitInv, PositionInv, MutexInv, InMutex, MainInv
  <2>9. MainInv'
    BY DEF MainInv
  <2>10. OutcomeIsExact'
    BY DEF OutcomeIsExact, MainInv
  <2> QED BY <2>1, <2>2, <2>3, <2>4, <2>5, <2>6, <2>7, <2>8, <2>9, <2>10
<1>12. ASSUME NEW t \in Threads, CountRows(t) PROVE Inv'
  <2> USE <1>12 DEF CountRows, WorkerOnly, Goto, Acquire, Release, ContextAlive, mainVars, contextVars, workerVars
  <2>1. TypeOK'
    <3>1. claim[t] \in Groups
      BY DEF PositionInv
    <3>2. QED BY <3>1
  <2>2. MutexInv'
    BY DEF MutexInv, InMutex, MainInv
  <2>3. PositionInv'
    BY DEF PositionInv, MutexInv, InMutex, MainInv
  <2>4. SeenInv'
    BY DEF SeenInv, MutexInv, InMutex, MainInv
  <2>5. ClaimedOnce'
    BY DEF ClaimedOnce, Holds, MutexInv, InMutex, PositionInv, SeenInv
  <2>6. AccountInv'
    BY DEF AccountInv, Holds, PositionInv, SeenInv, MutexInv, InMutex, MainInv
  <2>7. FailureInv'
    BY DEF FailureInv, Failing, MutexInv, InMutex, SeenInv, MainInv
  <2>8. ExitInv'
    BY DEF ExitInv, PositionInv, MutexInv, InMutex, MainInv
  <2>9. MainInv'
    BY DEF MainInv
  <2>10. OutcomeIsExact'
    BY DEF OutcomeIsExact, MainInv
  <2> QED BY <2>1, <2>2, <2>3, <2>4, <2>5, <2>6, <2>7, <2>8, <2>9, <2>10
<1>13. ASSUME NEW t \in Threads, EnterIter(t) PROVE Inv'
  <2> USE <1>13 DEF EnterIter, WorkerOnly, Goto, Acquire, Release, ContextAlive, mainVars, contextVars, workerVars
  <2>1. OutcomeIsExact'
    BY DEF OutcomeIsExact
  <2>2. TypeOK'
    OBVIOUS
  <2>3. MutexInv'
    BY DEF MutexInv, InMutex, MainInv
  <2>4. PositionInv'
    BY DEF PositionInv, MutexInv, InMutex, MainInv
  <2>5. SeenInv'
    BY DEF SeenInv, MutexInv, InMutex, MainInv
  <2>6. ClaimedOnce'
    BY DEF ClaimedOnce, Holds, MutexInv, InMutex, PositionInv, SeenInv
  <2>7. AccountInv'
    BY DEF AccountInv, Holds, PositionInv, SeenInv, MutexInv, InMutex, MainInv
  <2>8. FailureInv'
    BY DEF FailureInv, Failing, MutexInv, InMutex, SeenInv, MainInv
  <2>9. ExitInv'
    BY DEF ExitInv, PositionInv, MutexInv, InMutex, MainInv
  <2>10. MainInv'
    BY DEF MainInv
  <2> QED BY <2>1, <2>2, <2>3, <2>4, <2>5, <2>6, <2>7, <2>8, <2>9, <2>10
<1>14. ASSUME NEW t \in Threads, AddRows(t) PROVE Inv'
  <2> USE <1>14 DEF AddRows, WorkerOnly, Goto, Acquire, Release, ContextAlive, mainVars, contextVars, workerVars
  <2>1. TypeOK'
    <3>1. claim[t] \in Groups
      BY DEF PositionInv
    <3>2. total' \in SUBSET Groups
      BY <3>1
    <3>3. QED BY <3>2
  <2>2. MutexInv'
    BY DEF MutexInv, InMutex, MainInv
  <2>3. PositionInv'
    <3>1. claim[t] < position /\ \A g \in total \cup lost : g < position
      BY DEF PositionInv
    <3>2. seen[t] = total
      BY DEF SeenInv
    <3>3. \A g \in total' \cup lost' : g < position'
      BY <3>1, <3>2
    <3>4. \A u \in Threads : pc'[u] \in {"bump", "open", "count", "enter", "add"} => pc'[u] = pc[u]
      OBVIOUS
    <3>5. UNCHANGED <<claim, position, groupCount>>
      OBVIOUS
    <3> QED BY ONLY <3>3, <3>4, <3>5, Inv DEF Inv, PositionInv
  <2>4. SeenInv'
    BY DEF SeenInv, MutexInv, InMutex, MainInv
  <2>5. ClaimedOnce'
    <3>1. ASSUME NEW u \in Threads, NEW g \in Groups, Holds(u, g)'
          PROVE  u # t /\ Holds(u, g)
      BY <3>1 DEF Holds
    <3>2. ASSUME NEW u \in Threads, NEW g \in Groups, Holds(u, g)'
          PROVE  g # claim[t]
      <4>1. CASE cursorError[t]
        BY <3>1, <3>2, <4>1 DEF ClaimedOnce, FailureInv
      <4>2. CASE ~cursorError[t]
        BY <3>1, <3>2, <4>2 DEF ClaimedOnce, Holds
      <4>3. QED BY <4>1, <4>2
    <3>3. total' \subseteq total \cup {claim[t]}
      BY DEF SeenInv
    <3>4. QED BY <3>1, <3>2, <3>3 DEF ClaimedOnce
  <2>6. AccountInv'
    BY DEF AccountInv, Holds, PositionInv, SeenInv, MutexInv, InMutex, MainInv
  <2>7. FailureInv'
    BY DEF FailureInv, Failing, MutexInv, InMutex, SeenInv, MainInv
  <2>8. ExitInv'
    BY DEF ExitInv, PositionInv, MutexInv, InMutex, MainInv
  <2>9. MainInv'
    <3>1. created # 0
      BY DEF MainInv
    <3>2. QED BY <3>1 DEF MainInv
  <2>10. OutcomeIsExact'
    BY DEF OutcomeIsExact, MainInv
  <2> QED BY <2>1, <2>2, <2>3, <2>4, <2>5, <2>6, <2>7, <2>8, <2>9, <2>10
<1>15. ASSUME NEW t \in Threads, CheckCursor(t) PROVE Inv'
  <2> USE <1>15 DEF CheckCursor, WorkerOnly, Goto, Acquire, Release, ContextAlive, mainVars, contextVars, workerVars
  <2>1. OutcomeIsExact'
    BY DEF OutcomeIsExact
  <2>2. TypeOK'
    OBVIOUS
  <2>3. MutexInv'
    BY DEF MutexInv, InMutex, MainInv
  <2>4. PositionInv'
    BY DEF PositionInv, MutexInv, InMutex, MainInv
  <2>5. SeenInv'
    BY DEF SeenInv, MutexInv, InMutex, MainInv
  <2>6. ClaimedOnce'
    BY DEF ClaimedOnce, Holds, MutexInv, InMutex, PositionInv, SeenInv
  <2>7. AccountInv'
    BY DEF AccountInv, Holds, PositionInv, SeenInv, MutexInv, InMutex, MainInv
  <2>8. FailureInv'
    BY DEF FailureInv, Failing, MutexInv, InMutex, SeenInv, MainInv
  <2>9. ExitInv'
    BY DEF ExitInv, PositionInv, MutexInv, InMutex, MainInv
  <2>10. MainInv'
    BY DEF MainInv
  <2> QED BY <2>1, <2>2, <2>3, <2>4, <2>5, <2>6, <2>7, <2>8, <2>9, <2>10
<1>16. ASSUME NEW t \in Threads, LockError(t) PROVE Inv'
  <2> USE <1>16 DEF LockError, WorkerOnly, Goto, Acquire, Release, ContextAlive, mainVars, contextVars, workerVars
  <2>1. OutcomeIsExact'
    BY DEF OutcomeIsExact
  <2>2. TypeOK'
    OBVIOUS
  <2>3. MutexInv'
    BY DEF MutexInv, InMutex, MainInv
  <2>4. PositionInv'
    BY DEF PositionInv, MutexInv, InMutex, MainInv
  <2>5. SeenInv'
    BY DEF SeenInv, MutexInv, InMutex, MainInv
  <2>6. ClaimedOnce'
    BY DEF ClaimedOnce, Holds, MutexInv, InMutex, PositionInv, SeenInv
  <2>7. AccountInv'
    BY DEF AccountInv, Holds, PositionInv, SeenInv, MutexInv, InMutex, MainInv
  <2>8. FailureInv'
    BY DEF FailureInv, Failing, MutexInv, InMutex, SeenInv, MainInv
  <2>9. ExitInv'
    BY DEF ExitInv, PositionInv, MutexInv, InMutex, MainInv
  <2>10. MainInv'
    BY DEF MainInv
  <2> QED BY <2>1, <2>2, <2>3, <2>4, <2>5, <2>6, <2>7, <2>8, <2>9, <2>10
<1>17. ASSUME NEW t \in Threads, MarkError(t) PROVE Inv'
  <2> USE <1>17 DEF MarkError, WorkerOnly, Goto, Acquire, Release, ContextAlive, mainVars, contextVars, workerVars
  <2>1. OutcomeIsExact'
    BY DEF OutcomeIsExact
  <2>2. TypeOK'
    OBVIOUS
  <2>3. MutexInv'
    BY DEF MutexInv, InMutex, MainInv
  <2>4. PositionInv'
    BY DEF PositionInv, MutexInv, InMutex, MainInv
  <2>5. SeenInv'
    BY DEF SeenInv, MutexInv, InMutex, MainInv
  <2>6. ClaimedOnce'
    BY DEF ClaimedOnce, Holds, MutexInv, InMutex, PositionInv, SeenInv
  <2>7. AccountInv'
    BY DEF AccountInv, Holds, PositionInv, SeenInv, MutexInv, InMutex, MainInv
  <2>8. FailureInv'
    BY DEF FailureInv, Failing, MutexInv, InMutex, SeenInv, MainInv
  <2>9. ExitInv'
    BY DEF ExitInv, PositionInv, MutexInv, InMutex, MainInv
  <2>10. MainInv'
    BY DEF MainInv
  <2> QED BY <2>1, <2>2, <2>3, <2>4, <2>5, <2>6, <2>7, <2>8, <2>9, <2>10
<1>18. ASSUME NEW t \in Threads, UseDeadContext(t) PROVE Inv'
  <2> USE <1>18 DEF UseDeadContext, WorkerOnly, Goto, Acquire, Release, ContextAlive, mainVars, contextVars, workerVars
  <2>1. OutcomeIsExact'
    BY DEF OutcomeIsExact
  <2>2. TypeOK'
    OBVIOUS
  <2>3. MutexInv'
    BY DEF MutexInv, InMutex, MainInv
  <2>4. PositionInv'
    BY DEF PositionInv, MutexInv, InMutex, MainInv
  <2>5. SeenInv'
    BY DEF SeenInv, MutexInv, InMutex, MainInv
  <2>6. ClaimedOnce'
    BY DEF ClaimedOnce, Holds, MutexInv, InMutex, PositionInv, SeenInv
  <2>7. AccountInv'
    BY DEF AccountInv, Holds, PositionInv, SeenInv, MutexInv, InMutex, MainInv
  <2>8. FailureInv'
    BY DEF FailureInv, Failing, MutexInv, InMutex, SeenInv, MainInv
  <2>9. ExitInv'
    BY DEF ExitInv, PositionInv, MutexInv, InMutex, MainInv
  <2>10. MainInv'
    BY DEF MainInv
  <2> QED BY <2>1, <2>2, <2>3, <2>4, <2>5, <2>6, <2>7, <2>8, <2>9, <2>10
<1>19. CASE UNCHANGED vars
  BY <1>19 DEF vars, mainVars, contextVars, workerVars, MutexInv, InMutex, PositionInv,
     SeenInv, ClaimedOnce, Holds, AccountInv, FailureInv, Failing, ExitInv, MainInv,
     OutcomeIsExact
<1> QED
  BY <1>1, <1>2, <1>3, <1>4, <1>5, <1>6, <1>7, <1>8, <1>9, <1>10, <1>11, <1>12, <1>13, <1>14, <1>15, <1>16, <1>17, <1>18, <1>19
     DEF Next, Main, Worker, Terminated

\* The invariant holds where the program starts.
LEMMA Initially == Init => Inv
<1> SUFFICES ASSUME Init PROVE Inv
  OBVIOUS
<1> USE QueryAssumption DEF Init, Threads, Groups
<1>1. TypeOK
  <2>1. /\ groupCount \in 0..MaxGroups /\ asked \in -1..MaxThreads
        /\ created \in 0..MaxThreads /\ joined \in 0..MaxThreads
    OBVIOUS
  <2>2. /\ cursorError \in [Threads -> BOOLEAN] /\ claim \in [Threads -> Nat]
        /\ seen \in [Threads -> SUBSET Groups]
        /\ total \in SUBSET Groups /\ lost \in SUBSET Groups
    OBVIOUS
  <2>3. QED BY <2>1, <2>2 DEF TypeOK
<1>2. MutexInv /\ PositionInv /\ SeenInv
  BY DEF MutexInv, InMutex, PositionInv, SeenInv
<1>3. ClaimedOnce /\ AccountInv
  BY DEF ClaimedOnce, Holds, AccountInv
<1>4. FailureInv /\ ExitInv /\ MainInv /\ OutcomeIsExact
  BY DEF FailureInv, Failing, ExitInv, MainInv, OutcomeIsExact
<1>5. QED BY <1>1, <1>2, <1>3, <1>4 DEF Inv

\* Inv holds in every state of every behaviour.
THEOREM Invariance == Spec => []Inv
  BY Initially, Inductive, PTL DEF Spec

\* Every variable keeps its type.
THEOREM TypeCorrect == Spec => []TypeOK
<1>1. Inv => TypeOK
  BY DEF Inv
<1>2. QED BY <1>1, Invariance, PTL

\* However many workers there are, none works on a row group that another works
\* on, or that was already counted or lost.
THEOREM GroupsClaimedOnce == Spec => []ClaimedOnce
<1>1. Inv => ClaimedOnce
  BY DEF Inv
<1>2. QED BY <1>1, Invariance, PTL

\* cx_reader_query answers true only when every row group was counted, and
\* false after joining its workers only when one was lost.
THEOREM OutcomeExact == Spec => []OutcomeIsExact
<1>1. Inv => OutcomeIsExact
  BY DEF Inv
<1>2. QED BY <1>1, Invariance, PTL

------------------------------------------------------------------------------
(* The end of the call *)

\* A call that could start all of its threads returns after they have stopped;
\* QuiescentOnReturn itself is what CreateFails breaks.
THEOREM Quiescence == Spec => []QuiescentOnceStarted
<1>1. Init => QuiescentOnceStarted
  BY DEF Init, QuiescentOnceStarted, QuiescentOnReturn
<1>2. Inv /\ QuiescentOnceStarted /\ [Next]_vars => QuiescentOnceStarted'
  <2> SUFFICES ASSUME Inv, QuiescentOnceStarted, [Next]_vars PROVE QuiescentOnceStarted'
    OBVIOUS
  <2> USE DEF Inv, QuiescentOnceStarted, QuiescentOnReturn
  <2>1. CASE Begin
    BY <2>1 DEF Begin, MainInv, TypeOK, Threads
  <2>2. CASE AllJoined
    BY <2>2 DEF AllJoined, Return, MainOnly, MainInv, TypeOK, Threads
  <2>3. CASE CreateThread \/ AllCreated \/ Join
    BY <2>3 DEF CreateThread, AllCreated, Join
  <2>4. CASE CreateFails
    BY <2>4, QueryAssumption DEF CreateFails, Return, MainOnly, TypeOK
  <2>5. ASSUME NEW t \in Threads, Worker(t) PROVE QuiescentOnceStarted'
    BY <2>5 DEF Worker, LockContext, ReadPosition, BumpPosition, RunOut, Open, CountRows,
         EnterIter, AddRows, CheckCursor, LockError, MarkError, UseDeadContext,
         ContextAlive, WorkerOnly, mainVars
  <2>6. CASE UNCHANGED vars
    BY <2>6 DEF vars, mainVars, workerVars
  <2>7. QED BY <2>1, <2>2, <2>3, <2>4, <2>5, <2>6 DEF Next, Main, Terminated
<1>3. QED BY <1>1, <1>2, Invariance, PTL DEF Spec

\* A group a worker is about to visit or lose is one of the file's, and fresh.
LEMMA GroupInHand ==
    ASSUME Inv, NEW t \in Threads,
           \/ pc[t] = "open" /\ claim[t] < groupCount
           \/ pc[t] = "count"
           \/ pc[t] = "add" /\ ~cursorError[t]
    PROVE  claim[t] \in Groups /\ claim[t] \notin total \cup lost
<1>1. claim[t] \in Groups
  <2>1. claim[t] \in Nat /\ groupCount \in Nat
    BY QueryAssumption DEF Inv, TypeOK
  <2>2. claim[t] < groupCount
    BY DEF Inv, PositionInv
  <2>3. QED BY <2>1, <2>2 DEF Groups
<1>2. Holds(t, claim[t])
  BY DEF Holds
<1>3. ClaimedOnce
  BY DEF Inv
<1>4. QED BY <1>1, <1>2, <1>3 DEF ClaimedOnce

\* Whatever the interleaving of the workers, the call does no more than visit or
\* lose the row groups one at a time and answer accordingly, or abandon them.
THEOREM ImplementsScan == Spec => ImplementsGroupScan
<1>1. Init => Scan!Init
  BY QueryAssumption DEF Init, Answer, Scan!Init
<1>2. Inv /\ Inv' /\ [Next]_vars => [Scan!Next]_(Scan!vars)
  <2> SUFFICES ASSUME Inv, Inv', [Next]_vars PROVE [Scan!Next]_(Scan!vars)
    OBVIOUS
  <2> USE DEF Scan!Next, Scan!vars, Scan!Groups, Groups, Threads
  <2>0. ASSUME main # "returned" PROVE Answer = outcome /\ outcome = "pending"
    BY <2>0 DEF Answer, Inv, MainInv, TypeOK
  <2>1. CASE Begin
    <3>1. Answer = "pending" /\ created = 0 /\ total = {}
      BY <2>0, <2>1 DEF Begin, Inv, MainInv
    <3>2. created' = 0
      BY <2>1, <3>1 DEF Begin, Return
    <3>3. Answer' = outcome'
      BY <3>2 DEF Answer
    <3>4. groupCount = 0 => Scan!Groups = {}
      <4>1. groupCount = 0 => \A g \in Scan!Groups : FALSE
        OBVIOUS
      <4>2. QED BY <4>1
    <3>5. UNCHANGED <<groupCount, total, lost>>
      BY <2>1 DEF Begin, MainOnly
    <3>6. \/ outcome' = "false"
          \/ outcome' = "true" /\ groupCount = 0
          \/ outcome' = outcome /\ outcome = "pending"
      BY <2>0, <2>1 DEF Begin, Return
    <3>7. QED
      BY <3>1, <3>3, <3>4, <3>5, <3>6 DEF Scan!ReturnTrue, Scan!ReturnFalse
  <2>2. CASE AllJoined
    <3>1. Answer = "pending" /\ UNCHANGED <<groupCount, total, lost>>
      BY <2>0, <2>2 DEF AllJoined, MainOnly
    <3>2. created' = asked'
      BY <2>2 DEF AllJoined, Return, MainOnly, Inv, MainInv
    <3>3. Answer' = outcome'
      <4>1. asked' \in Int
        BY QueryAssumption DEF Inv, TypeOK
      <4>2. \A n \in Int : n \notin 1..(n - 1)
        OBVIOUS
      <4>3. QED BY <4>1, <3>2, <4>2 DEF Answer
    <3>4. CASE error
      <4>1. lost # {}
        BY <3>4 DEF Inv, FailureInv
      <4>2. outcome' = "false"
        BY <2>2, <3>4 DEF AllJoined, Return
      <4>3. QED BY <3>1, <3>3, <4>1, <4>2 DEF Scan!ReturnFalse
    <3>5. CASE ~error
      <4>1. outcome' = "true"
        BY <2>2, <3>5 DEF AllJoined, Return
      <4>2. total = Groups /\ lost = {}
        BY <3>1, <4>1 DEF Inv, OutcomeIsExact
      <4>3. QED BY <3>1, <3>3, <4>1, <4>2 DEF Scan!ReturnTrue
    <3>6. QED BY <3>4, <3>5
  <2>3. CASE CreateFails
    <3>1. Answer = "pending" /\ UNCHANGED <<groupCount, total, lost>>
      BY <2>0, <2>3 DEF CreateFails, MainOnly
    <3>2. CASE created = 0
      <4>1. Answer' = "false"
        BY <2>3, <3>2 DEF CreateFails, Return, Answer
      <4>2. total = {}
        BY <3>2 DEF Inv, MainInv
      <4>3. QED BY <3>1, <4>1, <4>2 DEF Scan!ReturnFalse
    <3>3. CASE created # 0
      <4>1. Answer' = "abandoned"
        BY <2>3, <3>3, QueryAssumption
           DEF CreateFails, Return, MainOnly, Answer, Inv, TypeOK
      <4>2. QED BY <3>1, <4>1 DEF Scan!Abandon
    <3>4. QED BY <3>2, <3>3
  <2>4. CASE CreateThread \/ AllCreated \/ Join
    <3>1. main # "returned" /\ main' # "returned" /\ outcome' = outcome
          /\ UNCHANGED <<groupCount, total, lost>>
      BY <2>4 DEF CreateThread, AllCreated, Join, MainOnly
    <3>2. Answer' = Answer
      BY <3>1 DEF Answer
    <3>3. QED BY <3>1, <3>2
  <2>5. ASSUME NEW t \in Threads, Worker(t) PROVE Answer' = Answer /\ groupCount' = groupCount
    BY <2>5 DEF Worker, LockContext, ReadPosition, BumpPosition, RunOut, Open, CountRows,
         EnterIter, AddRows, CheckCursor, LockError, MarkError, UseDeadContext,
         WorkerOnly, mainVars, Answer
  <2>6. ASSUME NEW t \in Threads, Open(t) \/ CountRows(t) PROVE [Scan!Next]_(Scan!vars)
    <3>1. claim[t] \in Groups /\ claim[t] \notin total \cup lost
      BY <2>6, GroupInHand DEF Open, CountRows
    <3>2. Answer = "pending"
      BY <2>0, <2>6 DEF Open, CountRows, ContextAlive
    <3>3. total' = total /\ (lost' = lost \/ lost' = lost \cup {claim[t]})
      BY <2>6 DEF Open, CountRows
    <3>4. Answer' = Answer /\ groupCount' = groupCount
      BY <2>5, <2>6 DEF Worker
    <3>5. QED BY <3>1, <3>2, <3>3, <3>4 DEF Scan!Lose, Scan!Fresh
  <2>7. ASSUME NEW t \in Threads, AddRows(t) PROVE [Scan!Next]_(Scan!vars)
    <3>1. seen[t] = total
      BY <2>7 DEF AddRows, Inv, SeenInv
    <3>2. Answer = "pending"
      BY <2>0, <2>7 DEF AddRows, ContextAlive
    <3>3. Answer' = Answer /\ groupCount' = groupCount /\ lost' = lost
      BY <2>5, <2>7 DEF Worker, AddRows
    <3>4. CASE cursorError[t]
      <4>1. claim[t] \in lost /\ lost \subseteq Groups
        BY <2>7, <3>4 DEF AddRows, Inv, FailureInv, TypeOK
      <4>2. total' = total \/ total' = total \cup {claim[t]}
        BY <2>7, <3>1 DEF AddRows
      <4>3. QED BY <3>2, <3>3, <4>1, <4>2 DEF Scan!VisitPart
    <3>5. CASE ~cursorError[t]
      <4>1. claim[t] \in Groups /\ claim[t] \notin total \cup lost
        BY <2>7, <3>5, GroupInHand DEF AddRows
      <4>2. total' = total \cup {claim[t]}
        BY <2>7, <3>1, <3>5 DEF AddRows
      <4>3. QED BY <3>2, <3>3, <4>1, <4>2 DEF Scan!Visit, Scan!Fresh
    <3>6. QED BY <3>4, <3>5
  <2>8. ASSUME NEW t \in Threads,
               Worker(t), ~Open(t), ~CountRows(t), ~AddRows(t)
        PROVE  [Scan!Next]_(Scan!vars)
    <3>1. total' = total /\ lost' = lost
      BY <2>8 DEF Worker, LockContext, ReadPosition, BumpPosition, RunOut, EnterIter,
           CheckCursor, LockError, MarkError, UseDeadContext
    <3>2. QED BY <2>5, <2>8, <3>1
  <2>9. CASE UNCHANGED vars
    BY <2>9 DEF vars, mainVars, Answer
  <2>10. QED
    BY <2>1, <2>2, <2>3, <2>4, <2>6, <2>7, <2>8, <2>9 DEF Next, Main, Terminated
<1>3. QED BY <1>1, <1>2, Invariance, PTL DEF Spec, ImplementsGroupScan, Scan!Spec
==============================================================================
