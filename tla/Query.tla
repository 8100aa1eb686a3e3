-------------------------------- MODULE Query --------------------------------
(***************************************************************************)
(* cx_reader_query (lib/reader.c): the calling thread starts thread_count  *)
(* workers that share a context on its stack, and joins them.  A worker    *)
(* takes the next row group under the context's mutex, opens it, hands a   *)
(* cursor and the mutex to the caller's iter callback, and goes on until   *)
(* the groups run out or one of them fails.                                *)
(*                                                                         *)
(* iter is the one the repository's test passes (count_rows): it counts    *)
(* the matching rows of the group outside the mutex and adds them to the   *)
(* caller's total inside it.  The total is kept as the set of groups that  *)
(* have rows in it, so that a lost update is visible as a missing group.   *)
(*                                                                         *)
(* Every access to shared memory is a step of its own: position++ is a     *)
(* read and a write, and so is the addition to the caller's total.         *)
(***************************************************************************)
EXTENDS Integers

CONSTANTS MaxThreads,      \* largest thread_count the caller asks for
          MaxGroups,       \* most row groups in the open file
          CreateMayFail,   \* may pthread_create fail?
          None             \* no thread holds the mutex

ASSUME QueryAssumption ==
    /\ MaxThreads \in Nat
    /\ MaxGroups \in Nat
    /\ CreateMayFail \in BOOLEAN
    /\ None \notin 1..MaxThreads

Threads == 1..MaxThreads

VARIABLES
    groupCount,   \* reader->row_group_count, fixed while the file is open
    asked,        \* the argument thread_count
    main,         \* where the calling thread is
    created,      \* threads started so far (i of the first loop)
    joined,       \* threads joined so far (i of the second loop)
    outcome,      \* what cx_reader_query returned
    position,     \* context->position
    error,        \* context->error
    mutex,        \* the thread holding context->mutex, or None
    pc,           \* where each worker is
    claim,        \* a worker's local copy of position
    cursorError,  \* cx_row_cursor_error of a worker's cursor
    seen,         \* the total a worker read inside iter
    total,        \* the caller's data: the groups with rows in it
    lost          \* groups that could not be opened or iterated

mainVars    == <<main, created, joined, outcome>>
contextVars == <<position, error, mutex>>
workerVars  == <<pc, claim, cursorError, seen>>
vars == <<groupCount, asked, mainVars, contextVars, workerVars, total, lost>>

Groups == 0..(groupCount - 1)

\* The context is a local variable of cx_reader_query: once the call returns,
\* it is gone, and so is the mutex.
ContextAlive == main # "returned"

Init ==
    /\ groupCount \in 0..MaxGroups
    /\ asked \in -1..MaxThreads
    /\ main = "called" /\ created = 0 /\ joined = 0 /\ outcome = "pending"
    /\ position = 0 /\ error = FALSE /\ mutex = None
    /\ pc = [t \in Threads |-> "unborn"]
    /\ claim = [t \in Threads |-> 0]
    /\ cursorError = [t \in Threads |-> FALSE]
    /\ seen = [t \in Threads |-> {}]
    /\ total = {}
    /\ lost = {}

------------------------------------------------------------------------------
(* The calling thread. *)

Return(result) == /\ main' = "returned"
                  /\ outcome' = result
                  /\ UNCHANGED <<created, joined>>

MainOnly == UNCHANGED <<groupCount, asked, contextVars, claim, cursorError,
                        seen, total, lost>>

\* The early returns, a mutex or an array that cannot be allocated included.
Begin == /\ main = "called"
         /\ \/ asked <= 0 /\ Return("false")
            \/ asked > 0 /\ groupCount = 0 /\ Return("true")
            \/ asked > 0 /\ groupCount > 0 /\ Return("false")
            \/ /\ asked > 0 /\ groupCount > 0
               /\ main' = "creating"
               /\ UNCHANGED <<created, joined, outcome>>
         /\ MainOnly /\ UNCHANGED pc

CreateThread == /\ main = "creating" /\ created < asked
                /\ created' = created + 1
                /\ pc' = [pc EXCEPT ![created + 1] = "lock"]
                /\ MainOnly /\ UNCHANGED <<main, joined, outcome>>

\* goto error: the threads already started are neither joined nor stopped.
CreateFails == /\ CreateMayFail
               /\ main = "creating" /\ created < asked
               /\ Return("false")
               /\ MainOnly /\ UNCHANGED pc

AllCreated == /\ main = "creating" /\ created = asked
              /\ main' = "joining"
              /\ MainOnly /\ UNCHANGED <<created, joined, outcome, pc>>

Join == /\ main = "joining" /\ joined < asked
        /\ pc[joined + 1] = "exited"
        /\ joined' = joined + 1
        /\ MainOnly /\ UNCHANGED <<main, created, outcome, pc>>

\* Variant: the errors of the workers are not looked at.
AllJoinedIgnoringError == /\ main = "joining" /\ joined = asked
                          /\ Return("true")
                          /\ MainOnly /\ UNCHANGED pc

\* Variant: one worker is left running.
AllJoinedButOne == /\ main = "joining" /\ joined >= asked - 1
                   /\ Return(IF error THEN "false" ELSE "true")
                   /\ MainOnly /\ UNCHANGED pc

AllJoined == /\ main = "joining" /\ joined = asked
             /\ Return(IF error THEN "false" ELSE "true")
             /\ MainOnly /\ UNCHANGED pc

------------------------------------------------------------------------------
(* A worker. *)

Goto(t, label) == pc' = [pc EXCEPT ![t] = label]

WorkerOnly == UNCHANGED <<groupCount, asked, mainVars>>

\* Variant: lock without waiting.
AcquireAnyway(t) == mutex' = t

Acquire(t) == mutex = None /\ mutex' = t
Release(t) == mutex' = None

LockContext(t) == /\ pc[t] = "lock" /\ ContextAlive
                  /\ Acquire(t)
                  /\ Goto(t, "read")
                  /\ WorkerOnly
                  /\ UNCHANGED <<position, error, claim, cursorError, seen,
                                 total, lost>>

ReadPosition(t) == /\ pc[t] = "read" /\ ContextAlive
                   /\ claim' = [claim EXCEPT ![t] = position]
                   /\ Goto(t, "bump")
                   /\ WorkerOnly
                   /\ UNCHANGED <<contextVars, cursorError, seen, total, lost>>

BumpPosition(t) == /\ pc[t] = "bump" /\ ContextAlive
                   /\ position' = claim[t] + 1
                   /\ Release(t)
                   /\ Goto(t, "open")
                   /\ WorkerOnly
                   /\ UNCHANGED <<error, claim, cursorError, seen, total, lost>>

\* No group is left.
RunOut(t) == /\ pc[t] = "open" /\ ContextAlive
             /\ claim[t] >= groupCount
             /\ Goto(t, "exited")
             /\ WorkerOnly
             /\ UNCHANGED <<contextVars, claim, cursorError, seen, total, lost>>

\* Variant: off by one at the last group.
OpenOneTooMany(t) == /\ pc[t] = "open" /\ ContextAlive
                     /\ claim[t] <= groupCount
                     /\ \/ Goto(t, "count") /\ UNCHANGED lost
                        \/ Goto(t, "fail") /\ lost' = lost \cup {claim[t]}
                     /\ WorkerOnly
                     /\ UNCHANGED <<contextVars, claim, cursorError, seen, total>>

\* cx_row_group_reader_get and cx_row_cursor_new; either may return NULL.
Open(t) == /\ pc[t] = "open" /\ ContextAlive
           /\ claim[t] < groupCount
           /\ \/ /\ Goto(t, "count")
                 /\ UNCHANGED lost
              \/ /\ Goto(t, "fail")
                 /\ lost' = lost \cup {claim[t]}
           /\ WorkerOnly
           /\ UNCHANGED <<contextVars, claim, cursorError, seen, total>>

\* iter: cx_row_cursor_count, which sets the cursor's error when a column of the
\* group cannot be decompressed or matched.
CountRows(t) == /\ pc[t] = "count" /\ ContextAlive
                /\ \/ /\ cursorError' = [cursorError EXCEPT ![t] = FALSE]
                      /\ UNCHANGED lost
                   \/ /\ cursorError' = [cursorError EXCEPT ![t] = TRUE]
                      /\ lost' = lost \cup {claim[t]}
                /\ Goto(t, "enter")
                /\ WorkerOnly
                /\ UNCHANGED <<contextVars, claim, seen, total>>

\* Variant: the total is read before the lock.
EnterIterUnlocked(t) ==
    /\ pc[t] = "enter" /\ ContextAlive
    /\ seen' = [seen EXCEPT ![t] = total]
    /\ Goto(t, "add")
    /\ WorkerOnly
    /\ UNCHANGED <<contextVars, claim, cursorError, total, lost>>

\* iter: lock the mutex it was handed and read the total ...
EnterIter(t) == /\ pc[t] = "enter" /\ ContextAlive
                /\ Acquire(t)
                /\ seen' = [seen EXCEPT ![t] = total]
                /\ Goto(t, "add")
                /\ WorkerOnly
                /\ UNCHANGED <<position, error, claim, cursorError, total, lost>>

\* ... and write the sum back and unlock.  A count that failed is the number of
\* rows in the batches before the one that failed, perhaps none.
AddRows(t) == /\ pc[t] = "add" /\ ContextAlive
              /\ \/ total' = seen[t] \cup {claim[t]}
                 \/ cursorError[t] /\ total' = seen[t]
              /\ Release(t)
              /\ Goto(t, "check")
              /\ WorkerOnly
              /\ UNCHANGED <<position, error, claim, cursorError, seen, lost>>

\* cx_row_cursor_error after iter; without one, the loop starts again.
CheckCursor(t) == /\ pc[t] = "check" /\ ContextAlive
                  /\ Goto(t, IF cursorError[t] THEN "fail" ELSE "lock")
                  /\ WorkerOnly
                  /\ UNCHANGED <<contextVars, claim, cursorError, seen,
                                 total, lost>>

LockError(t) == /\ pc[t] = "fail" /\ ContextAlive
                /\ Acquire(t)
                /\ Goto(t, "mark")
                /\ WorkerOnly
                /\ UNCHANGED <<position, error, claim, cursorError, seen,
                               total, lost>>

\* Variant: the worker goes back to the error path instead of returning.
MarkErrorForever(t) == /\ pc[t] = "mark" /\ ContextAlive
                       /\ error' = TRUE
                       /\ Release(t)
                       /\ Goto(t, "fail")
                       /\ WorkerOnly
                       /\ UNCHANGED <<position, claim, cursorError, seen, total, lost>>

MarkError(t) == /\ pc[t] = "mark" /\ ContextAlive
                /\ error' = TRUE
                /\ Release(t)
                /\ Goto(t, "exited")
                /\ WorkerOnly
                /\ UNCHANGED <<position, claim, cursorError, seen, total, lost>>

\* A worker that outlives the call reads a context that no longer exists: what
\* it does from there is undefined, and is not followed further.
UseDeadContext(t) == /\ ~ContextAlive
                     /\ pc[t] \notin {"unborn", "exited", "undefined"}
                     /\ Goto(t, "undefined")
                     /\ WorkerOnly
                     /\ UNCHANGED <<contextVars, claim, cursorError, seen,
                                    total, lost>>

------------------------------------------------------------------------------
Main == \/ Begin \/ CreateThread \/ CreateFails \/ AllCreated
        \/ Join \/ AllJoined

Worker(t) == \/ LockContext(t) \/ ReadPosition(t) \/ BumpPosition(t)
             \/ RunOut(t) \/ Open(t)
             \/ CountRows(t) \/ EnterIter(t) \/ AddRows(t) \/ CheckCursor(t)
             \/ LockError(t) \/ MarkError(t)
             \/ UseDeadContext(t)

\* The call is over and every thread has stopped.
Terminated == /\ main = "returned"
              /\ \A t \in Threads : pc[t] \in {"unborn", "exited", "undefined"}
              /\ UNCHANGED vars

Next == Main \/ (\E t \in Threads : Worker(t)) \/ Terminated

Spec == Init /\ [][Next]_vars

\* The scheduler runs every thread that can run, and no more than that: the
\* mutex is not assumed to be fair.
FairSpec == /\ Spec
            /\ WF_vars(Main)
            /\ \A t \in Threads : WF_vars(Worker(t))

------------------------------------------------------------------------------
(* Properties *)

\* Every variable keeps its type.
TypeOK ==
    /\ groupCount \in 0..MaxGroups
    /\ asked \in -1..MaxThreads
    /\ main \in {"called", "creating", "joining", "returned"}
    /\ created \in 0..MaxThreads /\ joined \in 0..MaxThreads
    /\ outcome \in {"pending", "true", "false"}
    /\ position \in Nat /\ error \in BOOLEAN
    /\ mutex \in Threads \cup {None}
    /\ pc \in [Threads -> {"unborn", "lock", "read", "bump", "open", "count",
                           "enter", "add", "check", "fail", "mark", "exited",
                           "undefined"}]
    /\ claim \in [Threads -> Nat]
    /\ cursorError \in [Threads -> BOOLEAN]
    /\ seen \in [Threads -> SUBSET Groups]
    /\ total \in SUBSET Groups /\ lost \in SUBSET Groups

\* Worker t is responsible for group g: it took its number and has not yet
\* added its rows nor found it unreadable.
Holds(t, g) == /\ claim[t] = g
               /\ \/ pc[t] \in {"bump", "open", "count"}
                  \/ pc[t] \in {"enter", "add"} /\ ~cursorError[t]

\* No two workers work on the same row group, and no worker works on a group
\* that was already counted or lost, however the workers interleave.
ClaimedOnce ==
    \A t \in Threads : \A g \in Groups :
        Holds(t, g) => /\ g \notin total \cup lost
                       /\ \A u \in Threads \ {t} : ~Holds(u, g)

\* When cx_reader_query returns true, the rows of every group are in the
\* caller's total and none failed; when it returns false although it started
\* its threads and joined them, some group did fail.
OutcomeIsExact ==
    /\ outcome = "true" => total = Groups /\ lost = {}
    /\ outcome = "false" /\ joined = asked => lost # {} \/ asked <= 0

\* When cx_reader_query returns, no worker is still running: the caller may
\* read its data without the mutex and free the reader.
QuiescentOnReturn ==
    main = "returned" => \A t \in Threads : pc[t] \in {"unborn", "exited"}

\* The same of a call that could start all of its threads, whatever happened to
\* them and to the row groups after that.
QuiescentOnceStarted == created = asked => QuiescentOnReturn

\* Whatever fails, the call returns: the mutex is never left locked and no
\* thread waits for one that is gone.
CallReturns == main = "called" ~> main = "returned"

\* What the scan of GroupScan sees of the call: one that gave up on threads it
\* had started has abandoned it.
Answer == IF main = "returned" /\ created \in 1..(asked - 1) THEN "abandoned"
                                                            ELSE outcome

\* The call implements the sequential scan its caller relies on.
Scan == INSTANCE GroupScan WITH visited <- total, outcome <- Answer
ImplementsGroupScan == Scan!Spec
==============================================================================
