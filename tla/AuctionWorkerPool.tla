-------------------------- MODULE AuctionWorkerPool --------------------------
(***************************************************************************)
(* The auction server's DB workers and the life of its main(): workers are *)
(* spawned with a connection each, the io thread posts tasks to their      *)
(* queues, and after the io_context is gone Stop() lets them finish,       *)
(* joins them and gives their connections back.                            *)
(* Source: AuctionServer/AuctionWorkerPool.{h,cpp}, AuctionServer.cpp.     *)
(***************************************************************************)
EXTENDS Integers, Sequences, FiniteSets

CONSTANTS
    ReadWorkers, WriteWorkers,   \* at least one of each (Start, 28-29)
    PoolSize,                    \* connections of GConnectionPool
    Keys,                        \* list_id or player_id of a write
    MaxTasks                     \* bound: tasks posted

ASSUME PoolAssumption ==
    /\ ReadWorkers \in Nat \ {0} /\ WriteWorkers \in Nat \ {0}
    /\ PoolSize \in Nat /\ Keys \subseteq Nat /\ MaxTasks \in Nat

WorkerCount == ReadWorkers + WriteWorkers
Workers == 1 .. WorkerCount      \* the readers come first
Idle    == 0                     \* no task

VARIABLES
    main,        \* what the main thread is doing
    spawned,     \* workers 1..spawned exist
    next,        \* the worker Stop() handles next
    free,        \* connections in the pool
    abandoned,   \* connections dropped without being given back
    conn,        \* per worker: it has its connection
    guard,       \* per worker: the work guard keeps run() going
    thread,      \* per worker: "none", "running", "done"
    queue,       \* per worker: tasks posted and not begun
    running,     \* per worker: the task being run, or Idle
    tasks,       \* history: what was posted; a task is its index
    finished,    \* history: the tasks that ended, in order
    readTurn     \* _readRoundRobin

mainVars   == <<main, spawned, next>>
connVars   == <<free, abandoned, conn>>
taskVars   == <<tasks, readTurn>>
vars == <<main, spawned, next, free, abandoned, conn, guard, thread, queue,
          running, tasks, finished, readTurn>>

Init ==
    /\ main = "start" /\ spawned = 0 /\ next = 1
    /\ free = PoolSize /\ abandoned = 0 /\ conn = [w \in Workers |-> FALSE]
    /\ guard = [w \in Workers |-> FALSE]
    /\ thread = [w \in Workers |-> "none"]
    /\ queue = [w \in Workers |-> <<>>] /\ running = [w \in Workers |-> Idle]
    /\ tasks = <<>> /\ finished = <<>> /\ readTurn = 0
-----------------------------------------------------------------------------
(* Start(): one worker after the other, borrowing its connection first.    *)

Spawn ==
    /\ main = "start" /\ spawned < WorkerCount /\ free > 0
    /\ LET w == spawned + 1
       IN  /\ conn' = [conn EXCEPT ![w] = TRUE]
           /\ guard' = [guard EXCEPT ![w] = TRUE]
           /\ thread' = [thread EXCEPT ![w] = "running"]
    /\ free' = free - 1
    /\ spawned' = spawned + 1
    /\ UNCHANGED <<main, next, abandoned, queue, running, taskVars,
                   finished>>

(* borrow() throws when the pool is empty, or std::thread throws and the   *)
(* connection just borrowed is dropped without being given back.  main()   *)
(* catches either and stops the workers spawned so far.                    *)
SpawnFails ==
    /\ main = "start" /\ spawned < WorkerCount
    /\ main' = "reset"
    /\ IF free = 0 THEN UNCHANGED <<free, abandoned>>
                   ELSE free' = free - 1 /\ abandoned' = abandoned + 1
    /\ UNCHANGED <<spawned, next, conn, guard, thread, queue, running,
                   taskVars, finished>>

Serve ==
    /\ main = "start" /\ spawned = WorkerCount
    /\ main' = "serving"
    /\ UNCHANGED <<spawned, next, connVars, guard, thread, queue, running,
                   taskVars, finished>>

(* run() returns or throws; leaving the try block destroys the acceptor    *)
(* and the io_context before Stop() is called.                             *)
LeaveTry ==
    /\ main = "serving"
    /\ main' = "reset"
    /\ UNCHANGED <<spawned, next, connVars, guard, thread, queue, running,
                   taskVars, finished>>
-----------------------------------------------------------------------------
(* Posting, on the network thread.                                         *)

Writer_RoundRobin(key) == ReadWorkers + 1 + (Len(tasks) % WriteWorkers)
Writer(key) == ReadWorkers + 1 + (key % WriteWorkers)
Reader(turn) == 1 + (turn % ReadWorkers)

Post(w, task) ==
    /\ main = "serving" /\ Len(tasks) < MaxTasks
    /\ tasks' = Append(tasks, task)
    /\ queue' = [queue EXCEPT ![w] = Append(@, Len(tasks) + 1)]
    /\ UNCHANGED <<mainVars, connVars, guard, thread, running, finished>>

PostRead ==
    /\ Post(Reader(readTurn), [kind |-> "read", key |-> 0])
    /\ readTurn' = readTurn + 1

PostWrite(key) ==
    /\ Post(Writer(key), [kind |-> "write", key |-> key])
    /\ UNCHANGED readTurn
-----------------------------------------------------------------------------
(* A worker's thread.                                                      *)

BeginTask(w) ==
    /\ thread[w] = "running" /\ running[w] = Idle /\ queue[w] # <<>>
    /\ running' = [running EXCEPT ![w] = Head(queue[w])]
    /\ queue' = [queue EXCEPT ![w] = Tail(@)]
    /\ UNCHANGED <<mainVars, connVars, guard, thread, taskVars, finished>>

(* The task has used the connection and sends its reply, or it throws and  *)
(* the pool logs the exception: then there is no reply.                    *)
EndTask(w) ==
    /\ running[w] # Idle
    /\ finished' = Append(finished, running[w])
    /\ running' = [running EXCEPT ![w] = Idle]
    /\ UNCHANGED <<mainVars, connVars, guard, thread, queue, taskVars>>

(* run() ends when the guard is gone and nothing is queued. *)
MayExit_AtOnce(w) == ~guard[w]
MayExit(w) == ~guard[w] /\ queue[w] = <<>>

ThreadExits(w) ==
    /\ thread[w] = "running" /\ running[w] = Idle /\ MayExit(w)
    /\ thread' = [thread EXCEPT ![w] = "done"]
    /\ UNCHANGED <<mainVars, connVars, guard, queue, running, taskVars, finished>>
-----------------------------------------------------------------------------
(* Stop(): all guards, then all joins, then all connections.               *)

(* The main thread moves to the next worker, or to the next phase. *)
Advance(phase) ==
    IF next < spawned THEN next' = next + 1 /\ UNCHANGED main
                      ELSE next' = 1 /\ main' = phase

DropGuard_ReadersOnly == guard' = [guard EXCEPT ![next] = (next > ReadWorkers)]
DropGuard == guard' = [guard EXCEPT ![next] = FALSE]

ResetGuard ==
    /\ main = "reset" /\ spawned > 0
    /\ DropGuard
    /\ Advance("join")
    /\ UNCHANGED <<spawned, connVars, thread, queue, running, taskVars,
                   finished>>

Joined_NotAwaited(w) == TRUE
Joined(w) == thread[w] = "done"

Join ==
    /\ main = "join"
    /\ Joined(next)
    /\ Advance("unborrow")
    /\ UNCHANGED <<spawned, connVars, guard, thread, queue, running,
                   taskVars, finished>>

Returned_Twice == 2
Returned == 1

Unborrow ==
    /\ main = "unborrow"
    /\ conn' = [conn EXCEPT ![next] = FALSE]
    /\ free' = free + Returned
    /\ Advance("stopped")
    /\ UNCHANGED <<spawned, abandoned, guard, thread, queue, running,
                   taskVars, finished>>

NothingToStop ==
    /\ main = "reset" /\ spawned = 0
    /\ main' = "stopped"
    /\ UNCHANGED <<spawned, next, connVars, guard, thread, queue,
                   running, taskVars, finished>>
-----------------------------------------------------------------------------
Stop == ResetGuard \/ Join \/ Unborrow \/ NothingToStop
Thread(w) == BeginTask(w) \/ EndTask(w) \/ ThreadExits(w)

Next ==
    \/ Spawn \/ SpawnFails \/ Serve \/ LeaveTry \/ Stop
    \/ PostRead \/ \E key \in Keys : PostWrite(key)
    \/ \E w \in Workers : Thread(w)

Spec == Init /\ [][Next]_vars

(* The main thread goes on once it is in Stop(), threads are scheduled and *)
(* tasks end.                                                              *)
Fairness == WF_vars(Stop) /\ \A w \in Workers : WF_vars(Thread(w))
FairSpec == Spec /\ Fairness
-----------------------------------------------------------------------------
(* Properties *)

TypeOK ==
    /\ main \in {"start", "serving", "reset", "join", "unborrow", "stopped"}
    /\ spawned \in 0 .. WorkerCount /\ next \in Workers
    /\ free \in 0 .. PoolSize /\ abandoned \in 0 .. 1
    /\ conn \in [Workers -> BOOLEAN] /\ guard \in [Workers -> BOOLEAN]
    /\ thread \in [Workers -> {"none", "running", "done"}]
    /\ queue \in [Workers -> Seq(1 .. MaxTasks)]
    /\ running \in [Workers -> 0 .. MaxTasks]
    /\ tasks \in Seq([kind : {"read", "write"}, key : Keys \cup {0}])
    /\ finished \in Seq(1 .. MaxTasks)
    /\ readTurn \in Nat

(* Writes with one key end in the order they were posted, each after the   *)
(* one before it (AuctionWorkerPool.cpp:101, AuctionPacketHandler.cpp:79). *)
SameKeyInOrder ==
    \A i, j \in DOMAIN finished :
        LET s == tasks[finished[i]]  t == tasks[finished[j]]
        IN  i < j /\ s.kind = "write" /\ t.kind = "write" /\ s.key = t.key
              => finished[i] < finished[j]

(* Two writes with one key never run at the same time. *)
SameKeyAlone ==
    \A v, w \in Workers :
        v # w /\ running[v] # Idle /\ running[w] # Idle =>
            LET s == tasks[running[v]]  t == tasks[running[w]]
            IN  ~(s.kind = "write" /\ t.kind = "write" /\ s.key = t.key)

(* When Stop() returns every posted task has been run, no worker thread    *)
(* runs and every connection a worker had is back (AuctionWorkerPool.h:45).*)
StopIsClean ==
    main = "stopped" =>
        /\ \A n \in DOMAIN tasks : \E i \in DOMAIN finished : finished[i] = n
        /\ \A w \in Workers : thread[w] # "running"
        /\ free + abandoned = PoolSize

(* A task always runs with its worker's own connection: none is given back *)
(* while a thread may still use it.                                        *)
ConnectionWhileUsed ==
    \A w \in Workers : thread[w] = "running" => conn[w]

(* Stop() returns. *)
StopReturns == main = "reset" ~> main = "stopped"
=============================================================================
