----------------------- MODULE AuctionWorkerPoolProofs -----------------------
(***************************************************************************)
(* Theorems about AuctionWorkerPool, for any number of workers, keys,      *)
(* connections and tasks.                                                  *)
(***************************************************************************)
EXTENDS AuctionWorkerPool, TLAPS

ThreadTypes ==
    /\ main \in {"start", "serving", "reset", "join", "unborrow", "stopped"}
    /\ spawned \in 0 .. WorkerCount /\ next \in Workers
    /\ free \in Nat /\ abandoned \in 0 .. 1
    /\ conn \in [Workers -> BOOLEAN] /\ guard \in [Workers -> BOOLEAN]
    /\ thread \in [Workers -> {"none", "running", "done"}]

TaskTypes ==
    /\ queue \in [Workers -> Seq(Nat)]
    /\ running \in [Workers -> Nat]
    /\ tasks \in Seq([kind : {"read", "write"}, key : Keys \cup {0}])
    /\ finished \in Seq(Nat)
    /\ readTurn \in Nat

(* Where the main thread stands says which workers it has dealt with. *)
Phases ==
    /\ main = "serving" => spawned = WorkerCount
    /\ main = "start" => tasks = <<>>
    /\ main \in {"start", "serving"} => abandoned = 0
    /\ main \in {"start", "serving"} => next = 1
    /\ main \in {"join", "unborrow"} => spawned > 0
    /\ main \in {"reset", "join", "unborrow"} => next = 1 \/ next <= spawned
    /\ \A w \in Workers : thread[w] = "none" <=> w > spawned
    /\ \A w \in Workers : guard[w] <=>
          /\ w <= spawned
          /\ \/ main \in {"start", "serving"}
             \/ main = "reset" /\ w >= next
    /\ main = "join" => \A w \in 1 .. spawned : w < next => thread[w] = "done"
    /\ main \in {"unborrow", "stopped"} => \A w \in 1 .. spawned : thread[w] = "done"

(* Every connection is free, dropped or with a worker that has not been    *)
(* dealt with yet.                                                         *)
Connections ==
    /\ \A w \in Workers : conn[w] <=>
          /\ w <= spawned
          /\ main # "stopped"
          /\ main = "unborrow" => w >= next
    /\ main \notin {"unborrow", "stopped"} => free + abandoned + spawned = PoolSize
    /\ main = "unborrow" => free + abandoned + spawned = PoolSize + (next - 1)
    /\ main = "stopped" => free + abandoned = PoolSize

(* A worker that is not running has nothing to do, and none stops while    *)
(* its guard is held.                                                      *)
AtRest ==
    \A w \in Workers :
        /\ thread[w] # "running" => queue[w] = <<>> /\ running[w] = Idle
        /\ thread[w] = "done" => ~guard[w]

SameWrite(m, n) ==
    tasks[m].kind = "write" /\ tasks[n].kind = "write" /\ tasks[m].key = tasks[n].key

(* A worker's queue holds posted tasks in the order they were posted, all  *)
(* of them after the one it is running, and writes wait at their writer.   *)
Queues ==
    \A w \in Workers :
        /\ running[w] # Idle => running[w] \in DOMAIN tasks
        /\ running[w] # Idle /\ tasks[running[w]].kind = "write"
              => w = Writer(tasks[running[w]].key)
        /\ \A i \in DOMAIN queue[w] :
              /\ queue[w][i] \in DOMAIN tasks
              /\ queue[w][i] > running[w]
              /\ tasks[queue[w][i]].kind = "write" => w = Writer(tasks[queue[w][i]].key)
        /\ \A i, j \in DOMAIN queue[w] : i < j => queue[w][i] < queue[w][j]

(* What ended was posted, and before every write of its key still to end. *)
EndedFirst ==
    \A i \in DOMAIN finished :
        /\ finished[i] \in DOMAIN tasks
        /\ \A w \in Workers :
              /\ running[w] # Idle /\ SameWrite(finished[i], running[w])
                    => finished[i] < running[w]
              /\ \A j \in DOMAIN queue[w] :
                    SameWrite(finished[i], queue[w][j]) => finished[i] < queue[w][j]

(* No task is lost. *)
NoneLost ==
    \A n \in DOMAIN tasks :
        \/ \E i \in DOMAIN finished : finished[i] = n
        \/ \E w \in Workers : running[w] = n
        \/ \E w \in Workers : \E j \in DOMAIN queue[w] : queue[w][j] = n

IInv ==
    /\ ThreadTypes /\ TaskTypes /\ Phases /\ Connections /\ AtRest /\ Queues /\ EndedFirst /\ NoneLost
    /\ SameKeyInOrder

LEMMA WorkersAreThere == WorkerCount \in Nat /\ WorkerCount > 0 /\ 1 \in Workers
BY PoolAssumption DEF WorkerCount, Workers

LEMMA ReadersAndWriters ==
    /\ \A turn \in Nat : Reader(turn) \in Workers
    /\ \A key \in Keys : Writer(key) \in Workers
BY PoolAssumption DEF WorkerCount, Workers, Reader, Writer

LEMMA InitInv == Init => IInv
<1> SUFFICES ASSUME Init PROVE IInv
  OBVIOUS
<1> USE PoolAssumption, WorkersAreThere DEF Init
<1>1. ThreadTypes
  <2>1. main = "start" /\ spawned \in 0 .. WorkerCount /\ next \in Workers
           /\ free \in Nat /\ abandoned \in 0 .. 1
    OBVIOUS
  <2>2. conn \in [Workers -> BOOLEAN] /\ guard \in [Workers -> BOOLEAN]
           /\ thread \in [Workers -> {"none", "running", "done"}]
    OBVIOUS
  <2>3. QED
    BY <2>1, <2>2 DEF ThreadTypes
<1>2. TaskTypes
  BY DEF TaskTypes, Idle
<1>3. Phases /\ Connections
  BY DEF Phases, Connections, Workers
<1>4. AtRest /\ Queues /\ EndedFirst /\ NoneLost /\ SameKeyInOrder
  BY DEF AtRest, Queues, EndedFirst, NoneLost, SameKeyInOrder, Idle
<1>5. QED
  BY <1>1, <1>2, <1>3, <1>4 DEF IInv

(* The steps that leave the tasks and who works on them alone. *)
LEMMA ControlInv ==
    ASSUME IInv, UNCHANGED <<queue, running, tasks, finished, readTurn>>,
           ThreadTypes', Phases', Connections',
           \A w \in Workers :
              /\ thread'[w] # "running" => queue[w] = <<>> /\ running[w] = Idle
              /\ thread'[w] = "done" => ~guard'[w]
    PROVE  IInv'
BY DEF IInv, AtRest, Queues, EndedFirst, NoneLost, SameKeyInOrder, SameWrite, TaskTypes

LEMMA StartInv == ASSUME IInv, Spawn \/ SpawnFails \/ Serve \/ LeaveTry PROVE IInv'
<1> USE PoolAssumption, WorkersAreThere DEF IInv
<1>1. ASSUME Spawn PROVE IInv'
  <2>1. ThreadTypes'
    BY <1>1 DEF Spawn, ThreadTypes, taskVars, Workers
  <2>2. Phases'
    BY <1>1 DEF Spawn, ThreadTypes, Phases, Workers, taskVars
  <2>3. Connections'
    BY <1>1 DEF Spawn, ThreadTypes, Phases, Connections, Workers
  <2>4. \A w \in Workers :
           /\ thread'[w] # "running" => queue[w] = <<>> /\ running[w] = Idle
           /\ thread'[w] = "done" => ~guard'[w]
    BY <1>1 DEF Spawn, ThreadTypes, AtRest
  <2>5. QED
    BY <1>1, <2>1, <2>2, <2>3, <2>4, ControlInv DEF Spawn, taskVars
<1>2. ASSUME SpawnFails PROVE IInv'
  <2>1. ThreadTypes' /\ Phases'
    BY <1>2 DEF SpawnFails, ThreadTypes, Phases, Workers, taskVars
  <2>2. Connections'
    <3>1. \A w \in Workers : conn'[w] <=> w <= spawned'
      BY <1>2 DEF SpawnFails, Connections
    <3>2. free' + abandoned' + spawned' = PoolSize
      BY <1>2 DEF SpawnFails, ThreadTypes, Connections
    <3>3. QED
      BY <1>2, <3>1, <3>2 DEF SpawnFails, Connections
  <2>3. QED
    BY <1>2, <2>1, <2>2, ControlInv DEF SpawnFails, taskVars, AtRest
<1>3. ASSUME Serve \/ LeaveTry PROVE IInv'
  <2>1. ThreadTypes'
    BY <1>3 DEF Serve, LeaveTry, ThreadTypes, taskVars, connVars
  <2>2. Phases'
    BY <1>3 DEF Serve, LeaveTry, ThreadTypes, Phases, Workers, taskVars, connVars
  <2>3. Connections'
    BY <1>3 DEF Serve, LeaveTry, Connections, connVars
  <2>4. QED
    BY <1>3, <2>1, <2>2, <2>3, ControlInv DEF Serve, LeaveTry, taskVars, AtRest
<1>4. QED
  BY <1>1, <1>2, <1>3

LEMMA StopInv == ASSUME IInv, Stop PROVE IInv'
<1> USE PoolAssumption, WorkersAreThere DEF IInv
<1>1. ASSUME ResetGuard PROVE IInv'
  <2>1. ThreadTypes' /\ Phases' /\ Connections'
    BY <1>1 DEF ResetGuard, Advance, DropGuard, ThreadTypes, Phases, Connections, Workers,
                taskVars, connVars
  <2>2. QED
    BY <1>1, <2>1, ControlInv
       DEF ResetGuard, DropGuard, taskVars, AtRest, ThreadTypes
<1>2. ASSUME Join PROVE IInv'
  <2>1. ThreadTypes'
    BY <1>2 DEF Join, Advance, ThreadTypes, Workers, taskVars, connVars
  <2>2. Phases'
    BY <1>2 DEF Join, Joined, Advance, ThreadTypes, Phases, Workers
  <2>3. Connections'
    BY <1>2 DEF Join, Advance, ThreadTypes, Phases, Connections, Workers, connVars
  <2>4. QED
    BY <1>2, <2>1, <2>2, <2>3, ControlInv DEF Join, taskVars, AtRest
<1>3. ASSUME Unborrow PROVE IInv'
  <2>1. ThreadTypes'
    BY <1>3 DEF Unborrow, Returned, Advance, ThreadTypes, Workers, taskVars
  <2>2. Phases'
    BY <1>3 DEF Unborrow, Advance, ThreadTypes, Phases, Workers
  <2>3. Connections'
    <3>1. CASE next < spawned
      BY <1>3, <3>1 DEF Unborrow, Returned, Advance, ThreadTypes, Connections, Workers
    <3>2. CASE ~(next < spawned)
      <4>1. next = spawned
        BY <1>3, <3>2 DEF Unborrow, ThreadTypes, Phases, Workers
      <4>2. \A w \in Workers : ~conn'[w]
        BY <1>3, <4>1 DEF Unborrow, ThreadTypes, Connections, Workers
      <4>3. free' + abandoned' = PoolSize
        BY <1>3, <4>1 DEF Unborrow, Returned, ThreadTypes, Connections
      <4>4. QED
        BY <1>3, <3>2, <4>2, <4>3 DEF Unborrow, Advance, Connections
    <3>3. QED
      BY <3>1, <3>2
  <2>4. QED
    BY <1>3, <2>1, <2>2, <2>3, ControlInv DEF Unborrow, taskVars, AtRest
<1>4. ASSUME NothingToStop PROVE IInv'
  <2>1. ThreadTypes' /\ Phases' /\ Connections'
    BY <1>4 DEF NothingToStop, ThreadTypes, Phases, Connections, Workers, taskVars, connVars
  <2>2. QED
    BY <1>4, <2>1, ControlInv DEF NothingToStop, taskVars, AtRest
<1>5. QED
  BY <1>1, <1>2, <1>3, <1>4 DEF Stop

(* A task is posted to the end of a live worker's queue: it is the newest. *)
LEMMA PostInv ==
    ASSUME IInv, NEW w \in Workers,
           NEW task \in [kind : {"read", "write"}, key : Keys \cup {0}],
           task.kind = "write" => w = Writer(task.key),
           Post(w, task), readTurn' \in Nat
    PROVE  IInv'
<1> USE PoolAssumption, WorkersAreThere DEF IInv
<1> DEFINE n == Len(tasks) + 1
<1>1. /\ n \in Nat \ {0} /\ tasks' = Append(tasks, task)
      /\ DOMAIN tasks' = 1 .. n /\ DOMAIN tasks = 1 .. n - 1
      /\ tasks'[n] = task /\ \A m \in DOMAIN tasks : tasks'[m] = tasks[m]
  BY DEF Post, TaskTypes
<1>2. /\ queue' = [queue EXCEPT ![w] = Append(queue[w], n)]
      /\ DOMAIN queue'[w] = 1 .. Len(queue[w]) + 1
      /\ queue'[w][Len(queue[w]) + 1] = n
      /\ \A i \in DOMAIN queue[w] : i \in 1 .. Len(queue[w]) /\ queue'[w][i] = queue[w][i]
      /\ \A v \in Workers : v # w => queue'[v] = queue[v]
  BY DEF Post, TaskTypes
<1>3. UNCHANGED <<mainVars, connVars, guard, thread, running, finished>>
         /\ main = "serving"
  BY DEF Post
<1>4. ThreadTypes' /\ TaskTypes'
  BY <1>1, <1>2, <1>3 DEF ThreadTypes, TaskTypes, mainVars, connVars
<1>5. Phases' /\ Connections'
  BY <1>3 DEF Phases, Connections, mainVars, connVars
<1>6. AtRest'
  <2>1. thread[w] # "none" /\ thread[w] # "done"
    BY <1>3 DEF AtRest, Phases, Workers, ThreadTypes
  <2>2. QED
    BY <1>2, <1>3, <2>1 DEF AtRest, ThreadTypes
<1>7. ASSUME NEW v \in Workers
      PROVE  /\ running'[v] = running[v] /\ Len(queue[v]) \in Nat
             /\ DOMAIN queue[v] = 1 .. Len(queue[v])
             /\ v # w => queue'[v] = queue[v]
             /\ running[v] \in Nat /\ (running[v] # Idle => running[v] \in DOMAIN tasks)
             /\ running[v] < n
             /\ \A i \in DOMAIN queue[v] : queue[v][i] \in DOMAIN tasks
  BY <1>1, <1>2, <1>3 DEF TaskTypes, Queues, Idle
<1>8. Queues'
  <2> SUFFICES ASSUME NEW v \in Workers
               PROVE  /\ running'[v] # Idle => running'[v] \in DOMAIN tasks'
                      /\ running'[v] # Idle /\ tasks'[running'[v]].kind = "write"
                            => v = Writer(tasks'[running'[v]].key)
                      /\ \A i \in DOMAIN queue'[v] :
                            /\ queue'[v][i] \in DOMAIN tasks'
                            /\ queue'[v][i] > running'[v]
                            /\ tasks'[queue'[v][i]].kind = "write"
                                  => v = Writer(tasks'[queue'[v][i]].key)
                      /\ \A i, j \in DOMAIN queue'[v] :
                            i < j => queue'[v][i] < queue'[v][j]
    BY DEF Queues
  <2>1. CASE v # w
    BY <1>1, <1>7, <2>1 DEF Queues
  <2>2. CASE v = w
    BY <1>1, <1>2, <1>7, <2>2 DEF Queues
  <2>3. QED
    BY <2>1, <2>2
<1>9. EndedFirst'
  <2>1. \A i \in DOMAIN finished : finished[i] \in DOMAIN tasks /\ finished[i] < n
    BY <1>1 DEF EndedFirst
  <2>2. \A k, m \in DOMAIN tasks : SameWrite(k, m)' <=> SameWrite(k, m)
    BY <1>1 DEF SameWrite
  <2>3. ASSUME NEW i \in DOMAIN finished, NEW v \in Workers
        PROVE  /\ running[v] # Idle /\ SameWrite(finished[i], running[v])'
                      => finished[i] < running[v]
               /\ \A j \in DOMAIN queue[v] :
                      SameWrite(finished[i], queue[v][j]) => finished[i] < queue[v][j]
    BY <1>3, <1>7, <2>1, <2>2 DEF EndedFirst
  <2>4. ASSUME NEW i \in DOMAIN finished, NEW v \in Workers, NEW j \in DOMAIN queue'[v],
               SameWrite(finished[i], queue[v][j])'
        PROVE  finished[i] < queue'[v][j]
    <3>1. CASE v = w /\ j = Len(queue[w]) + 1
      BY <1>2, <2>1, <3>1
    <3>2. CASE j \in DOMAIN queue[v] /\ queue'[v][j] = queue[v][j]
      BY <1>3, <1>7, <2>1, <2>2, <2>3, <2>4, <3>2
    <3>3. QED
      BY <1>2, <1>7, <3>1, <3>2
  <2>5. QED
    BY <1>1, <1>3, <1>7, <2>1, <2>3, <2>4 DEF EndedFirst
<1>10. NoneLost'
  <2> SUFFICES ASSUME NEW m \in DOMAIN tasks'
               PROVE  \/ \E i \in DOMAIN finished : finished[i] = m
                      \/ \E v \in Workers : running[v] = m
                      \/ \E v \in Workers : \E j \in DOMAIN queue'[v] : queue'[v][j] = m
    BY <1>3 DEF NoneLost
  <2>1. CASE m = n
    BY <1>2, <2>1, <1>7
  <2>2. CASE m # n
    BY <1>1, <1>2, <1>7, <2>2 DEF NoneLost
  <2>3. QED
    BY <2>1, <2>2
<1>11. SameKeyInOrder'
  BY <1>1, <1>3 DEF SameKeyInOrder, EndedFirst
<1>12. QED
  BY <1>4, <1>5, <1>6, <1>8, <1>9, <1>10, <1>11

LEMMA BeginTaskInv == ASSUME IInv, NEW w \in Workers, BeginTask(w) PROVE IInv'
<1> USE PoolAssumption, WorkersAreThere DEF IInv
<1>1. /\ queue[w] \in Seq(Nat) /\ queue[w] # <<>> /\ thread[w] = "running"
      /\ running[w] = Idle /\ running' = [running EXCEPT ![w] = queue[w][1]]
      /\ queue' = [queue EXCEPT ![w] = Tail(queue[w])]
      /\ UNCHANGED <<mainVars, connVars, guard, thread, taskVars, finished>>
  BY DEF BeginTask, TaskTypes
<1>2. /\ Tail(queue[w]) \in Seq(Nat) /\ Len(queue[w]) \in Nat \ {0}
      /\ DOMAIN queue[w] = 1 .. Len(queue[w])
      /\ DOMAIN Tail(queue[w]) = 1 .. Len(queue[w]) - 1
      /\ \A i \in DOMAIN Tail(queue[w]) :
            i + 1 \in DOMAIN queue[w] /\ Tail(queue[w])[i] = queue[w][i + 1]
  BY <1>1
<1>3. \A v \in Workers : v # w => running'[v] = running[v] /\ queue'[v] = queue[v]
  BY <1>1 DEF TaskTypes
<1>4. running'[w] = queue[w][1] /\ queue'[w] = Tail(queue[w]) /\ 1 \in DOMAIN queue[w]
         /\ queue[w][1] \in Nat
  BY <1>1, <1>2 DEF TaskTypes
<1>4a. /\ \A i \in DOMAIN queue'[w] :
             /\ i \in Nat /\ i + 1 \in DOMAIN queue[w] /\ 1 < i + 1
             /\ queue'[w][i] = queue[w][i + 1]
       /\ \A i, j \in DOMAIN queue'[w] : i < j => i + 1 < j + 1
       /\ \A j \in DOMAIN queue[w] :
             j # 1 => j - 1 \in DOMAIN queue'[w] /\ queue'[w][j - 1] = queue[w][j]
  <2>1. queue'[w] = Tail(queue[w])
    BY <1>4
  <2>2. \A i \in DOMAIN Tail(queue[w]) : i \in Nat /\ 1 < i + 1
    BY <1>2
  <2>3. \A i, j \in DOMAIN Tail(queue[w]) : i < j => i + 1 < j + 1
    BY <2>2
  <2>4. \A j \in DOMAIN queue[w] :
           j # 1 => j - 1 \in DOMAIN Tail(queue[w]) /\ (j - 1) + 1 = j
    BY <1>2
  <2>5. QED
    BY <1>2, <2>1, <2>2, <2>3, <2>4
<1>5. ThreadTypes' /\ Phases' /\ Connections'
  <2>1. ThreadTypes' /\ Connections'
    BY <1>1 DEF ThreadTypes, Connections, mainVars, connVars
  <2>2. Phases'
    BY <1>1 DEF Phases, mainVars, connVars, taskVars
  <2>3. QED
    BY <2>1, <2>2
<1>6. TaskTypes'
  BY <1>1, <1>2, <1>4 DEF TaskTypes, taskVars
<1>7. AtRest'
  BY <1>1, <1>3 DEF AtRest
<1>8. Queues'
  <2>1. ASSUME NEW v \in Workers, v # w
        PROVE  running'[v] = running[v] /\ queue'[v] = queue[v]
    BY <1>3, <2>1
  <2>2. /\ queue[w][1] \in DOMAIN tasks
        /\ tasks[queue[w][1]].kind = "write" => w = Writer(tasks[queue[w][1]].key)
    BY <1>4 DEF Queues
  <2>3. ASSUME NEW i \in DOMAIN queue'[w]
        PROVE  /\ queue'[w][i] \in DOMAIN tasks
               /\ queue'[w][i] > queue[w][1]
               /\ tasks[queue'[w][i]].kind = "write"
                    => w = Writer(tasks[queue'[w][i]].key)
    <3>1. i + 1 \in DOMAIN queue[w] /\ queue'[w][i] = queue[w][i + 1] /\ 1 < i + 1
      BY <1>4a
    <3>2. queue[w][1] < queue[w][i + 1] /\ queue[w][i + 1] \in Nat
      BY <1>1, <1>4, <3>1 DEF Queues
    <3>3. QED
      BY <1>4, <3>1, <3>2 DEF Queues
  <2>4. ASSUME NEW i \in DOMAIN queue'[w], NEW j \in DOMAIN queue'[w], i < j
        PROVE  queue'[w][i] < queue'[w][j]
    <3>1. /\ i + 1 \in DOMAIN queue[w] /\ queue'[w][i] = queue[w][i + 1]
          /\ j + 1 \in DOMAIN queue[w] /\ queue'[w][j] = queue[w][j + 1]
          /\ i + 1 < j + 1
      BY <1>4a, <2>4
    <3>2. QED
      BY <3>1 DEF Queues
  <2>5. ASSUME NEW v \in Workers
        PROVE  /\ running'[v] # Idle => running'[v] \in DOMAIN tasks
               /\ running'[v] # Idle /\ tasks[running'[v]].kind = "write"
                     => v = Writer(tasks[running'[v]].key)
               /\ \A i \in DOMAIN queue'[v] :
                     /\ queue'[v][i] \in DOMAIN tasks
                     /\ queue'[v][i] > running'[v]
                     /\ tasks[queue'[v][i]].kind = "write"
                           => v = Writer(tasks[queue'[v][i]].key)
               /\ \A i, j \in DOMAIN queue'[v] : i < j => queue'[v][i] < queue'[v][j]
    <3>1. CASE v = w
      BY <1>4, <2>2, <2>3, <2>4, <3>1
    <3>2. CASE v # w
      BY <2>1, <3>2 DEF Queues
    <3>3. QED
      BY <3>1, <3>2
  <2>6. QED
    BY <1>1, <2>5 DEF Queues, taskVars
<1>9. EndedFirst'
  <2>1. ASSUME NEW i \in DOMAIN finished, NEW v \in Workers
        PROVE  /\ running'[v] # Idle /\ SameWrite(finished[i], running'[v])
                     => finished[i] < running'[v]
               /\ \A j \in DOMAIN queue'[v] :
                     SameWrite(finished[i], queue'[v][j]) => finished[i] < queue'[v][j]
    <3>1. CASE v = w
      <4>1. \A j \in DOMAIN queue'[w] :
               SameWrite(finished[i], queue'[w][j]) => finished[i] < queue'[w][j]
        BY <1>4a DEF EndedFirst
      <4>2. SameWrite(finished[i], running'[w]) => finished[i] < running'[w]
        BY <1>4 DEF EndedFirst
      <4>3. QED
        BY <3>1, <4>1, <4>2
    <3>2. CASE v # w
      BY <1>3, <3>2 DEF EndedFirst
    <3>3. QED
      BY <3>1, <3>2
  <2>2. QED
    BY <1>1, <2>1 DEF EndedFirst, SameWrite, taskVars
<1>10. NoneLost'
  <2> SUFFICES ASSUME NEW m \in DOMAIN tasks
               PROVE  \/ \E i \in DOMAIN finished : finished[i] = m
                      \/ \E v \in Workers : running'[v] = m
                      \/ \E v \in Workers : \E j \in DOMAIN queue'[v] : queue'[v][j] = m
    BY <1>1 DEF NoneLost, taskVars
  <2>1. ASSUME NEW v \in Workers, running[v] = m PROVE v # w
    BY <1>1, <2>1 DEF TaskTypes, Idle
  <2>2. ASSUME NEW j \in DOMAIN queue[w], queue[w][j] = m
        PROVE  running'[w] = m \/ \E k \in DOMAIN queue'[w] : queue'[w][k] = m
    <3>1. CASE j = 1
      BY <1>4, <2>2, <3>1
    <3>2. CASE j # 1
      <4>1. j - 1 \in DOMAIN queue'[w] /\ queue'[w][j - 1] = m
        BY <1>4a, <2>2, <3>2
      <4>2. QED
        BY <4>1
    <3>3. QED
      BY <3>1, <3>2
  <2>3. QED
    BY <1>3, <2>1, <2>2 DEF NoneLost
<1>11. SameKeyInOrder'
  BY <1>1 DEF SameKeyInOrder, taskVars
<1>12. QED
  BY <1>5, <1>6, <1>7, <1>8, <1>9, <1>10, <1>11

LEMMA EndTaskInv == ASSUME IInv, NEW w \in Workers, EndTask(w) PROVE IInv'
<1> USE PoolAssumption, WorkersAreThere DEF IInv
<1> DEFINE n == running[w]
           k == Len(finished) + 1
<1>1. /\ n # Idle /\ n \in DOMAIN tasks /\ n \in Nat /\ thread[w] = "running"
      /\ running' = [running EXCEPT ![w] = Idle] /\ running'[w] = Idle
      /\ UNCHANGED <<mainVars, connVars, guard, thread, queue, taskVars>>
  BY DEF EndTask, TaskTypes, ThreadTypes, Queues, AtRest
<1>2. /\ finished' = Append(finished, n) /\ k \in Nat \ {0}
      /\ DOMAIN finished' = 1 .. k /\ DOMAIN finished = 1 .. k - 1
      /\ finished'[k] = n /\ \A i \in DOMAIN finished : finished'[i] = finished[i]
  BY <1>1 DEF EndTask, TaskTypes
<1>3. \A v \in Workers : v # w => running'[v] = running[v]
  BY <1>1 DEF TaskTypes
<1>4. ThreadTypes' /\ Connections'
  BY <1>1 DEF ThreadTypes, Connections, mainVars, connVars
<1>5. Phases'
  BY <1>1 DEF Phases, mainVars, connVars, taskVars
<1>6. TaskTypes'
  BY <1>1, <1>2 DEF TaskTypes, taskVars, Idle
<1>7. AtRest'
  BY <1>1, <1>3 DEF AtRest
<1>8. Queues'
  <2>1. ASSUME NEW v \in Workers
        PROVE  /\ running'[v] # Idle => running'[v] = running[v]
               /\ running'[v] <= running[v] /\ running'[v] \in Nat /\ running[v] \in Nat
               /\ \A i \in DOMAIN queue[v] : queue[v][i] \in Nat
    BY <1>1, <1>3 DEF TaskTypes, Idle
  <2>2. \A v \in Workers : \A i \in DOMAIN queue[v] : queue[v][i] > running'[v]
    BY <2>1 DEF Queues
  <2>3. QED
    BY <1>1, <2>1, <2>2 DEF Queues, taskVars
(* The task that ended is the oldest write of its key: another one at work *)
(* or in a queue is at the same worker, behind it.                         *)
<1>9. ASSUME NEW v \in Workers
      PROVE  /\ running'[v] # Idle => ~SameWrite(n, running'[v])
             /\ \A j \in DOMAIN queue[v] : SameWrite(n, queue[v][j]) => n < queue[v][j]
  BY <1>1, <1>3 DEF Queues, SameWrite, TaskTypes
<1>10. \A i \in DOMAIN finished : SameWrite(finished[i], n) => finished[i] < n
  BY <1>1 DEF EndedFirst
<1>11. EndedFirst'
  <2>1. ASSUME NEW i \in DOMAIN finished'
        PROVE  /\ finished'[i] \in DOMAIN tasks
               /\ \A v \in Workers :
                     /\ running'[v] # Idle /\ SameWrite(finished'[i], running'[v])
                           => finished'[i] < running'[v]
                     /\ \A j \in DOMAIN queue[v] :
                           SameWrite(finished'[i], queue[v][j])
                              => finished'[i] < queue[v][j]
    <3>1. CASE i = k
      BY <1>1, <1>2, <1>9, <3>1
    <3>2. CASE i # k
      BY <1>1, <1>2, <1>3, <3>2 DEF EndedFirst
    <3>3. QED
      BY <3>1, <3>2
  <2>2. QED
    BY <1>1, <2>1 DEF EndedFirst, SameWrite, taskVars
<1>12. SameKeyInOrder'
  <2>1. ASSUME NEW i \in DOMAIN finished', NEW j \in DOMAIN finished', i < j,
               SameWrite(finished'[i], finished'[j])
        PROVE  finished'[i] < finished'[j]
    <3>1. CASE j = k
      BY <1>2, <1>10, <2>1, <3>1
    <3>2. CASE j # k
      BY <1>2, <2>1, <3>2 DEF SameKeyInOrder, SameWrite
    <3>3. QED
      BY <3>1, <3>2
  <2>2. QED
    BY <1>1, <2>1 DEF SameKeyInOrder, SameWrite, taskVars
<1>13. NoneLost'
  <2>1. ASSUME NEW m \in DOMAIN tasks
        PROVE  \/ \E i \in DOMAIN finished' : finished'[i] = m
               \/ \E v \in Workers : running'[v] = m
               \/ \E v \in Workers : \E j \in DOMAIN queue[v] : queue[v][j] = m
    <3>1. CASE m = n
      BY <1>2, <3>1
    <3>2. CASE m # n
      BY <1>2, <1>3, <3>2 DEF NoneLost
    <3>3. QED
      BY <3>1, <3>2
  <2>2. QED
    BY <1>1, <2>1 DEF NoneLost, taskVars
<1>14. QED
  BY <1>4, <1>5, <1>6, <1>7, <1>8, <1>11, <1>12, <1>13

LEMMA ThreadExitsInv == ASSUME IInv, NEW w \in Workers, ThreadExits(w) PROVE IInv'
<1> USE PoolAssumption, WorkersAreThere DEF IInv
<1>1. /\ thread[w] = "running" /\ running[w] = Idle /\ queue[w] = <<>> /\ ~guard[w]
      /\ thread' = [thread EXCEPT ![w] = "done"] /\ thread'[w] = "done"
      /\ \A v \in Workers : v # w => thread'[v] = thread[v]
      /\ UNCHANGED <<mainVars, connVars, guard, queue, running, taskVars, finished>>
  BY DEF ThreadExits, MayExit, ThreadTypes
<1>2. ThreadTypes' /\ Connections'
  BY <1>1 DEF ThreadTypes, Connections, mainVars, connVars
<1>3. Phases'
  BY <1>1 DEF Phases, Workers, ThreadTypes, mainVars, connVars, taskVars
<1>4. \A v \in Workers :
         /\ thread'[v] # "running" => queue[v] = <<>> /\ running[v] = Idle
         /\ thread'[v] = "done" => ~guard'[v]
  BY <1>1 DEF AtRest
<1>5. QED
  BY <1>1, <1>2, <1>3, <1>4, ControlInv DEF taskVars

LEMMA StepInv == IInv /\ [Next]_vars => IInv'
<1> SUFFICES ASSUME IInv, [Next]_vars PROVE IInv'
  OBVIOUS
<1>1. CASE Spawn \/ SpawnFails \/ Serve \/ LeaveTry
  BY <1>1, StartInv
<1>2. CASE Stop
  BY <1>2, StopInv
<1>3. CASE PostRead
  <2>1. Reader(readTurn) \in Workers /\ readTurn \in Nat
    BY ReadersAndWriters DEF IInv, TaskTypes
  <2>2. QED
    BY <1>3, <2>1, PostInv DEF PostRead
<1>4. ASSUME NEW key \in Keys, PostWrite(key) PROVE IInv'
  <2>1. Writer(key) \in Workers /\ readTurn \in Nat
    BY ReadersAndWriters DEF IInv, TaskTypes
  <2>2. QED
    BY <1>4, <2>1, PostInv DEF PostWrite
<1>5. ASSUME NEW w \in Workers, Thread(w) PROVE IInv'
  BY <1>5, BeginTaskInv, EndTaskInv, ThreadExitsInv DEF Thread
<1>6. CASE UNCHANGED vars
  <2>1. ThreadTypes' /\ Phases' /\ Connections'
    BY <1>6 DEF vars, IInv, ThreadTypes, Phases, Connections
  <2>2. QED
    BY <1>6, <2>1, ControlInv DEF vars, IInv, AtRest
<1>7. QED
  BY <1>1, <1>2, <1>3, <1>4, <1>5, <1>6 DEF Next

(* The invariant the theorems below are read from. *)
LEMMA Invariance == Spec => []IInv
BY InitInv, StepInv, PTL DEF Spec

(* PostWrite's key % count: for any number of workers and tasks, writes    *)
(* with one key end in the order they were posted.                         *)
THEOREM PoolKeepsOrder == Spec => []SameKeyInOrder
<1>1. IInv => SameKeyInOrder
  BY DEF IInv
<1>2. QED
  BY <1>1, Invariance, PTL

(* Two workers never run writes with one key at the same time. *)
THEOREM PoolRunsKeyAlone == Spec => []SameKeyAlone
<1>1. IInv => SameKeyAlone
  BY DEF IInv, Queues, SameKeyAlone
<1>2. QED
  BY <1>1, Invariance, PTL

(* Guards, then joins, then connections: when Stop() returns, every task   *)
(* has been run, no worker runs and no connection is missing.              *)
THEOREM PoolStopIsClean == Spec => []StopIsClean
<1>1. ASSUME IInv PROVE StopIsClean
  <2> SUFFICES ASSUME main = "stopped" PROVE StopIsClean
    BY DEF StopIsClean
  <2>1. \A w \in Workers : thread[w] # "running"
    BY <1>1 DEF IInv, Phases, Workers, ThreadTypes
  <2>2. \A n \in DOMAIN tasks : \E i \in DOMAIN finished : finished[i] = n
    <3>1. \A w \in Workers : running[w] = Idle /\ queue[w] = <<>>
      BY <1>1, <2>1 DEF IInv, AtRest
    <3>2. \A n \in DOMAIN tasks : n # Idle
      BY <1>1 DEF IInv, TaskTypes, Idle
    <3>3. QED
      BY <1>1, <3>1, <3>2 DEF IInv, NoneLost
  <2>3. free + abandoned = PoolSize
    BY <1>1 DEF IInv, Connections
  <2>4. QED
    BY <2>1, <2>2, <2>3 DEF StopIsClean
<1>2. QED
  BY <1>1, Invariance, PTL

(* Stop() gives a connection back only after the join of its thread. *)
THEOREM PoolConnectionWhileUsed == Spec => []ConnectionWhileUsed
<1>1. ASSUME IInv PROVE ConnectionWhileUsed
  <2>1. ASSUME NEW w \in Workers, thread[w] = "running" PROVE conn[w]
    BY <1>1, <2>1 DEF IInv, Phases, Connections, Workers, ThreadTypes
  <2>2. QED
    BY <2>1 DEF ConnectionWhileUsed
<1>2. QED
  BY <1>1, Invariance, PTL

(* No more tasks are posted than the bound allows. *)
TasksBounded == tasks \in Seq([kind : {"read", "write"}, key : Keys \cup {0}])
                  /\ Len(tasks) <= MaxTasks

LEMMA Bounded == Spec => []TasksBounded
<1>1. Init => TasksBounded
  BY PoolAssumption DEF Init, TasksBounded
<1>2. TasksBounded /\ [Next]_vars => TasksBounded'
  <2> SUFFICES ASSUME TasksBounded, [Next]_vars PROVE TasksBounded'
    OBVIOUS
  <2>1. ASSUME NEW w, NEW task \in [kind : {"read", "write"}, key : Keys \cup {0}],
               Post(w, task)
        PROVE  TasksBounded'
    BY <2>1, PoolAssumption DEF Post, TasksBounded
  <2>2. CASE PostRead
    BY <2>1, <2>2 DEF PostRead
  <2>3. ASSUME NEW key \in Keys, PostWrite(key) PROVE TasksBounded'
    BY <2>1, <2>3 DEF PostWrite
  <2>4. CASE UNCHANGED tasks
    BY <2>4 DEF TasksBounded
  <2>5. QED
    BY <2>2, <2>3, <2>4
       DEF Next, Spawn, SpawnFails, Serve, LeaveTry, Stop, ResetGuard, Join, Unborrow,
           NothingToStop, Thread, BeginTask, EndTask, ThreadExits, taskVars, vars
<1>3. QED
  BY <1>1, <1>2, PTL DEF Spec

LEMMA ElementsDecide ==
    ASSUME NEW S, NEW T, NEW s \in Seq(S), \A i \in DOMAIN s : s[i] \in T
    PROVE  s \in Seq(T)
OBVIOUS

(* Counters, queues and connections stay in their ranges: in particular    *)
(* Stop() never gives the pool more connections than it had.               *)
THEOREM PoolTypes == Spec => []TypeOK
<1>1. ASSUME IInv, TasksBounded PROVE TypeOK
  <2> USE <1>1 DEF IInv
  <2>1. DOMAIN tasks \subseteq 1 .. MaxTasks
    BY PoolAssumption DEF TasksBounded
  <2>2. free \in 0 .. PoolSize
    BY PoolAssumption, WorkersAreThere DEF ThreadTypes, Phases, Connections, Workers
  <2>3. queue \in [Workers -> Seq(1 .. MaxTasks)]
    <3>1. ASSUME NEW w \in Workers PROVE queue[w] \in Seq(1 .. MaxTasks)
      <4>1. queue[w] \in Seq(Nat)
        BY DEF TaskTypes
      <4>2. \A i \in DOMAIN queue[w] : queue[w][i] \in 1 .. MaxTasks
        BY <2>1 DEF Queues
      <4>3. QED
        BY <4>1, <4>2, ElementsDecide
    <3>2. QED
      BY <3>1 DEF TaskTypes
  <2>4. running \in [Workers -> 0 .. MaxTasks]
    <3>1. \A w \in Workers : running[w] = 0 \/ running[w] \in 1 .. MaxTasks
      BY <2>1 DEF Queues, Idle
    <3>2. 0 \in 0 .. MaxTasks /\ 1 .. MaxTasks \subseteq 0 .. MaxTasks
      BY PoolAssumption
    <3>3. QED
      BY <3>1, <3>2 DEF TaskTypes
  <2>5. finished \in Seq(1 .. MaxTasks)
    <3>1. finished \in Seq(Nat)
      BY DEF TaskTypes
    <3>2. \A i \in DOMAIN finished : finished[i] \in 1 .. MaxTasks
      BY <2>1 DEF EndedFirst
    <3>3. QED
      BY <3>1, <3>2, ElementsDecide
  <2>6. QED
    BY <2>2, <2>3, <2>4, <2>5 DEF TypeOK, ThreadTypes, TaskTypes
<1>2. QED
  BY <1>1, Invariance, Bounded, PTL
-----------------------------------------------------------------------------
(* Stop() returns: what can be said of it without fairness.                *)

Stopping == main \notin {"start", "serving"}

(* How many steps the thread of a worker can still take when nothing more  *)
(* is posted to it.                                                        *)
WorkLeft(w) ==
    2 * Len(queue[w]) + (IF running[w] # Idle THEN 1 ELSE 0)
                      + (IF thread[w] = "running" THEN 1 ELSE 0)

(* How many steps Stop() can still take with s workers, of which it turns  *)
(* to the n-th next.                                                       *)
StepsLeft(phase, s, n) ==
    CASE phase = "reset"    -> 3 * s + 2 - n
      [] phase = "join"     -> 2 * s + 2 - n
      [] phase = "unborrow" -> s + 2 - n
      [] OTHER              -> 0
StopLeft == StepsLeft(main, spawned, next)

(* Once main() is in Stop() the work left of no worker grows, and every    *)
(* step of Stop() or of a thread takes from it.                            *)
WorkFalls ==
    Stopping =>
        /\ StopLeft' <= StopLeft
        /\ Stop => StopLeft' < StopLeft
        /\ \A w \in Workers :
              /\ WorkLeft(w)' <= WorkLeft(w)
              /\ Thread(w) => WorkLeft(w)' < WorkLeft(w)
WorkRunsOut == [][WorkFalls]_vars

(* Stop() never waits for nothing: the worker it joins has ended, or has   *)
(* a task to run, or may leave run(), its guard being gone.                *)
StopNeverStuck ==
    /\ main = "join" =>
          \/ Joined(next)
          \/ thread[next] = "running"
                /\ (running[next] # Idle \/ queue[next] # <<>> \/ MayExit(next))
    /\ main \in {"reset", "join", "unborrow"} => StopLeft > 0

LEMMA PhaseSteps ==
    ASSUME NEW s \in Nat, NEW n \in Nat
    PROVE  /\ StepsLeft("reset", s, n) = 3 * s + 2 - n
           /\ StepsLeft("join", s, n) = 2 * s + 2 - n
           /\ StepsLeft("unborrow", s, n) = s + 2 - n
           /\ StepsLeft("stopped", s, n) = 0
           /\ \A phase : StepsLeft(phase, s, n) \in Int
  BY DEF StepsLeft

LEMMA WorkIsNumber ==
    ASSUME ThreadTypes, TaskTypes
    PROVE  /\ spawned \in Nat /\ next \in Nat /\ next >= 1 /\ StopLeft \in Int
           /\ \A w \in Workers : Len(queue[w]) \in Nat /\ WorkLeft(w) \in Int
<1>1. spawned \in Nat /\ next \in Nat /\ next >= 1
  BY WorkersAreThere DEF ThreadTypes, Workers
<1>2. \A w \in Workers : Len(queue[w]) \in Nat
  BY DEF TaskTypes
<1>3. StopLeft \in Int
  BY <1>1, PhaseSteps DEF StopLeft
<1>4. \A w \in Workers : WorkLeft(w) \in Int
  BY <1>2 DEF WorkLeft
<1>5. QED
  BY <1>1, <1>2, <1>3, <1>4

LEMMA StopLowersWork ==
    ASSUME IInv, Stop
    PROVE  StopLeft' < StopLeft /\ \A w \in Workers : WorkLeft(w)' = WorkLeft(w)
<1>1. /\ spawned \in Nat /\ next \in Nat /\ next >= 1
      /\ spawned' = spawned /\ UNCHANGED <<queue, running, thread>>
  BY WorkIsNumber DEF IInv, Stop, ResetGuard, Join, Unborrow, NothingToStop
<1>2. next = 1 \/ next <= spawned
  BY DEF IInv, Phases, Stop, ResetGuard, Join, Unborrow, NothingToStop
<1>3. ASSUME ResetGuard PROVE StopLeft' < StopLeft
  <2>1. main = "reset" /\ spawned > 0
    BY <1>3 DEF ResetGuard
  <2>2. CASE next < spawned
    <3>1. main' = "reset" /\ next' = next + 1
      BY <1>3, <2>1, <2>2 DEF ResetGuard, Advance
    <3>2. QED
      BY <1>1, <2>1, <3>1, PhaseSteps DEF StopLeft
  <2>3. CASE ~(next < spawned)
    <3>1. main' = "join" /\ next' = 1
      BY <1>3, <2>3 DEF ResetGuard, Advance
    <3>2. StopLeft' = 2 * spawned + 1
      BY <1>1, <3>1, PhaseSteps DEF StopLeft
    <3>3. StopLeft = 3 * spawned + 2 - next
      BY <1>1, <2>1, PhaseSteps DEF StopLeft
    <3>4. next <= spawned
      BY <1>1, <1>2, <2>1
    <3>5. QED
      BY <1>1, <3>2, <3>3, <3>4
  <2>4. QED
    BY <2>2, <2>3
<1>4. ASSUME Join PROVE StopLeft' < StopLeft
  <2>1. main = "join" /\ spawned > 0
    BY <1>4 DEF Join, IInv, Phases
  <2>2. CASE next < spawned
    <3>1. main' = "join" /\ next' = next + 1
      BY <1>4, <2>1, <2>2 DEF Join, Advance
    <3>2. QED
      BY <1>1, <2>1, <3>1, PhaseSteps DEF StopLeft
  <2>3. CASE ~(next < spawned)
    <3>1. main' = "unborrow" /\ next' = 1
      BY <1>4, <2>3 DEF Join, Advance
    <3>2. StopLeft' = spawned + 1
      BY <1>1, <3>1, PhaseSteps DEF StopLeft
    <3>3. StopLeft = 2 * spawned + 2 - next
      BY <1>1, <2>1, PhaseSteps DEF StopLeft
    <3>4. next <= spawned
      BY <1>1, <1>2, <2>1
    <3>5. QED
      BY <1>1, <3>2, <3>3, <3>4
  <2>4. QED
    BY <2>2, <2>3
<1>5. ASSUME Unborrow PROVE StopLeft' < StopLeft
  <2>1. main = "unborrow" /\ spawned > 0
    BY <1>5 DEF Unborrow, IInv, Phases
  <2>2. CASE next < spawned
    <3>1. main' = "unborrow" /\ next' = next + 1
      BY <1>5, <2>1, <2>2 DEF Unborrow, Advance
    <3>2. QED
      BY <1>1, <2>1, <3>1, PhaseSteps DEF StopLeft
  <2>3. CASE ~(next < spawned)
    <3>1. main' = "stopped" /\ next' = 1
      BY <1>5, <2>3 DEF Unborrow, Advance
    <3>2. StopLeft' = 0
      BY <1>1, <3>1, PhaseSteps DEF StopLeft
    <3>3. StopLeft = spawned + 2 - next
      BY <1>1, <2>1, PhaseSteps DEF StopLeft
    <3>4. next <= spawned
      BY <1>1, <1>2, <2>1
    <3>5. QED
      BY <1>1, <3>2, <3>3, <3>4
  <2>4. QED
    BY <2>2, <2>3
<1>6. ASSUME NothingToStop PROVE StopLeft' < StopLeft
  <2>1. main = "reset" /\ main' = "stopped" /\ spawned = 0 /\ next = 1
    BY <1>1, <1>2, <1>6 DEF NothingToStop
  <2>2. StopLeft' = 0
    BY <2>1 DEF StopLeft, StepsLeft
  <2>3. StopLeft = 1
    BY <1>1, <2>1, PhaseSteps DEF StopLeft
  <2>4. QED
    BY <2>2, <2>3
<1>7. \A w \in Workers : WorkLeft(w)' = WorkLeft(w)
  BY <1>1 DEF WorkLeft
<1>8. QED
  BY <1>3, <1>4, <1>5, <1>6, <1>7 DEF Stop

LEMMA ThreadLowersWork ==
    ASSUME IInv, NEW w \in Workers, Thread(w)
    PROVE  /\ WorkLeft(w)' < WorkLeft(w) /\ StopLeft' = StopLeft
           /\ \A v \in Workers : v # w => WorkLeft(v)' = WorkLeft(v)
<1>1. /\ \A v \in Workers : queue[v] \in Seq(Nat) /\ Len(queue[v]) \in Nat
      /\ DOMAIN queue = Workers /\ DOMAIN running = Workers /\ DOMAIN thread = Workers
  BY DEF IInv, TaskTypes, ThreadTypes
<1>2. StopLeft' = StopLeft
  BY DEF StopLeft, Thread, BeginTask, EndTask, ThreadExits, mainVars
<1>3. CASE BeginTask(w)
  <2>1. /\ running[w] = Idle /\ running'[w] = Head(queue[w])
        /\ queue[w] # <<>> /\ queue'[w] = Tail(queue[w]) /\ thread' = thread
        /\ \A v \in Workers : v # w => running'[v] = running[v] /\ queue'[v] = queue[v]
    BY <1>1, <1>3 DEF BeginTask
  <2>2. Len(queue'[w]) = Len(queue[w]) - 1
    BY <1>1, <2>1
  <2>3. WorkLeft(w)' < WorkLeft(w)
    BY <1>1, <2>1, <2>2 DEF WorkLeft
  <2>4. \A v \in Workers : v # w => WorkLeft(v)' = WorkLeft(v)
    BY <2>1 DEF WorkLeft
  <2>5. QED
    BY <1>2, <2>3, <2>4
<1>4. CASE EndTask(w)
  <2>1. /\ running[w] # Idle /\ running'[w] = Idle /\ UNCHANGED <<queue, thread>>
        /\ \A v \in Workers : v # w => running'[v] = running[v]
    BY <1>1, <1>4 DEF EndTask
  <2>2. WorkLeft(w)' < WorkLeft(w)
    BY <1>1, <2>1 DEF WorkLeft
  <2>3. \A v \in Workers : v # w => WorkLeft(v)' = WorkLeft(v)
    BY <2>1 DEF WorkLeft
  <2>4. QED
    BY <1>2, <2>2, <2>3
<1>5. CASE ThreadExits(w)
  <2>1. /\ thread[w] = "running" /\ thread'[w] = "done" /\ UNCHANGED <<queue, running>>
        /\ \A v \in Workers : v # w => thread'[v] = thread[v]
    BY <1>1, <1>5 DEF ThreadExits
  <2>2. WorkLeft(w)' < WorkLeft(w)
    BY <1>1, <2>1 DEF WorkLeft
  <2>3. \A v \in Workers : v # w => WorkLeft(v)' = WorkLeft(v)
    BY <2>1 DEF WorkLeft
  <2>4. QED
    BY <1>2, <2>2, <2>3
<1>6. QED
  BY <1>3, <1>4, <1>5 DEF Thread

(* Stop() lets what is queued run, then ends, and never waits for a worker *)
(* that has nothing to wait for: each of its steps and of the threads'     *)
(* takes from a number nothing raises any more, and the worker it joins    *)
(* can always go on, because every guard was dropped first (Stop,          *)
(* AuctionWorkerPool.cpp:41-66).  That each goes on, fairness must say.    *)
THEOREM PoolStopRunsOut == Spec => WorkRunsOut /\ []StopNeverStuck
<1>1. IInv => StopNeverStuck
  <2> SUFFICES ASSUME IInv PROVE StopNeverStuck
    OBVIOUS
  <2>1. spawned \in Nat /\ next \in Nat
    BY WorkIsNumber DEF IInv
  <2>2. ASSUME main = "join"
        PROVE  \/ Joined(next)
               \/ thread[next] = "running"
                     /\ (running[next] # Idle \/ queue[next] # <<>> \/ MayExit(next))
    <3>1. next \in Workers /\ next <= spawned
      BY <2>1, <2>2 DEF IInv, ThreadTypes, Phases
    <3>2. thread[next] \in {"running", "done"} /\ ~guard[next]
      BY <2>1, <2>2, <3>1 DEF IInv, ThreadTypes, Phases
    <3>3. QED
      BY <3>2 DEF Joined, MayExit
  <2>3. ASSUME main \in {"reset", "join", "unborrow"} PROVE StopLeft > 0
    <3>1. (next = 1 \/ next <= spawned) /\ (main \in {"join", "unborrow"} => spawned > 0)
      BY <2>3 DEF IInv, Phases
    <3>2. /\ main = "reset" => StopLeft = 3 * spawned + 2 - next
          /\ main = "join" => StopLeft = 2 * spawned + 2 - next
          /\ main = "unborrow" => StopLeft = spawned + 2 - next
      BY <2>1, PhaseSteps DEF StopLeft
    <3>3. QED
      BY <2>1, <2>3, <3>1, <3>2
  <2>4. QED
    BY <2>2, <2>3 DEF StopNeverStuck
<1>2. IInv /\ [Next]_vars => [WorkFalls]_vars
  <2> SUFFICES ASSUME IInv, [Next]_vars, Stopping
               PROVE  /\ StopLeft' <= StopLeft
                      /\ Stop => StopLeft' < StopLeft
                      /\ \A w \in Workers :
                            /\ WorkLeft(w)' <= WorkLeft(w)
                            /\ Thread(w) => WorkLeft(w)' < WorkLeft(w)
    BY DEF WorkFalls
  <2>1. StopLeft \in Int /\ \A w \in Workers : WorkLeft(w) \in Int
    BY WorkIsNumber DEF IInv
  <2>2. Stop \/ (\E w \in Workers : Thread(w)) \/ UNCHANGED vars
    BY DEF Next, Stopping, Spawn, SpawnFails, Serve, LeaveTry, PostRead, PostWrite, Post
  <2>3. Stop => StopLeft' < StopLeft
    BY StopLowersWork
  <2>4. \A w \in Workers : Thread(w) => WorkLeft(w)' < WorkLeft(w)
    BY ThreadLowersWork
  <2>5. CASE Stop
    <3>1. StopLeft' < StopLeft /\ \A w \in Workers : WorkLeft(w)' = WorkLeft(w)
      BY <2>5, StopLowersWork
    <3>2. StopLeft' \in Int
      <4>1. IInv'
        BY StepInv
      <4>2. spawned' \in Nat /\ next' \in Nat
        BY <4>1, WorkersAreThere DEF IInv, ThreadTypes, Workers
      <4>3. QED
        BY <4>2, PhaseSteps DEF StopLeft
    <3>3. QED
      BY <2>1, <2>4, <3>1, <3>2
  <2>6. ASSUME NEW w \in Workers, Thread(w)
        PROVE  StopLeft' = StopLeft /\ \A v \in Workers : WorkLeft(v)' <= WorkLeft(v)
    <3>1. /\ WorkLeft(w)' < WorkLeft(w) /\ StopLeft' = StopLeft
          /\ \A v \in Workers : v # w => WorkLeft(v)' = WorkLeft(v)
      BY <2>6, ThreadLowersWork
    <3>2. WorkLeft(w)' \in Int
      <4>1. IInv'
        BY StepInv
      <4>2. queue'[w] \in Seq(Nat)
        BY <4>1 DEF IInv, TaskTypes
      <4>3. QED
        BY <4>2 DEF WorkLeft
    <3>3. QED
      BY <2>1, <3>1, <3>2
  <2>7. CASE UNCHANGED vars
    <3>1. StopLeft' = StopLeft /\ \A w \in Workers : WorkLeft(w)' = WorkLeft(w)
      BY <2>7 DEF vars, StopLeft, WorkLeft
    <3>2. QED
      BY <2>1, <2>3, <2>4, <3>1
  <2>8. QED
    BY <2>1, <2>2, <2>3, <2>4, <2>5, <2>6, <2>7
<1>3. QED
  BY <1>1, <1>2, Invariance, PTL DEF Spec, WorkRunsOut
=============================================================================
