----------------------------- MODULE ThreadPool -----------------------------
(***************************************************************************)
(* The thread pool (src/common/threadpool.c): workers that fetch tasks     *)
(* from the job queue, futures shared by a task's worker and the client    *)
(* that applied it, and the end of the pool.  A step is a section under    *)
(* the queue's or the future's mutex.  Each client applies one task, then  *)
(* gets and destroys its future as the header allows; the pool is joined   *)
(* when no more tasks are applied.  __FUTURE_CANCELLED is never set and    *)
(* __FUTURE_TIMEOUT is never read.                                         *)
(***************************************************************************)
EXTENDS Sequences, Integers, FiniteSets

CONSTANTS
    Tasks,          \* each stands for its future and its client, too
    Workers,
    NULL            \* no task, and the task without a function

ASSUME NullAssumption == NULL \notin Tasks

\* Its only user makes a pool of 32 workers (net.c:74).
ASSUME WorkersAssumption == IsFiniteSet(Workers) /\ Workers # {}

VARIABLES
    queue,      \* the job queue, tail (the oldest) first
    tailLinked, \* the next of tail was written: tpool_apply leaves it alone
                \* in the task it puts into an empty queue
    flags,      \* future -> its flag bits
    alive,      \* the futures that are allocated
    client,     \* task -> where its client is
    worker,     \* worker -> where it is, and its task
    joining,    \* tpool_join: "no", "push", "wait", "joined"
    pushed,     \* the tasks without a function tpool_join has applied
    corrupt     \* an uninitialized next was followed

vars == <<queue, tailLinked, flags, alive, client, worker, joining, pushed, corrupt>>

Flag == {"RUNNING", "FINISHED", "DESTROYED"}

TypeOK ==
    /\ queue \in Seq(Tasks \cup {NULL})
    /\ flags \in [Tasks -> SUBSET Flag]
    /\ alive \subseteq Tasks
    /\ client \in [Tasks -> {"new", "holds", "get", "timedGet", "expired", "lateGet",
                             "woken", "done", "gaveUp"}]
    /\ worker \in [Workers -> [at : {"fetch", "start", "run", "exited"}, task : Tasks \cup {NULL}]]
    /\ joining \in {"no", "push", "wait", "joined"}
    /\ pushed \in 0..Cardinality(Workers)
    /\ tailLinked \in BOOLEAN /\ corrupt \in BOOLEAN

\* tpool_create
Init ==
    /\ queue = <<>> /\ tailLinked = FALSE
    /\ flags = [k \in Tasks |-> {}]
    /\ alive = {}
    /\ client = [k \in Tasks |-> "new"]
    /\ worker = [w \in Workers |-> [at |-> "fetch", task |-> NULL]]
    /\ joining = "no" /\ pushed = 0
    /\ corrupt = FALSE

InQueue(k) == \E i \in 1..Len(queue) : queue[i] = k
AtWorker(k) == \E w \in Workers : worker[w].task = k
ClientAt(k, from, to) == client[k] = from /\ client' = [client EXCEPT ![k] = to]

\* tpool_apply: the new head of the queue.
Push(k) ==
    /\ queue' = Append(queue, k)
    /\ tailLinked' = (tailLinked /\ queue # <<>>)

Apply(k) ==
    /\ joining = "no"
    /\ ClientAt(k, "new", "holds")
    /\ alive' = alive \cup {k}
    /\ Push(k)
    /\ UNCHANGED <<flags, worker, joining, pushed, corrupt>>

-----------------------------------------------------------------------------
(* jobqueue_fetch *)

\* Mutant: head and tail are mixed up.
FetchNewest(w) ==
    /\ worker[w].at = "fetch" /\ queue # <<>>
    /\ queue' = SubSeq(queue, 1, Len(queue) - 1)
    /\ tailLinked' = TRUE
    /\ LET k == queue[Len(queue)] IN
        worker' = [worker EXCEPT ![w] = [at |-> IF k = NULL THEN "exited" ELSE "start",
                                         task |-> k]]
    /\ UNCHANGED <<flags, alive, client, joining, pushed, corrupt>>

\* The tail is taken, and the next of the new tail becomes NULL.  A task
\* without a function ends the worker, which frees that task's future.
Fetch(w) ==
    /\ worker[w].at = "fetch" /\ queue # <<>>
    /\ queue' = Tail(queue)
    /\ tailLinked' = TRUE
    /\ worker' = [worker EXCEPT ![w] =
          [at |-> IF Head(queue) = NULL THEN "exited" ELSE "start", task |-> Head(queue)]]
    /\ UNCHANGED <<flags, alive, client, joining, pushed, corrupt>>

\* Mutant: the flag is assigned, and a DESTROYED bit is lost.
MarkOnlyRunning(w) ==
    /\ worker[w].at = "start"
    /\ worker' = [worker EXCEPT ![w].at = "run"]
    /\ flags' = [flags EXCEPT ![worker[w].task] = {"RUNNING"}]
    /\ UNCHANGED <<queue, tailLinked, alive, client, joining, pushed, corrupt>>

MarkRunning(w) ==
    /\ worker[w].at = "start"
    /\ worker' = [worker EXCEPT ![w].at = "run"]
    /\ flags' = [flags EXCEPT ![worker[w].task] = @ \cup {"RUNNING"}]
    /\ UNCHANGED <<queue, tailLinked, alive, client, joining, pushed, corrupt>>

\* Whom pthread_cond_broadcast on a future wakes: a client whose wait timed
\* out no longer listens.
Woken(k) ==
    IF client[k] \in {"get", "timedGet", "lateGet"} THEN [client EXCEPT ![k] = "woken"]
    ELSE client

\* Mutant: pthread_cond_broadcast is forgotten.
FinishSilently(w) ==
    /\ worker[w].at = "run"
    /\ worker' = [worker EXCEPT ![w] = [at |-> "fetch", task |-> NULL]]
    /\ LET k == worker[w].task IN
        \/ "DESTROYED" \in flags[k] /\ alive' = alive \ {k} /\ UNCHANGED flags
        \/ /\ "DESTROYED" \notin flags[k]
           /\ flags' = [flags EXCEPT ![k] = @ \cup {"FINISHED"}]
           /\ UNCHANGED alive
    /\ UNCHANGED <<queue, tailLinked, client, joining, pushed, corrupt>>

\* The function has returned: the worker frees a future its client has
\* destroyed, or finishes it and wakes the client.
Finish(w) ==
    /\ worker[w].at = "run"
    /\ worker' = [worker EXCEPT ![w] = [at |-> "fetch", task |-> NULL]]
    /\ LET k == worker[w].task IN
        \/ /\ "DESTROYED" \in flags[k]
           /\ alive' = alive \ {k}
           /\ UNCHANGED <<flags, client>>
        \/ /\ "DESTROYED" \notin flags[k]
           /\ flags' = [flags EXCEPT ![k] = @ \cup {"FINISHED"}]
           /\ client' = Woken(k)
           /\ UNCHANGED alive
    /\ UNCHANGED <<queue, tailLinked, joining, pushed, corrupt>>

-----------------------------------------------------------------------------
(* tpool_future_get and tpool_future_destroy *)

\* A get of a finished future returns at once and changes nothing.
Get(k) ==
    /\ "FINISHED" \notin flags[k]
    /\ ClientAt(k, "holds", "get") \/ ClientAt(k, "holds", "timedGet")
    /\ UNCHANGED <<queue, tailLinked, flags, alive, worker, joining, pushed, corrupt>>

GetReturn(k) ==
    /\ ClientAt(k, "woken", "holds")
    /\ UNCHANGED <<queue, tailLinked, flags, alive, worker, joining, pushed, corrupt>>

\* The time is over; the client still has to get the mutex back.
Expire(k) ==
    /\ ClientAt(k, "timedGet", "expired")
    /\ UNCHANGED <<queue, tailLinked, flags, alive, worker, joining, pushed, corrupt>>

\* A task that runs is waited for: FINISHED is not looked at again before the wait.
\* So is one that was fetched and is not marked RUNNING yet, after a walk through the
\* whole queue for it, which follows the next of the tail, whatever that holds.
WalksOff(k) == "RUNNING" \notin flags[k] /\ queue # <<>> /\ ~tailLinked

ExpiredLate(k) ==
    /\ "RUNNING" \in flags[k] \/ ~InQueue(k)
    /\ ClientAt(k, "expired", "lateGet")
    /\ corrupt' \in {FALSE, WalksOff(k)}
    /\ UNCHANGED <<queue, tailLinked, flags, alive, worker, joining, pushed>>

\* The queue without its task at i.
Without(i) == SubSeq(queue, 1, i - 1) \o SubSeq(queue, i + 1, Len(queue))

\* A task still in the queue is removed, freed with its future, and NULL is
\* returned.  Removing the tail follows its next, whatever that holds.
ExpiredWithdraw(k) ==
    /\ "RUNNING" \notin flags[k]
    /\ ClientAt(k, "expired", "gaveUp")
    /\ alive' = alive \ {k}
    /\ \E i \in 1..Len(queue) :
        /\ queue[i] = k
        /\ queue' = Without(i)
        /\ tailLinked' = (tailLinked \/ i = 1)
        /\ corrupt' \in {FALSE, i = 1 /\ ~tailLinked}
    /\ UNCHANGED <<flags, worker, joining, pushed>>

\* pthread_cond_wait may return for no reason; the loop tests FINISHED.
SpuriousWakeup(k) ==
    /\ \/ "FINISHED" \in flags[k] /\ ClientAt(k, "lateGet", "holds")
       \/ "FINISHED" \notin flags[k] /\ ClientAt(k, "lateGet", "timedGet")
    /\ UNCHANGED <<queue, tailLinked, flags, alive, worker, joining, pushed, corrupt>>

Destroy(k) ==
    /\ ClientAt(k, "holds", "done")
    /\ \/ "FINISHED" \in flags[k] /\ alive' = alive \ {k} /\ UNCHANGED flags
       \/ /\ "FINISHED" \notin flags[k]
          /\ flags' = [flags EXCEPT ![k] = @ \cup {"DESTROYED"}]
          /\ UNCHANGED alive
    /\ UNCHANGED <<queue, tailLinked, worker, joining, pushed, corrupt>>

-----------------------------------------------------------------------------
(* tpool_join *)

JoinBegin ==
    /\ joining = "no"
    /\ \A k \in Tasks : client[k] # "new"
    /\ joining' = "push"
    /\ UNCHANGED <<queue, tailLinked, flags, alive, client, worker, pushed, corrupt>>

\* Mutant: i <= num_threads.
JoinPushOneMore ==
    /\ joining = "push"
    /\ Push(NULL)
    /\ pushed' = pushed + 1
    /\ joining' = IF pushed' > Cardinality(Workers) THEN "wait" ELSE "push"
    /\ UNCHANGED <<flags, alive, client, worker, corrupt>>

\* One task without a function for each worker ...
JoinPush ==
    /\ joining = "push"
    /\ Push(NULL)
    /\ pushed' = pushed + 1
    /\ joining' = IF pushed' = Cardinality(Workers) THEN "wait" ELSE "push"
    /\ UNCHANGED <<flags, alive, client, worker, corrupt>>

\* Mutant: the workers are not waited for.
JoinAtOnce ==
    /\ joining = "wait"
    /\ joining' = "joined"
    /\ UNCHANGED <<queue, tailLinked, flags, alive, client, worker, pushed, corrupt>>

\* ... and when all of them have ended, the queue is destroyed.
JoinReturn ==
    /\ joining = "wait"
    /\ \A w \in Workers : worker[w].at = "exited"
    /\ joining' = "joined"
    /\ UNCHANGED <<queue, tailLinked, flags, alive, client, worker, pushed, corrupt>>

-----------------------------------------------------------------------------
Work(w) == Fetch(w) \/ MarkRunning(w) \/ Finish(w)
Answer(k) == GetReturn(k) \/ Expire(k) \/ ExpiredLate(k) \/ ExpiredWithdraw(k)
Join == JoinPush \/ JoinReturn

\* Nothing is said of what follows a use of an uninitialized pointer.
Next ==
    /\ ~corrupt
    /\ \/ \E k \in Tasks : Apply(k) \/ Get(k) \/ Answer(k) \/ SpuriousWakeup(k) \/ Destroy(k)
       \/ \E w \in Workers : Work(w)
       \/ JoinBegin \/ Join

Spec == Init /\ [][Next]_vars

\* Workers are threads that run, functions return, time passes.
FairSpec ==
    /\ Spec
    /\ \A w \in Workers : WF_vars(~corrupt /\ Work(w))
    /\ \A k \in Tasks : WF_vars(~corrupt /\ Answer(k))
    /\ WF_vars(~corrupt /\ Join)

-----------------------------------------------------------------------------
\* The client and the worker agree on who frees a future: it is allocated as
\* long as one of them can still use it, and freed when neither can.
FutureAliveWhileUsed ==
    \A k \in Tasks : k \in alive <=>
        client[k] \notin {"new", "done", "gaveUp"} \/ InQueue(k) \/ AtWorker(k)

\* When the pool is joined, all tasks have run ("Wait for all pending tasks to
\* complete", threadpool.h:30), and no thread comes back to the freed queue:
\* not even a get whose time expires, as its task is marked RUNNING.
JoinedIsOver ==
    joining = "joined" =>
        /\ queue = <<>>
        /\ \A k \in Tasks :
            /\ ~AtWorker(k)
            /\ client[k] \in {"timedGet", "expired"} => "RUNNING" \in flags[k]

\* The pool is a TaskPool.
status == [k \in Tasks |->
    CASE client[k] = "new" -> "new"
      [] client[k] = "gaveUp" -> "withdrawn"
      [] client[k] \notin {"new", "gaveUp"} /\ InQueue(k) -> "pending"
      [] client[k] \notin {"new", "gaveUp"} /\ ~InQueue(k) /\ AtWorker(k) -> "running"
      [] OTHER -> "done"]

\* What waits is the queue without the tasks of tpool_join, the last in it.
Exited == {w \in Workers : worker[w].at = "exited"}
Unfetched == pushed - Cardinality(Exited)

Pool == INSTANCE TaskPool WITH pending <- SubSeq(queue, 1, Len(queue) - Unfetched)

\* Tasks start in the order they were applied in, run once, and are withdrawn
\* only by a get that timed out before they started.
ImplementsTaskPool == Pool!Init /\ [][Pool!Next]_(Pool!vars)

\* "Return the result when it becomes available" (threadpool.h:35): every get and
\* tpool_join come back.  A get whose time was over may not, although it should
\* (threadpool.h:36): it waits once more for a task that was fetched, without
\* looking at FINISHED, and misses an end that came between the time-out and
\* that wait.
Missed(k) == client[k] = "lateGet" /\ "FINISHED" \in flags[k]

CallersComeBack ==
    /\ \A k \in Tasks : client[k] \in {"get", "timedGet"} ~>
                           client[k] \in {"holds", "done", "gaveUp"} \/ Missed(k) \/ corrupt
    /\ joining = "push" ~> joining = "joined" \/ corrupt
=============================================================================
