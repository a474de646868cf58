-------------------------- MODULE ThreadPoolProofs --------------------------
(***************************************************************************)
(* Theorems about the thread pool, for every set of tasks and every finite *)
(* set of workers.                                                         *)
(***************************************************************************)
EXTENDS ThreadPool, FiniteSetTheorems, TLAPS

\* A sequence of tasks holds k, a task at most once, a worker of ws has k.
Holds(s, k) == \E i \in 1..Len(s) : s[i] = k
Once(s) == \A i, j \in 1..Len(s) : s[i] = s[j] /\ s[i] # NULL => i = j
Runs(ws, k) == \E w \in Workers : ws[w].task = k

\* A task is in the queue once, or at one worker, or at neither.
EachOnce(s, ws) ==
    /\ Once(s)
    /\ \A v, w \in Workers : ws[v].task = ws[w].task /\ ws[v].task # NULL => v = w
    /\ \A k \in Tasks : ~(Holds(s, k) /\ Runs(ws, k))
    /\ \A w \in Workers : ws[w].at \in {"start", "run"} <=> ws[w].task # NULL

OnePlace == EachOnce(queue, worker)

\* What the flags of a future say of its task and of its client.
FlagsTell ==
    /\ \A k \in Tasks :
        /\ client[k] = "new" => k \notin alive /\ flags[k] = {}
        /\ client[k] \in {"new", "gaveUp"} => ~InQueue(k) /\ ~AtWorker(k)
        /\ "RUNNING" \in flags[k] => ~InQueue(k)
        /\ "FINISHED" \in flags[k] => "RUNNING" \in flags[k] /\ ~AtWorker(k)
        /\ "FINISHED" \notin flags[k] /\ client[k] \notin {"new", "done", "gaveUp"} =>
              InQueue(k) \/ AtWorker(k)
        /\ "DESTROYED" \in flags[k] => client[k] = "done"
        /\ client[k] = "done" /\ (InQueue(k) \/ AtWorker(k)) => "DESTROYED" \in flags[k]
    /\ \A w \in Workers : worker[w].at = "run" => "RUNNING" \in flags[worker[w].task]

\* The tasks of tpool_join are the last of the queue, one for each worker that
\* has not ended; when the first worker ends, the queue holds no other.
EndsIn(s, n) ==
    /\ n \in 0..Len(s)
    /\ \A i \in 1..Len(s) : s[i] = NULL <=> i > Len(s) - n

LastTasks ==
    /\ EndsIn(queue, Unfetched)
    /\ Exited # {} => Unfetched = Len(queue)
    /\ joining = "no" => pushed = 0
    /\ joining = "push" => pushed < Cardinality(Workers)
    /\ joining \in {"wait", "joined"} => pushed = Cardinality(Workers)
    /\ joining = "joined" => Exited = Workers
    /\ joining # "no" => \A k \in Tasks : client[k] # "new"

PoolInv == TypeOK /\ OnePlace /\ LastTasks /\ FlagsTell /\ FutureAliveWhileUsed

-----------------------------------------------------------------------------
(* What a queue holds *)

Remove(s, i) == SubSeq(s, 1, i - 1) \o SubSeq(s, i + 1, Len(s))

LEMMA AppendHolds ==
    ASSUME NEW S, NEW s \in Seq(S), NEW e \in S
    PROVE  /\ Append(s, e) \in Seq(S) /\ Len(Append(s, e)) = Len(s) + 1
           /\ \A i \in 1..Len(s) : Append(s, e)[i] = s[i]
           /\ Append(s, e)[Len(s) + 1] = e
           /\ \A k : Holds(Append(s, e), k) <=> Holds(s, k) \/ k = e
           /\ Once(s) /\ (~Holds(s, e) \/ e = NULL) => Once(Append(s, e))
<1>1. /\ Append(s, e) \in Seq(S) /\ Len(Append(s, e)) = Len(s) + 1 /\ Len(s) \in Nat
      /\ \A i \in 1..Len(s) : Append(s, e)[i] = s[i]
      /\ Append(s, e)[Len(s) + 1] = e
  OBVIOUS
<1>2. ASSUME NEW k PROVE Holds(Append(s, e), k) <=> Holds(s, k) \/ k = e
  <2>1. 1..Len(Append(s, e)) = 1..Len(s) \cup {Len(s) + 1}
    BY <1>1
  <2> QED
    BY <1>1, <2>1 DEF Holds
<1>3. ASSUME Once(s), ~Holds(s, e) \/ e = NULL PROVE Once(Append(s, e))
  BY <1>1, <1>3 DEF Once, Holds
<1> QED
  BY <1>1, <1>2, <1>3

LEMMA TailHolds ==
    ASSUME NEW S, NEW s \in Seq(S), s # <<>>
    PROVE  /\ Tail(s) \in Seq(S) /\ Len(Tail(s)) = Len(s) - 1 /\ Len(s) >= 1
           /\ \A i \in 1..(Len(s) - 1) : Tail(s)[i] = s[i + 1]
           /\ Head(s) \in S /\ Head(s) = s[1] /\ Holds(s, Head(s))
           /\ \A k : k # Head(s) => (Holds(Tail(s), k) <=> Holds(s, k))
           /\ Once(s) => Once(Tail(s)) /\ (Head(s) # NULL => ~Holds(Tail(s), Head(s)))
<1>1. /\ Tail(s) \in Seq(S) /\ Len(Tail(s)) = Len(s) - 1 /\ Len(s) \in Nat /\ Len(s) >= 1
      /\ \A i \in 1..(Len(s) - 1) : Tail(s)[i] = s[i + 1]
      /\ Head(s) \in S /\ Head(s) = s[1]
  OBVIOUS
<1>2. Holds(s, Head(s))
  BY <1>1 DEF Holds
<1>3. ASSUME NEW k, k # Head(s) PROVE Holds(Tail(s), k) <=> Holds(s, k)
  <2>1. ASSUME NEW i \in 1..Len(s), s[i] = k PROVE Holds(Tail(s), k)
    <3>1. i - 1 \in 1..(Len(s) - 1) /\ Tail(s)[i - 1] = k
      BY <1>1, <1>3, <2>1
    <3> QED
      BY <1>1, <3>1 DEF Holds
  <2>2. ASSUME NEW i \in 1..(Len(s) - 1), Tail(s)[i] = k PROVE Holds(s, k)
    <3>1. i + 1 \in 1..Len(s) /\ s[i + 1] = k
      BY <1>1, <2>2
    <3> QED
      BY <3>1 DEF Holds
  <2> QED
    BY <1>1, <2>1, <2>2 DEF Holds
<1>4. ASSUME Once(s) PROVE Once(Tail(s)) /\ (Head(s) # NULL => ~Holds(Tail(s), Head(s)))
  BY <1>1, <1>4 DEF Once, Holds
<1> QED
  BY <1>1, <1>2, <1>3, <1>4

LEMMA RemoveHolds ==
    ASSUME NEW S, NEW s \in Seq(S), NEW i \in 1..Len(s)
    PROVE  /\ Remove(s, i) \in Seq(S) /\ Len(Remove(s, i)) = Len(s) - 1
           /\ \A j \in 1..(Len(s) - 1) : Remove(s, i)[j] = IF j < i THEN s[j] ELSE s[j + 1]
           /\ \A k : k # s[i] => (Holds(Remove(s, i), k) <=> Holds(s, k))
           /\ Once(s) => Once(Remove(s, i)) /\ (s[i] # NULL => ~Holds(Remove(s, i), s[i]))
<1>1. Len(s) \in Nat /\ i \in Int /\ i - 1 \in Nat
  OBVIOUS
<1>2. /\ SubSeq(s, 1, i - 1) \in Seq(S) /\ Len(SubSeq(s, 1, i - 1)) = i - 1
      /\ \A j \in 1..(i - 1) : SubSeq(s, 1, i - 1)[j] = s[j]
  BY <1>1
<1>3. /\ SubSeq(s, i + 1, Len(s)) \in Seq(S) /\ Len(SubSeq(s, i + 1, Len(s))) = Len(s) - i
      /\ \A j \in 1..(Len(s) - i) : SubSeq(s, i + 1, Len(s))[j] = s[j + i]
  BY <1>1
<1>4. /\ Remove(s, i) \in Seq(S) /\ Len(Remove(s, i)) = Len(s) - 1
      /\ \A j \in 1..(Len(s) - 1) : Remove(s, i)[j] = IF j < i THEN s[j] ELSE s[j + 1]
  <2>1. PICK a \in Seq(S), b \in Seq(S) :
            a = SubSeq(s, 1, i - 1) /\ b = SubSeq(s, i + 1, Len(s))
    BY <1>2, <1>3
  <2>2. /\ a \o b \in Seq(S) /\ Len(a \o b) = Len(a) + Len(b)
        /\ \A j \in 1..(Len(a) + Len(b)) :
              (a \o b)[j] = IF j <= Len(a) THEN a[j] ELSE b[j - Len(a)]
    OBVIOUS
  <2>3. /\ Remove(s, i) = a \o b /\ Len(a) = i - 1 /\ Len(b) = Len(s) - i
        /\ \A j \in 1..(i - 1) : a[j] = s[j]
        /\ \A j \in 1..(Len(s) - i) : b[j] = s[j + i]
    BY <1>2, <1>3, <2>1 DEF Remove
  <2>4. ASSUME NEW j \in 1..(Len(s) - 1)
        PROVE  (a \o b)[j] = IF j < i THEN s[j] ELSE s[j + 1]
    <3>1. CASE j < i
      BY <1>1, <2>2, <2>3, <3>1
    <3>2. CASE j >= i
      <4>1. j - (i - 1) \in 1..(Len(s) - i) /\ ~(j <= Len(a)) /\ (j - (i - 1)) + i = j + 1
        BY <1>1, <2>3, <3>2
      <4>2. (a \o b)[j] = b[j - (i - 1)]
        BY <1>1, <2>2, <2>3, <4>1
      <4> QED
        BY <2>3, <3>2, <4>1, <4>2
    <3>3. j < i \/ j >= i
      BY <1>1
    <3> QED
      BY <3>1, <3>2, <3>3
  <2> QED
    BY <1>1, <2>2, <2>3, <2>4
<1>5. ASSUME NEW k, k # s[i] PROVE Holds(Remove(s, i), k) <=> Holds(s, k)
  <2>1. ASSUME NEW j \in 1..Len(s), s[j] = k PROVE Holds(Remove(s, i), k)
    <3>1. CASE j < i
      BY <1>1, <1>4, <2>1, <3>1 DEF Holds
    <3>2. CASE j > i
      <4>1. j - 1 \in 1..(Len(s) - 1) /\ Remove(s, i)[j - 1] = k
        BY <1>1, <1>4, <2>1, <3>2
      <4> QED
        BY <1>4, <4>1 DEF Holds
    <3> QED
      BY <1>1, <1>5, <2>1, <3>1, <3>2
  <2>2. ASSUME NEW j \in 1..(Len(s) - 1), Remove(s, i)[j] = k PROVE Holds(s, k)
    <3>1. j \in 1..Len(s) /\ j + 1 \in 1..Len(s)
      BY <1>1
    <3> QED
      BY <1>4, <2>2, <3>1 DEF Holds
  <2> QED
    BY <1>4, <2>1, <2>2 DEF Holds
<1>6. ASSUME Once(s) PROVE Once(Remove(s, i)) /\ (s[i] # NULL => ~Holds(Remove(s, i), s[i]))
  <2>1. PICK r \in Seq(S) :
           /\ r = Remove(s, i) /\ Len(r) = Len(s) - 1
           /\ \A j \in 1..(Len(s) - 1) : r[j] = IF j < i THEN s[j] ELSE s[j + 1]
    BY <1>4
  <2>2. \A j \in 1..(Len(s) - 1) : \E m \in 1..Len(s) : m = (IF j < i THEN j ELSE j + 1) /\ m # i /\ r[j] = s[m]
    BY <1>1, <2>1
  <2>3. Once(r)
    BY <1>1, <1>6, <2>1, <2>2 DEF Once
  <2>4. s[i] # NULL => ~Holds(r, s[i])
    BY <1>6, <2>1, <2>2 DEF Once, Holds
  <2> QED
    BY <2>1, <2>3, <2>4
<1> QED
  BY <1>4, <1>5, <1>6

-----------------------------------------------------------------------------
(* Where the tasks are, before and after a step *)

LEMMA Places ==
    /\ \A k : InQueue(k) <=> Holds(queue, k)
    /\ \A k : AtWorker(k) <=> Runs(worker, k)
  BY DEF InQueue, AtWorker, Holds, Runs

\* A worker has the oldest task, and no other place has it any more.
LEMMA FetchPlaces ==
    ASSUME NullAssumption, TypeOK, OnePlace, NEW w \in Workers, Fetch(w)
    PROVE  /\ queue # <<>> /\ queue' = Tail(queue) /\ Head(queue) \in Tasks \cup {NULL}
           /\ Holds(queue, Head(queue)) /\ Once(queue')
           /\ worker[w].at = "fetch" /\ worker[w].task = NULL
           /\ worker'[w] = [at |-> IF Head(queue) = NULL THEN "exited" ELSE "start",
                            task |-> Head(queue)]
           /\ \A v \in Workers \ {w} : worker'[v] = worker[v]
           /\ \A k \in Tasks : Holds(queue', k) <=> Holds(queue, k) /\ k # Head(queue)
           /\ \A k \in Tasks : Runs(worker', k) <=> Runs(worker, k) \/ k = Head(queue)
<1>1. /\ queue \in Seq(Tasks \cup {NULL}) /\ queue # <<>> /\ queue' = Tail(queue)
      /\ Once(queue)
  BY DEF TypeOK, Fetch, OnePlace, EachOnce
<1>2. /\ Head(queue) \in Tasks \cup {NULL} /\ Holds(queue, Head(queue))
      /\ Once(queue')
      /\ \A k \in Tasks : Holds(queue', k) <=> Holds(queue, k) /\ k # Head(queue)
  BY <1>1, TailHolds, NullAssumption
<1>3. /\ worker[w].at = "fetch" /\ worker[w].task = NULL
      /\ worker'[w] = [at |-> IF Head(queue) = NULL THEN "exited" ELSE "start",
                       task |-> Head(queue)]
      /\ \A v \in Workers \ {w} : worker'[v] = worker[v]
  BY DEF Fetch, TypeOK, OnePlace, EachOnce
<1>4. ASSUME NEW k \in Tasks PROVE Runs(worker', k) <=> Runs(worker, k) \/ k = Head(queue)
  <2>1. worker'[w].task = Head(queue) /\ worker[w].task # k
    BY <1>3, NullAssumption
  <2> QED
    BY <1>3, <2>1 DEF Runs
<1> QED
  BY <1>1, <1>2, <1>3, <1>4

LEMMA MarkPlaces ==
    ASSUME TypeOK, OnePlace, NEW w \in Workers, MarkRunning(w)
    PROVE  /\ worker[w].task \in Tasks
           /\ worker'[w] = [at |-> "run", task |-> worker[w].task]
           /\ \A v \in Workers \ {w} : worker'[v] = worker[v]
           /\ \A k : Runs(worker', k) <=> Runs(worker, k)
<1>1. /\ worker[w].at = "start" /\ worker[w].task \in Tasks
      /\ worker'[w] = [at |-> "run", task |-> worker[w].task]
      /\ \A v \in Workers \ {w} : worker'[v] = worker[v]
  BY DEF MarkRunning, TypeOK, OnePlace, EachOnce
<1>2. \A v \in Workers : worker'[v].task = worker[v].task
  BY <1>1
<1> QED
  BY <1>1, <1>2 DEF Runs

LEMMA FinishPlaces ==
    ASSUME NullAssumption, TypeOK, OnePlace, NEW w \in Workers, Finish(w)
    PROVE  /\ worker[w].at = "run" /\ worker[w].task \in Tasks
           /\ worker'[w] = [at |-> "fetch", task |-> NULL]
           /\ \A v \in Workers \ {w} : worker'[v] = worker[v]
           /\ \A k \in Tasks : Runs(worker', k) <=> Runs(worker, k) /\ k # worker[w].task
<1>1. /\ worker[w].at = "run" /\ worker[w].task \in Tasks
      /\ worker'[w] = [at |-> "fetch", task |-> NULL]
      /\ \A v \in Workers \ {w} : worker'[v] = worker[v]
  BY DEF Finish, TypeOK, OnePlace, EachOnce
<1>2. \A v \in Workers \ {w} : worker[v].task # worker[w].task
  BY <1>1, NullAssumption DEF OnePlace, EachOnce
<1>3. ASSUME NEW k \in Tasks
      PROVE  Runs(worker', k) <=> Runs(worker, k) /\ k # worker[w].task
  <2>1. worker'[w].task # k
    BY <1>1, NullAssumption
  <2>2. \A v \in Workers \ {w} : worker'[v].task = worker[v].task
    BY <1>1
  <2> QED
    BY <1>2, <2>1, <2>2 DEF Runs
<1> QED
  BY <1>1, <1>3

LEMMA WithdrawPlaces ==
    ASSUME NullAssumption, TypeOK, OnePlace, NEW k \in Tasks, ExpiredWithdraw(k)
    PROVE  /\ queue' \in Seq(Tasks \cup {NULL}) /\ Once(queue') /\ Holds(queue, k)
           /\ \A j \in Tasks : Holds(queue', j) <=> Holds(queue, j) /\ j # k
<1>1. PICK i \in 1..Len(queue) : queue[i] = k /\ queue' = Without(i)
  BY DEF ExpiredWithdraw
<1>2. queue \in Seq(Tasks \cup {NULL}) /\ Once(queue) /\ queue' = Remove(queue, i)
  BY <1>1 DEF TypeOK, OnePlace, EachOnce, Without, Remove
<1>3. /\ queue' \in Seq(Tasks \cup {NULL}) /\ Once(queue')
      /\ \A j \in Tasks : Holds(queue', j) <=> Holds(queue, j) /\ j # k
  <2>1. /\ Remove(queue, i) \in Seq(Tasks \cup {NULL}) /\ Once(Remove(queue, i))
        /\ \A j : j # k => (Holds(Remove(queue, i), j) <=> Holds(queue, j))
        /\ ~Holds(Remove(queue, i), k)
    BY <1>1, <1>2, RemoveHolds, NullAssumption
  <2> QED
    BY <1>2, <2>1
<1> QED
  BY <1>1, <1>3 DEF Holds

\* A push adds one task.
LEMMA PushPlaces ==
    ASSUME TypeOK, OnePlace, NEW e \in Tasks \cup {NULL}, Push(e), ~Holds(queue, e) \/ e = NULL
    PROVE  /\ queue' \in Seq(Tasks \cup {NULL}) /\ Once(queue')
           /\ \A k : Holds(queue', k) <=> Holds(queue, k) \/ k = e
<1>1. queue \in Seq(Tasks \cup {NULL}) /\ Once(queue) /\ queue' = Append(queue, e)
  BY DEF TypeOK, OnePlace, EachOnce, Push
<1> QED
  BY <1>1, AppendHolds

-----------------------------------------------------------------------------
\* The steps that move no task.
Still(k) == Get(k) \/ GetReturn(k) \/ Expire(k) \/ ExpiredLate(k) \/ SpuriousWakeup(k) \/ Destroy(k)

LEMMA PoolInit == NullAssumption /\ WorkersAssumption /\ Init => PoolInv
<1> SUFFICES ASSUME NullAssumption, WorkersAssumption, Init PROVE PoolInv
  OBVIOUS
<1>1. Cardinality(Workers) \in Nat /\ Cardinality(Workers) # 0
  BY WorkersAssumption, FS_CardinalityType, FS_EmptySet DEF WorkersAssumption
<1>2. Exited = {} /\ Cardinality({}) = 0
  BY FS_EmptySet DEF Init, Exited
<1>3. TypeOK
  <2>1. queue \in Seq(Tasks \cup {NULL}) /\ pushed \in 0..Cardinality(Workers)
    BY <1>1 DEF Init
  <2>2. worker \in [Workers -> [at : {"fetch", "start", "run", "exited"}, task : Tasks \cup {NULL}]]
    BY DEF Init
  <2> QED
    BY <2>1, <2>2 DEF Init, TypeOK
<1>4. \A k \in Tasks : ~InQueue(k) /\ ~AtWorker(k)
  BY NullAssumption DEF Init, InQueue, AtWorker
<1>5. OnePlace /\ FlagsTell /\ FutureAliveWhileUsed
  BY <1>4, Places DEF Init, OnePlace, EachOnce, Once, FlagsTell, FutureAliveWhileUsed
<1>6. LastTasks
  <2>1. Unfetched = 0 /\ Len(queue) = 0
    BY <1>2 DEF Init, Unfetched
  <2> QED
    BY <1>2, <2>1 DEF Init, LastTasks, EndsIn
<1> QED
  BY <1>3, <1>5, <1>6 DEF PoolInv

LEMMA TypeStep ==
    ASSUME NullAssumption, WorkersAssumption, PoolInv, Next
    PROVE  TypeOK'
<1> USE NullAssumption DEF PoolInv
<1>1. ASSUME NEW k \in Tasks, Apply(k) PROVE TypeOK'
  <2>1. queue' \in Seq(Tasks \cup {NULL})
    BY <1>1, AppendHolds DEF Apply, Push, TypeOK
  <2> QED
    BY <1>1, <2>1 DEF Apply, Push, ClientAt, TypeOK
<1>2. ASSUME NEW w \in Workers, Fetch(w) PROVE TypeOK'
  <2>1. queue' \in Seq(Tasks \cup {NULL})
    BY <1>2, TailHolds DEF Fetch, TypeOK
  <2>2. [at |-> IF Head(queue) = NULL THEN "exited" ELSE "start", task |-> Head(queue)]
           \in [at : {"fetch", "start", "run", "exited"}, task : Tasks \cup {NULL}]
    BY <1>2, FetchPlaces
  <2> QED
    BY <1>2, <2>1, <2>2 DEF Fetch, TypeOK
<1>3. ASSUME NEW w \in Workers, MarkRunning(w) PROVE TypeOK'
  <2>1. worker[w].task \in Tasks
    BY <1>3, MarkPlaces
  <2>2. flags' \in [Tasks -> SUBSET Flag]
    BY <1>3, <2>1 DEF MarkRunning, TypeOK, Flag
  <2>3. worker' \in [Workers -> [at : {"fetch", "start", "run", "exited"}, task : Tasks \cup {NULL}]]
    BY <1>3 DEF MarkRunning, TypeOK
  <2> QED
    BY <1>3, <2>2, <2>3 DEF MarkRunning, TypeOK
<1>4. ASSUME NEW w \in Workers, Finish(w) PROVE TypeOK'
  BY <1>4, FinishPlaces DEF Finish, Woken, TypeOK, Flag
<1>5. ASSUME NEW k \in Tasks, Still(k) PROVE TypeOK'
  <2>1. corrupt' \in BOOLEAN
    <3>1. CASE ExpiredLate(k)
      BY <3>1 DEF ExpiredLate, WalksOff
    <3>2. CASE ~ExpiredLate(k)
      BY <1>5, <3>2 DEF Still, Get, GetReturn, Expire, SpuriousWakeup, Destroy, TypeOK
    <3> QED
      BY <3>1, <3>2
  <2>2. UNCHANGED <<queue, tailLinked, worker, joining, pushed>>
    BY <1>5 DEF Still, Get, GetReturn, Expire, ExpiredLate, SpuriousWakeup, Destroy
  <2>3. flags' \in [Tasks -> SUBSET Flag] /\ alive' \subseteq Tasks
    <3>1. CASE Destroy(k)
      BY <3>1 DEF Destroy, TypeOK, Flag
    <3>2. CASE ~Destroy(k)
      BY <1>5, <3>2 DEF Still, Get, GetReturn, Expire, ExpiredLate, SpuriousWakeup, TypeOK
    <3> QED
      BY <3>1, <3>2
  <2>4. \E to \in {"holds", "get", "timedGet", "expired", "lateGet", "done"} :
           client' = [client EXCEPT ![k] = to]
    BY <1>5 DEF Still, Get, GetReturn, Expire, ExpiredLate, SpuriousWakeup, Destroy, ClientAt
  <2>5. client' \in [Tasks -> {"new", "holds", "get", "timedGet", "expired", "lateGet",
                              "woken", "done", "gaveUp"}]
    BY <2>4 DEF TypeOK
  <2> QED
    BY <2>1, <2>2, <2>3, <2>5 DEF TypeOK
<1>6. ASSUME NEW k \in Tasks, ExpiredWithdraw(k) PROVE TypeOK'
  <2>1. queue' \in Seq(Tasks \cup {NULL})
    BY <1>6, WithdrawPlaces
  <2>2. tailLinked' \in BOOLEAN /\ corrupt' \in BOOLEAN
    BY <1>6 DEF ExpiredWithdraw, TypeOK
  <2> QED
    BY <1>6, <2>1, <2>2 DEF ExpiredWithdraw, ClientAt, TypeOK
<1>7. CASE JoinBegin
  BY <1>7 DEF JoinBegin, TypeOK
<1>8. CASE JoinPush
  <2>1. queue' \in Seq(Tasks \cup {NULL}) /\ tailLinked' \in BOOLEAN
    BY <1>8, AppendHolds DEF JoinPush, Push, TypeOK
  <2>2. pushed' \in 0..Cardinality(Workers)
    <3>1. Cardinality(Workers) \in Nat
      BY WorkersAssumption, FS_CardinalityType DEF WorkersAssumption
    <3> QED
      BY <1>8, <3>1 DEF JoinPush, LastTasks, TypeOK
  <2> QED
    BY <1>8, <2>1, <2>2 DEF JoinPush, TypeOK
<1>9. CASE JoinReturn
  BY <1>9 DEF JoinReturn, TypeOK
<1> QED
  BY <1>1, <1>2, <1>3, <1>4, <1>5, <1>6, <1>7, <1>8, <1>9
     DEF Next, Work, Answer, Join, Still

LEMMA PlaceStep ==
    ASSUME NullAssumption, PoolInv, Next
    PROVE  OnePlace'
<1> USE NullAssumption DEF PoolInv
<1>0. EachOnce(queue, worker)
  BY DEF OnePlace
<1>1. ASSUME NEW k \in Tasks, Apply(k) PROVE EachOnce(queue', worker')
  <2>1. ~Holds(queue, k) /\ ~Runs(worker, k)
    BY <1>1, Places DEF Apply, ClientAt, FlagsTell
  <2> QED
    BY <1>0, <1>1, <2>1, PushPlaces DEF Apply, EachOnce
<1>2. ASSUME NEW w \in Workers, Fetch(w) PROVE EachOnce(queue', worker')
  <2>1. ASSUME Head(queue) # NULL PROVE \A v \in Workers : worker[v].task # Head(queue)
    BY <1>0, <1>2, <2>1, FetchPlaces DEF EachOnce, Runs
  <2>2. \A v \in Workers \ {w} : worker'[v] = worker[v]
    BY <1>2, FetchPlaces
  <2>3. worker'[w].task = Head(queue) /\ (worker'[w].at \in {"start", "run"} <=> Head(queue) # NULL)
    BY <1>2, FetchPlaces
  <2>4. \A u, v \in Workers : worker'[u].task = worker'[v].task /\ worker'[u].task # NULL => u = v
    BY <1>0, <2>1, <2>2, <2>3 DEF EachOnce
  <2>5. \A v \in Workers : worker'[v].at \in {"start", "run"} <=> worker'[v].task # NULL
    BY <1>0, <2>2, <2>3 DEF EachOnce
  <2>6. \A k \in Tasks : ~(Holds(queue', k) /\ Runs(worker', k))
    BY <1>0, <1>2, FetchPlaces DEF EachOnce
  <2> QED
    BY <1>2, <2>4, <2>5, <2>6, FetchPlaces DEF EachOnce
<1>3. ASSUME NEW w \in Workers, MarkRunning(w) PROVE EachOnce(queue', worker')
  <2>1. queue' = queue /\ \A v \in Workers : worker'[v].task = worker[v].task
    BY <1>3, MarkPlaces DEF MarkRunning
  <2>2. \A v \in Workers : worker'[v].at \in {"start", "run"} <=> worker[v].at \in {"start", "run"}
    BY <1>3, MarkPlaces DEF MarkRunning
  <2>3. \A k \in Tasks : Runs(worker', k) <=> Runs(worker, k)
    BY <1>3, MarkPlaces
  <2> QED
    BY <1>0, <2>1, <2>2, <2>3 DEF EachOnce
<1>4. ASSUME NEW w \in Workers, Finish(w) PROVE EachOnce(queue', worker')
  <2>1. queue' = queue
    BY <1>4 DEF Finish
  <2>2. worker'[w].at = "fetch" /\ worker'[w].task = NULL
    BY <1>4, FinishPlaces
  <2>3. \A v \in Workers \ {w} : worker'[v] = worker[v]
    BY <1>4, FinishPlaces
  <2>4. \A k \in Tasks : ~(Holds(queue', k) /\ Runs(worker', k))
    BY <1>0, <1>4, <2>1, FinishPlaces DEF EachOnce
  <2> QED
    BY <1>0, <2>1, <2>2, <2>3, <2>4 DEF EachOnce
<1>5. ASSUME NEW k \in Tasks, ExpiredWithdraw(k) PROVE EachOnce(queue', worker')
  <2>1. worker' = worker
    BY <1>5 DEF ExpiredWithdraw
  <2> QED
    BY <1>0, <1>5, <2>1, WithdrawPlaces DEF EachOnce
<1>6. CASE JoinPush
  <2>1. worker' = worker /\ Push(NULL)
    BY <1>6 DEF JoinPush
  <2>2. Once(queue') /\ \A k : Holds(queue', k) <=> Holds(queue, k) \/ k = NULL
    BY <2>1, PushPlaces
  <2>3. \A k \in Tasks : Holds(queue', k) <=> Holds(queue, k)
    BY <2>2, NullAssumption
  <2>4. \A k \in Tasks : ~(Holds(queue', k) /\ Runs(worker', k))
    BY <1>0, <2>1, <2>3 DEF EachOnce
  <2>5. /\ \A v, w \in Workers :
              worker'[v].task = worker'[w].task /\ worker'[v].task # NULL => v = w
        /\ \A w \in Workers : worker'[w].at \in {"start", "run"} <=> worker'[w].task # NULL
    BY <1>0, <2>1 DEF EachOnce
  <2> QED
    BY <2>2, <2>4, <2>5 DEF OnePlace, EachOnce
<1>7. ASSUME UNCHANGED <<queue, worker>> PROVE EachOnce(queue', worker')
  BY <1>0, <1>7
<1> QED
  BY <1>1, <1>2, <1>3, <1>4, <1>5, <1>6, <1>7 DEF Next, Work, Answer, Join, JoinBegin,
     JoinReturn, Get, GetReturn, Expire, ExpiredLate, SpuriousWakeup, Destroy, OnePlace

LEMMA TellStep ==
    ASSUME NullAssumption, PoolInv, Next
    PROVE  FlagsTell' /\ FutureAliveWhileUsed'
<1> DEFINE Told(k) ==
        /\ client'[k] = "new" => k \notin alive' /\ flags'[k] = {}
        /\ client'[k] \in {"new", "gaveUp"} => ~Holds(queue', k) /\ ~Runs(worker', k)
        /\ "RUNNING" \in flags'[k] => ~Holds(queue', k)
        /\ "FINISHED" \in flags'[k] => "RUNNING" \in flags'[k] /\ ~Runs(worker', k)
        /\ "FINISHED" \notin flags'[k] /\ client'[k] \notin {"new", "done", "gaveUp"} =>
              Holds(queue', k) \/ Runs(worker', k)
        /\ "DESTROYED" \in flags'[k] => client'[k] = "done"
        /\ client'[k] = "done" /\ (Holds(queue', k) \/ Runs(worker', k)) =>
              "DESTROYED" \in flags'[k]
        /\ k \in alive' <=> \/ client'[k] \notin {"new", "done", "gaveUp"}
                            \/ Holds(queue', k) \/ Runs(worker', k)
<1> DEFINE Marked(w) == worker'[w].at = "run" => "RUNNING" \in flags'[worker'[w].task]
<1> SUFFICES /\ \A k \in Tasks : Told(k)
             /\ \A w \in Workers : Marked(w)
  BY DEF FlagsTell, FutureAliveWhileUsed, InQueue, AtWorker, Holds, Runs
<1> USE NullAssumption DEF PoolInv
<1>0. ASSUME NEW k \in Tasks
      PROVE  /\ client[k] = "new" => k \notin alive /\ flags[k] = {}
             /\ client[k] \in {"new", "gaveUp"} => ~Holds(queue, k) /\ ~Runs(worker, k)
             /\ "RUNNING" \in flags[k] => ~Holds(queue, k)
             /\ "FINISHED" \in flags[k] => "RUNNING" \in flags[k] /\ ~Runs(worker, k)
             /\ "FINISHED" \notin flags[k] /\ client[k] \notin {"new", "done", "gaveUp"} =>
                   Holds(queue, k) \/ Runs(worker, k)
             /\ "DESTROYED" \in flags[k] => client[k] = "done"
             /\ client[k] = "done" /\ (Holds(queue, k) \/ Runs(worker, k)) =>
                   "DESTROYED" \in flags[k]
             /\ k \in alive <=> \/ client[k] \notin {"new", "done", "gaveUp"}
                                \/ Holds(queue, k) \/ Runs(worker, k)
             /\ ~(Holds(queue, k) /\ Runs(worker, k))
  BY Places DEF FlagsTell, FutureAliveWhileUsed, OnePlace, EachOnce
<1>1. \A w \in Workers : worker[w].at = "run" => "RUNNING" \in flags[worker[w].task]
  BY DEF FlagsTell
<1>2. ASSUME NEW k \in Tasks, client'[k] = client[k], flags'[k] = flags[k],
             k \in alive' <=> k \in alive, Holds(queue', k) <=> Holds(queue, k),
             Runs(worker', k) <=> Runs(worker, k)
      PROVE  Told(k)
  BY <1>0, <1>2
<1>3. ASSUME NEW w \in Workers, worker'[w] = worker[w],
             worker[w].task \in Tasks => flags[worker[w].task] \subseteq flags'[worker[w].task]
      PROVE  Marked(w)
  BY <1>1, <1>3 DEF TypeOK, OnePlace, EachOnce
<1>4. ASSUME NEW k \in Tasks, Apply(k) PROVE \A j \in Tasks : Told(j)
  <2>1. /\ client[k] = "new" /\ client'[k] = "holds" /\ flags' = flags /\ worker' = worker
        /\ alive' = alive \cup {k} /\ \A j \in Tasks \ {k} : client'[j] = client[j]
    BY <1>4 DEF Apply, ClientAt, TypeOK
  <2>2. \A j : Holds(queue', j) <=> Holds(queue, j) \/ j = k
    BY <1>0, <1>4, <2>1, PushPlaces DEF Apply
  <2>3. Told(k)
    BY <1>0, <2>1, <2>2
  <2>4. ASSUME NEW j \in Tasks \ {k} PROVE Told(j)
    BY <1>2, <2>1, <2>2
  <2> QED
    BY <2>3, <2>4
<1>5. ASSUME NEW w \in Workers, Fetch(w) PROVE \A j \in Tasks : Told(j)
  <2>1. UNCHANGED <<flags, alive, client>>
    BY <1>5 DEF Fetch
  <2>2. ASSUME NEW j \in Tasks, j = Head(queue) PROVE Told(j)
    <3>1. Holds(queue, j) /\ ~Holds(queue', j) /\ Runs(worker', j)
      BY <1>5, <2>2, FetchPlaces
    <3> QED
      BY <1>0, <2>1, <3>1
  <2>3. ASSUME NEW j \in Tasks, j # Head(queue) PROVE Told(j)
    BY <1>2, <1>5, <2>1, <2>3, FetchPlaces
  <2> QED
    BY <2>2, <2>3
<1>6. ASSUME NEW w \in Workers, MarkRunning(w) PROVE \A j \in Tasks : Told(j)
  <2>1. UNCHANGED <<queue, alive, client>> /\ worker[w].task \in Tasks
    BY <1>6, MarkPlaces DEF MarkRunning
  <2>2. \A j \in Tasks : Runs(worker', j) <=> Runs(worker, j)
    BY <1>6, MarkPlaces
  <2>3. ASSUME NEW j \in Tasks, j # worker[w].task PROVE Told(j)
    <3>1. flags'[j] = flags[j]
      BY <1>6, <2>1, <2>3 DEF MarkRunning, TypeOK
    <3> QED
      BY <1>2, <2>1, <2>2, <3>1
  <2>4. ASSUME NEW j \in Tasks, j = worker[w].task PROVE Told(j)
    <3>1. flags'[j] = flags[j] \cup {"RUNNING"} /\ Runs(worker, j)
      BY <1>6, <2>1, <2>4 DEF MarkRunning, TypeOK, Runs
    <3> QED
      BY <1>0, <2>1, <2>2, <3>1
  <2> QED
    BY <2>3, <2>4
<1>7. ASSUME NEW w \in Workers, Finish(w) PROVE \A j \in Tasks : Told(j)
  <2>1. UNCHANGED queue /\ worker[w].task \in Tasks /\ worker[w].at = "run"
    BY <1>7, FinishPlaces DEF Finish
  <2>2. PICK k \in Tasks : k = worker[w].task
    BY <2>1
  <2>3. \A j \in Tasks : Runs(worker', j) <=> Runs(worker, j) /\ j # k
    BY <1>7, <2>2, FinishPlaces
  <2>4. Runs(worker, k) /\ "RUNNING" \in flags[k]
    BY <1>1, <2>1, <2>2 DEF Runs
  <2>5. ASSUME NEW j \in Tasks \ {k}
        PROVE  flags'[j] = flags[j] /\ client'[j] = client[j] /\ (j \in alive' <=> j \in alive)
    BY <1>7, <2>2 DEF Finish, Woken, TypeOK
  <2>6. ASSUME NEW j \in Tasks \ {k} PROVE Told(j)
    BY <1>2, <2>1, <2>3, <2>5
  <2>7. ASSUME "DESTROYED" \in flags[k], alive' = alive \ {k}, UNCHANGED <<flags, client>>
        PROVE  Told(k)
    BY <1>0, <2>1, <2>3, <2>4, <2>7
  <2>8. ASSUME "DESTROYED" \notin flags[k], UNCHANGED alive, client' = Woken(k),
               flags' = [flags EXCEPT ![k] = @ \cup {"FINISHED"}]
        PROVE  Told(k)
    <3>1. /\ flags'[k] = flags[k] \cup {"FINISHED"}
          /\ client'[k] = IF client[k] \in {"get", "timedGet", "lateGet"} THEN "woken"
                          ELSE client[k]
      BY <2>8 DEF TypeOK, Woken
    <3>2. client[k] \notin {"new", "done", "gaveUp"} /\ client'[k] \notin {"new", "done", "gaveUp"}
      BY <1>0, <2>4, <2>8, <3>1
    <3>3. ~Holds(queue', k) /\ ~Runs(worker', k)
      BY <1>0, <2>1, <2>3, <2>4
    <3>4. k \in alive' /\ "DESTROYED" \notin flags'[k] /\ "RUNNING" \in flags'[k]
      BY <1>0, <2>4, <2>8, <3>1
    <3> QED
      BY <3>1, <3>2, <3>3, <3>4
  <2>9. Told(k)
    BY <1>7, <2>2, <2>7, <2>8 DEF Finish
  <2> QED
    BY <2>6, <2>9
<1>8. ASSUME NEW k \in Tasks, Still(k) PROVE \A j \in Tasks : Told(j)
  <2>1. UNCHANGED <<queue, worker>> /\ \A j \in Tasks \ {k} :
            flags'[j] = flags[j] /\ client'[j] = client[j] /\ (j \in alive' <=> j \in alive)
    BY <1>8 DEF Still, Get, GetReturn, Expire, ExpiredLate, SpuriousWakeup, Destroy,
       ClientAt, TypeOK
  <2>2. ASSUME NEW j \in Tasks \ {k} PROVE Told(j)
    BY <1>2, <2>1
  <2>3. CASE Destroy(k)
    <3>1. client[k] = "holds" /\ client'[k] = "done"
      BY <2>3 DEF Destroy, ClientAt, TypeOK
    <3>2. CASE "FINISHED" \in flags[k] /\ alive' = alive \ {k} /\ UNCHANGED flags
      BY <1>0, <2>1, <3>1, <3>2
    <3>3. CASE /\ "FINISHED" \notin flags[k] /\ UNCHANGED alive
               /\ flags' = [flags EXCEPT ![k] = @ \cup {"DESTROYED"}]
      <4>1. flags'[k] = flags[k] \cup {"DESTROYED"}
        BY <3>3 DEF TypeOK
      <4> QED
        BY <1>0, <2>1, <3>1, <3>3, <4>1
    <3> QED
      BY <2>3, <3>2, <3>3 DEF Destroy
  <2>4. CASE ~Destroy(k)
    <3>1. /\ flags' = flags /\ alive' = alive
          /\ client[k] \in {"holds", "woken", "timedGet", "expired", "lateGet"}
          /\ client'[k] \in {"get", "holds", "timedGet", "expired", "lateGet"}
      BY <1>8, <2>4 DEF Still, Get, GetReturn, Expire, ExpiredLate, SpuriousWakeup,
         ClientAt, TypeOK
    <3> QED
      BY <1>0, <2>1, <3>1
  <2> QED
    BY <2>2, <2>3, <2>4
<1>9. ASSUME NEW k \in Tasks, ExpiredWithdraw(k) PROVE \A j \in Tasks : Told(j)
  <2>1. /\ UNCHANGED <<worker, flags>> /\ alive' = alive \ {k}
        /\ client[k] = "expired" /\ client'[k] = "gaveUp"
        /\ \A j \in Tasks \ {k} : client'[j] = client[j]
    BY <1>9 DEF ExpiredWithdraw, ClientAt, TypeOK
  <2>2. Holds(queue, k) /\ \A j \in Tasks : Holds(queue', j) <=> Holds(queue, j) /\ j # k
    BY <1>9, WithdrawPlaces
  <2>3. Told(k)
    BY <1>0, <2>1, <2>2
  <2>4. ASSUME NEW j \in Tasks \ {k} PROVE Told(j)
    BY <1>2, <2>1, <2>2
  <2> QED
    BY <2>3, <2>4
<1>10. CASE JoinBegin \/ JoinReturn
  <2>1. UNCHANGED <<queue, worker, flags, client, alive>>
    BY <1>10 DEF JoinBegin, JoinReturn
  <2> QED
    BY <1>2, <1>3, <2>1
<1>11. CASE JoinPush
  <2>1. UNCHANGED <<worker, flags, client, alive>> /\ Push(NULL)
    BY <1>11 DEF JoinPush
  <2>2. \A k \in Tasks : Holds(queue', k) <=> Holds(queue, k)
    BY <2>1, PushPlaces
  <2> QED
    BY <1>2, <1>3, <2>1, <2>2
<1>12. ASSUME NEW w \in Workers, Work(w) PROVE \A v \in Workers : Marked(v)
  <2>1. ASSUME NEW v \in Workers \ {w} PROVE Marked(v)
    <3>1. worker'[v] = worker[v] /\ \A k \in Tasks : flags[k] \subseteq flags'[k]
      BY <1>12, FetchPlaces, MarkPlaces, FinishPlaces
         DEF Work, Fetch, MarkRunning, Finish, TypeOK
    <3> QED
      BY <1>3, <3>1
  <2>2. Marked(w)
    BY <1>12, FetchPlaces, MarkPlaces, FinishPlaces DEF Work, MarkRunning, TypeOK
  <2> QED
    BY <2>1, <2>2
<1>13. ASSUME NEW k \in Tasks, Apply(k) \/ Still(k) \/ ExpiredWithdraw(k)
       PROVE  \A v \in Workers : Marked(v)
  <2>1. CASE Destroy(k)
    <3>1. worker' = worker /\ (flags' = flags \/ flags' = [flags EXCEPT ![k] = @ \cup {"DESTROYED"}])
      BY <2>1 DEF Destroy
    <3>2. \A j \in Tasks : flags[j] \subseteq flags'[j]
      BY <3>1 DEF TypeOK
    <3> QED
      BY <1>3, <3>1, <3>2
  <2>2. CASE ~Destroy(k)
    <3>1. UNCHANGED <<worker, flags>>
      BY <1>13, <2>2 DEF Apply, Still, Get, GetReturn, Expire, ExpiredLate, SpuriousWakeup, ExpiredWithdraw
    <3> QED
      BY <1>3, <3>1
  <2> QED
    BY <2>1, <2>2
<1> QED
  BY <1>4, <1>5, <1>6, <1>7, <1>8, <1>9, <1>10, <1>11, <1>12, <1>13
     DEF Next, Work, Answer, Join, Still

-----------------------------------------------------------------------------
(* The tasks of tpool_join at the end of the queue *)

LEMMA AppendEnds ==
    ASSUME NEW S, NEW s \in Seq(S), NEW e \in S, NEW n, EndsIn(s, n)
    PROVE  /\ e = NULL => EndsIn(Append(s, e), n + 1)
           /\ e # NULL /\ n = 0 => EndsIn(Append(s, e), n)
<1>1. /\ Len(Append(s, e)) = Len(s) + 1 /\ Len(s) \in Nat
      /\ \A i \in 1..Len(s) : Append(s, e)[i] = s[i]
      /\ Append(s, e)[Len(s) + 1] = e
  OBVIOUS
<1>2. \A i \in 1..Len(Append(s, e)) : i \in 1..Len(s) \/ i = Len(s) + 1
  BY <1>1
<1>3. ASSUME e = NULL PROVE EndsIn(Append(s, e), n + 1)
  BY <1>1, <1>2, <1>3 DEF EndsIn
<1>4. ASSUME e # NULL, n = 0 PROVE EndsIn(Append(s, e), n)
  BY <1>1, <1>2, <1>4 DEF EndsIn
<1> QED
  BY <1>3, <1>4

LEMMA TailEnds ==
    ASSUME NEW S, NEW s \in Seq(S), s # <<>>, NEW n, EndsIn(s, n)
    PROVE  /\ Head(s) = NULL => n = Len(s) /\ EndsIn(Tail(s), n - 1)
           /\ Head(s) # NULL => n # Len(s) /\ EndsIn(Tail(s), n)
<1>1. /\ Len(Tail(s)) = Len(s) - 1 /\ Len(s) \in Nat /\ Len(s) >= 1 /\ Head(s) = s[1]
      /\ \A i \in 1..(Len(s) - 1) : Tail(s)[i] = s[i + 1] /\ i + 1 \in 1..Len(s)
  OBVIOUS
<1>2. n \in 0..Len(s) /\ n \in Int
  BY <1>1 DEF EndsIn
<1>3. Head(s) = NULL <=> 1 > Len(s) - n
  <2>1. 1 \in 1..Len(s)
    BY <1>1
  <2>2. s[1] = NULL <=> 1 > Len(s) - n
    BY <2>1 DEF EndsIn
  <2> QED
    BY <1>1, <2>2
<1>4. Head(s) = NULL <=> n = Len(s)
  <2>1. \A l, m \in Int : m <= l => (1 > l - m <=> m = l)
    OBVIOUS
  <2>2. Len(s) \in Int /\ n \in Int /\ n <= Len(s)
    BY <1>1, <1>2
  <2> QED
    BY <1>3, <2>1, <2>2
<1>5. ASSUME NEW i \in 1..(Len(s) - 1)
      PROVE  Tail(s)[i] = NULL <=> i > (Len(s) - 1) - n
  <2>1. Tail(s)[i] = NULL <=> i + 1 > Len(s) - n
    BY <1>1 DEF EndsIn
  <2> QED
    BY <1>1, <1>2, <2>1
<1>6. CASE Head(s) = NULL
  <2>1. n - 1 \in 0..(Len(s) - 1)
    BY <1>1, <1>4, <1>6
  <2>2. \A i \in 1..(Len(s) - 1) : Tail(s)[i] = NULL /\ i > (Len(s) - 1) - (n - 1)
    BY <1>1, <1>4, <1>5, <1>6
  <2> QED
    BY <1>1, <1>4, <1>6, <2>1, <2>2 DEF EndsIn
<1>7. CASE Head(s) # NULL
  <2>1. n # Len(s)
    BY <1>4, <1>7
  <2>2. n \in 0..(Len(s) - 1)
    <3>1. \A l \in Nat, m \in Int : m \in 0..l /\ m # l => m \in 0..(l - 1)
      OBVIOUS
    <3> QED
      BY <1>1, <1>2, <2>1, <3>1
  <2> QED
    BY <1>1, <1>5, <1>7, <2>1, <2>2 DEF EndsIn
<1> QED
  BY <1>6, <1>7

LEMMA RemoveEnds ==
    ASSUME NEW S, NEW s \in Seq(S), NEW i \in 1..Len(s), s[i] # NULL, NEW n, EndsIn(s, n)
    PROVE  EndsIn(Remove(s, i), n) /\ n # Len(s) /\ i <= Len(s) - n
<1>1. /\ Len(Remove(s, i)) = Len(s) - 1 /\ Len(s) \in Nat
      /\ \A j \in 1..(Len(s) - 1) : Remove(s, i)[j] = IF j < i THEN s[j] ELSE s[j + 1]
  BY RemoveHolds
<1>2. n \in 0..Len(s) /\ i <= Len(s) - n
  BY <1>1 DEF EndsIn
<1>3. ASSUME NEW j \in 1..(Len(s) - 1)
      PROVE  Remove(s, i)[j] = NULL <=> j > Len(s) - 1 - n
  <2>1. j \in 1..Len(s) /\ j + 1 \in 1..Len(s)
    BY <1>1
  <2>2. CASE j < i
    BY <1>1, <1>2, <2>1, <2>2 DEF EndsIn
  <2>3. CASE ~(j < i)
    BY <1>1, <1>2, <2>1, <2>3 DEF EndsIn
  <2> QED
    BY <2>2, <2>3
<1> QED
  BY <1>1, <1>2, <1>3 DEF EndsIn

LEMMA ExitedCount ==
    ASSUME WorkersAssumption
    PROVE  /\ IsFiniteSet(Exited) /\ Cardinality(Exited) \in Nat
           /\ Cardinality(Exited) <= Cardinality(Workers) /\ Cardinality(Workers) \in Nat
           /\ Cardinality(Exited) = 0 <=> Exited = {}
<1>1. Exited \in SUBSET Workers /\ IsFiniteSet(Workers)
  BY WorkersAssumption DEF Exited, WorkersAssumption
<1> QED
  BY <1>1, FS_Subset, FS_CardinalityType, FS_EmptySet

LEMMA FetchExited ==
    ASSUME NullAssumption, WorkersAssumption, TypeOK, OnePlace, NEW w \in Workers, Fetch(w)
    PROVE  /\ Head(queue) = NULL =>
                 Exited' = Exited \cup {w} /\ Cardinality(Exited') = Cardinality(Exited) + 1
           /\ Head(queue) # NULL => Exited' = Exited
<1>1. /\ worker[w].at = "fetch"
      /\ worker'[w].at = IF Head(queue) = NULL THEN "exited" ELSE "start"
      /\ \A v \in Workers \ {w} : worker'[v] = worker[v]
  BY FetchPlaces
<1>2. Head(queue) = NULL => Exited' = Exited \cup {w}
  BY <1>1 DEF Exited
<1>3. Head(queue) # NULL => Exited' = Exited
  BY <1>1 DEF Exited
<1>4. w \notin Exited
  BY <1>1 DEF Exited
<1> QED
  BY <1>2, <1>3, <1>4, ExitedCount, FS_AddElement

LEMMA LastStep ==
    ASSUME NullAssumption, WorkersAssumption, PoolInv, Next
    PROVE  LastTasks'
<1> USE NullAssumption, WorkersAssumption DEF PoolInv
<1>0. /\ EndsIn(queue, Unfetched) /\ queue \in Seq(Tasks \cup {NULL}) /\ Len(queue) \in Nat
      /\ pushed \in Nat /\ Cardinality(Exited) \in Nat /\ Cardinality(Workers) \in Nat
      /\ Unfetched \in 0..Len(queue)
  <2>1. Cardinality(Workers) \in Nat /\ Cardinality(Exited) \in Nat
    BY ExitedCount
  <2> QED
    BY <2>1 DEF LastTasks, EndsIn, TypeOK
<1>1. ASSUME NEW k \in Tasks, Apply(k) PROVE LastTasks'
  <2>1. /\ joining = "no" /\ queue' = Append(queue, k) /\ k # NULL
        /\ UNCHANGED <<worker, pushed, joining>>
    BY <1>1 DEF Apply, Push
  <2>2. pushed = 0 /\ Unfetched = 0 /\ Cardinality(Exited) = 0
    BY <1>0, <2>1 DEF LastTasks, Unfetched
  <2>3. Exited' = Exited /\ Unfetched' = Unfetched /\ Exited = {}
    BY <2>1, <2>2, ExitedCount DEF Exited, Unfetched
  <2>4. EndsIn(queue', Unfetched')
    BY <1>0, <2>1, <2>2, <2>3, AppendEnds
  <2> QED
    BY <2>1, <2>2, <2>3, <2>4 DEF LastTasks
<1>2. ASSUME NEW w \in Workers, Fetch(w) PROVE LastTasks'
  <2>1. queue # <<>> /\ queue' = Tail(queue) /\ UNCHANGED <<pushed, joining, client>>
    BY <1>2 DEF Fetch
  <2>2. joining = "joined" => FALSE
    BY <1>2 DEF LastTasks, Exited, Fetch
  <2>3. CASE Head(queue) = NULL
    <3>1. Exited' = Exited \cup {w} /\ Cardinality(Exited') = Cardinality(Exited) + 1
      BY <1>2, <2>3, FetchExited
    <3>2. Unfetched' = Unfetched - 1
      BY <1>0, <2>1, <3>1 DEF Unfetched
    <3>3. EndsIn(queue', Unfetched') /\ Unfetched = Len(queue)
      BY <1>0, <2>1, <2>3, <3>2, TailEnds
    <3>4. Unfetched' = Len(queue')
      BY <1>0, <2>1, <3>2, <3>3, TailHolds
    <3> QED
      BY <2>1, <2>2, <3>3, <3>4 DEF LastTasks
  <2>4. CASE Head(queue) # NULL
    <3>1. Exited' = Exited
      BY <1>2, <2>4, FetchExited
    <3>2. Unfetched' = Unfetched
      BY <2>1, <3>1 DEF Unfetched
    <3>3. EndsIn(queue', Unfetched') /\ Unfetched # Len(queue)
      BY <1>0, <2>1, <2>4, <3>2, TailEnds
    <3>4. Exited = {}
      BY <3>3 DEF LastTasks
    <3> QED
      BY <2>1, <2>2, <3>1, <3>3, <3>4 DEF LastTasks
  <2> QED
    BY <2>3, <2>4
<1>3. ASSUME NEW w \in Workers, MarkRunning(w) \/ Finish(w) PROVE LastTasks'
  <2>1. Exited' = Exited
    <3>1. /\ \A v \in Workers \ {w} : worker'[v] = worker[v]
          /\ worker[w].at # "exited" /\ worker'[w].at # "exited"
      <4>1. CASE MarkRunning(w)
        BY <4>1, MarkPlaces DEF MarkRunning
      <4>2. CASE Finish(w)
        BY <4>2, FinishPlaces
      <4> QED
        BY <1>3, <4>1, <4>2
    <3> QED
      BY <3>1 DEF Exited
  <2>2. UNCHANGED <<queue, pushed, joining>>
    BY <1>3 DEF MarkRunning, Finish
  <2>3. \A k \in Tasks : client[k] # "new" => client'[k] # "new"
    BY <1>3, FinishPlaces DEF MarkRunning, Finish, Woken, TypeOK
  <2>4. Unfetched' = Unfetched
    BY <2>1, <2>2 DEF Unfetched
  <2> QED
    BY <2>1, <2>2, <2>3, <2>4 DEF LastTasks
<1>4. ASSUME NEW k \in Tasks, Still(k) PROVE LastTasks'
  <2>1. UNCHANGED <<queue, worker, pushed, joining>>
    BY <1>4 DEF Still, Get, GetReturn, Expire, ExpiredLate, SpuriousWakeup, Destroy
  <2>2. \A j \in Tasks : client[j] # "new" => client'[j] # "new"
    BY <1>4 DEF Still, Get, GetReturn, Expire, ExpiredLate, SpuriousWakeup, Destroy,
       ClientAt, TypeOK
  <2>3. Exited' = Exited /\ Unfetched' = Unfetched
    BY <2>1 DEF Exited, Unfetched
  <2> QED
    BY <2>1, <2>2, <2>3 DEF LastTasks
<1>5. ASSUME NEW k \in Tasks, ExpiredWithdraw(k) PROVE LastTasks'
  <2>1. PICK i \in 1..Len(queue) : queue[i] = k /\ queue' = Remove(queue, i)
    BY <1>5 DEF ExpiredWithdraw, Without, Remove
  <2>2. UNCHANGED <<worker, pushed, joining>> /\ \A j \in Tasks : client[j] # "new" => client'[j] # "new"
    BY <1>5 DEF ExpiredWithdraw, ClientAt, TypeOK
  <2>3. Exited' = Exited /\ Unfetched' = Unfetched
    BY <2>2 DEF Exited, Unfetched
  <2>4. EndsIn(queue', Unfetched') /\ Unfetched # Len(queue)
    BY <1>0, <2>1, <2>3, RemoveEnds
  <2>5. Exited = {}
    BY <2>4 DEF LastTasks
  <2> QED
    BY <2>2, <2>3, <2>4, <2>5 DEF LastTasks
<1>6. CASE JoinBegin
  <2>1. UNCHANGED <<queue, worker, pushed, client>> /\ joining = "no" /\ joining' = "push"
        /\ \A k \in Tasks : client[k] # "new"
    BY <1>6 DEF JoinBegin
  <2>2. Exited' = Exited /\ Unfetched' = Unfetched
    BY <2>1 DEF Exited, Unfetched
  <2>3. 0 < Cardinality(Workers)
    BY <1>0, FS_EmptySet, WorkersAssumption DEF WorkersAssumption
  <2> QED
    BY <2>1, <2>2, <2>3 DEF LastTasks
<1>7. CASE JoinPush
  <2>1. /\ queue' = Append(queue, NULL) /\ UNCHANGED <<worker, client>> /\ joining = "push"
        /\ pushed' = pushed + 1
        /\ joining' = IF pushed' = Cardinality(Workers) THEN "wait" ELSE "push"
    BY <1>7 DEF JoinPush, Push
  <2>2. Exited' = Exited /\ Unfetched' = Unfetched + 1
    BY <1>0, <2>1 DEF Exited, Unfetched
  <2>3. EndsIn(queue', Unfetched') /\ Len(queue') = Len(queue) + 1
    BY <1>0, <2>1, <2>2, AppendEnds
  <2>4. pushed' <= Cardinality(Workers)
    BY <1>0, <2>1 DEF LastTasks
  <2> QED
    BY <1>0, <2>1, <2>2, <2>3, <2>4 DEF LastTasks
<1>8. CASE JoinReturn
  <2>1. /\ UNCHANGED <<queue, worker, pushed, client>> /\ joining = "wait" /\ joining' = "joined"
        /\ Exited = Workers
    BY <1>8 DEF JoinReturn, Exited
  <2>2. Exited' = Exited /\ Unfetched' = Unfetched
    BY <2>1 DEF Exited, Unfetched
  <2> QED
    BY <2>1, <2>2 DEF LastTasks
<1> QED
  BY <1>1, <1>2, <1>3, <1>4, <1>5, <1>6, <1>7, <1>8 DEF Next, Work, Answer, Join, Still

-----------------------------------------------------------------------------
LEMMA PoolStep == ASSUME PoolInv, [Next]_vars PROVE PoolInv'
<1>1. CASE Next
  BY <1>1, NullAssumption, WorkersAssumption, TypeStep, PlaceStep, TellStep, LastStep DEF PoolInv
<1>2. CASE UNCHANGED vars
  <2> USE <1>2 DEF vars
  <2>1. TypeOK' /\ OnePlace'
    BY DEF PoolInv, TypeOK, OnePlace
  <2>2. Exited' = Exited /\ Unfetched' = Unfetched
    BY DEF Exited, Unfetched
  <2>3. LastTasks'
    BY <2>2 DEF PoolInv, LastTasks
  <2>4. FlagsTell' /\ FutureAliveWhileUsed'
    BY DEF PoolInv, FlagsTell, FutureAliveWhileUsed, InQueue, AtWorker
  <2> QED
    BY <2>1, <2>3, <2>4 DEF PoolInv
<1> QED
  BY <1>1, <1>2

LEMMA PoolInvariant == Spec => []PoolInv
<1>1. Init => PoolInv
  BY NullAssumption, WorkersAssumption, PoolInit
<1>2. PoolInv /\ [Next]_vars => PoolInv'
  BY PoolStep
<1> QED
  BY <1>1, <1>2, PTL DEF Spec

\* The variables of the pool keep their types: no more tasks without a
\* function are pushed than there are workers (tpool_join).
THEOREM TypeCorrect == Spec => []TypeOK
<1>1. PoolInv => TypeOK
  BY DEF PoolInv
<1> QED
  BY <1>1, PoolInvariant, PTL

\* The client and the worker agree on who frees a future: it is allocated as
\* long as one of them can still use it, and freed when neither can
\* (tpool_future_get, tpool_future_destroy and jobqueue_fetch).
THEOREM FuturesOutliveUse == Spec => []FutureAliveWhileUsed
<1>1. PoolInv => FutureAliveWhileUsed
  BY DEF PoolInv
<1> QED
  BY <1>1, PoolInvariant, PTL

\* When tpool_join is through, all tasks have run, no worker is left, and no
\* get comes back to the queue that is freed.
THEOREM NothingAfterJoin == Spec => []JoinedIsOver
<1>1. PoolInv => JoinedIsOver
  <2> SUFFICES ASSUME PoolInv, joining = "joined"
               PROVE  /\ queue = <<>>
                      /\ \A k \in Tasks :
                          /\ ~AtWorker(k)
                          /\ client[k] \in {"timedGet", "expired"} => "RUNNING" \in flags[k]
    BY DEF JoinedIsOver
  <2> USE DEF PoolInv
  <2>1. Exited = Workers /\ pushed = Cardinality(Workers) /\ Cardinality(Workers) \in Nat
    BY WorkersAssumption, ExitedCount DEF LastTasks
  <2>2. Unfetched = 0 /\ Unfetched = Len(queue)
    BY <2>1, WorkersAssumption DEF Unfetched, LastTasks, WorkersAssumption
  <2>3. queue = <<>>
    BY <2>2 DEF TypeOK
  <2>4. \A w \in Workers : worker[w].at = "exited"
    BY <2>1 DEF Exited
  <2>5. \A k \in Tasks : ~AtWorker(k)
    BY <2>4, NullAssumption DEF AtWorker, OnePlace, EachOnce
  <2>6. \A k \in Tasks : ~InQueue(k)
    BY <2>2 DEF InQueue
  <2> QED
    BY <2>3, <2>5, <2>6 DEF FlagsTell
<1> QED
  BY <1>1, PoolInvariant, PTL

-----------------------------------------------------------------------------
(* The pool implements TaskPool: what waits is the queue up to the tasks of *)
(* tpool_join                                                               *)

Front(s, n) == SubSeq(s, 1, Len(s) - n)

LEMMA FrontProperties ==
    ASSUME NEW S, NEW s \in Seq(S), NEW n \in 0..Len(s)
    PROVE  /\ Front(s, n) \in Seq(S) /\ Len(Front(s, n)) = Len(s) - n
           /\ \A i \in 1..(Len(s) - n) : Front(s, n)[i] = s[i]
  BY DEF Front

\* Sequences of one length with the same elements are equal.
LEMMA SameSequence ==
    ASSUME NEW S, NEW s \in Seq(S), NEW t \in Seq(S), Len(s) = Len(t),
           \A i \in 1..Len(t) : s[i] = t[i]
    PROVE  s = t
<1>1. /\ DOMAIN s = 1..Len(s) /\ DOMAIN t = 1..Len(t)
      /\ s = [i \in DOMAIN s |-> s[i]] /\ t = [i \in DOMAIN t |-> t[i]]
  OBVIOUS
<1> QED
  BY <1>1

\* A sequence with these properties is the front.
LEMMA FrontIs ==
    ASSUME NEW S, NEW s \in Seq(S), NEW n \in 0..Len(s), NEW t \in Seq(S),
           Len(t) = Len(s) - n, \A i \in 1..(Len(s) - n) : t[i] = s[i]
    PROVE  Front(s, n) = t
<1>1. PICK f \in Seq(S) : /\ f = Front(s, n) /\ Len(f) = Len(t)
                          /\ \A i \in 1..Len(t) : f[i] = t[i]
  <2>1. /\ Front(s, n) \in Seq(S) /\ Len(Front(s, n)) = Len(s) - n
        /\ \A i \in 1..(Len(s) - n) : Front(s, n)[i] = s[i]
    BY FrontProperties
  <2> QED
    BY <2>1
<1> QED
  BY <1>1, SameSequence

LEMMA FrontAppend ==
    ASSUME NEW S, NEW s \in Seq(S), NEW e \in S, NEW n \in 0..Len(s)
    PROVE  /\ Front(Append(s, e), n + 1) = Front(s, n)
           /\ n = 0 => Front(Append(s, e), n) = Append(Front(s, n), e)
<1>1. PICK r \in Seq(S) : /\ r = Append(s, e) /\ Len(r) = Len(s) + 1 /\ Len(s) \in Nat
                          /\ \A i \in 1..Len(s) : r[i] = s[i]
  <2>1. /\ Append(s, e) \in Seq(S) /\ Len(Append(s, e)) = Len(s) + 1 /\ Len(s) \in Nat
        /\ \A i \in 1..Len(s) : Append(s, e)[i] = s[i]
    BY AppendHolds
  <2> QED
    BY <2>1
<1>2. PICK f \in Seq(S) : /\ f = Front(s, n) /\ Len(f) = Len(s) - n
                          /\ \A i \in 1..(Len(s) - n) : f[i] = s[i]
  BY FrontProperties
<1>3. Front(r, n + 1) = f
  <2>1. n + 1 \in 0..Len(r) /\ Len(f) = Len(r) - (n + 1)
    BY <1>1, <1>2
  <2>2. ASSUME NEW i \in 1..(Len(r) - (n + 1)) PROVE f[i] = r[i]
    <3>1. i \in 1..Len(s) /\ i \in 1..(Len(s) - n)
      BY <1>1
    <3> QED
      BY <1>1, <1>2, <3>1
  <2> QED
    BY <2>1, <2>2, FrontIs
<1>4. Front(s, 0) = s
  <2>1. 0 \in 0..Len(s) /\ Len(s) = Len(s) - 0 /\ \A i \in 1..(Len(s) - 0) : s[i] = s[i]
    BY <1>1
  <2> QED
    BY <2>1, FrontIs
<1>5. Front(r, 0) = r
  <2>1. 0 \in 0..Len(r) /\ Len(r) = Len(r) - 0 /\ \A i \in 1..(Len(r) - 0) : r[i] = r[i]
    BY <1>1
  <2> QED
    BY <2>1, FrontIs
<1> QED
  BY <1>1, <1>2, <1>3, <1>4, <1>5

LEMMA FrontTail ==
    ASSUME NEW S, NEW s \in Seq(S), s # <<>>, NEW n \in 0..(Len(s) - 1)
    PROVE  /\ Front(s, n) # <<>> /\ Head(Front(s, n)) = Head(s)
           /\ Front(Tail(s), n) = Tail(Front(s, n))
<1>1. PICK r \in Seq(S) : /\ r = Tail(s) /\ Len(r) = Len(s) - 1
                          /\ Len(s) \in Nat /\ Len(s) >= 1 /\ Head(s) = s[1]
                          /\ \A i \in 1..(Len(s) - 1) : r[i] = s[i + 1]
  <2>1. Len(s) \in Nat
    OBVIOUS
  <2> QED
    BY <2>1, TailHolds
<1>2. PICK f \in Seq(S) : /\ f = Front(s, n) /\ Len(f) = Len(s) - n
                          /\ \A i \in 1..(Len(s) - n) : f[i] = s[i]
  <2>1. n \in 0..Len(s)
    BY <1>1
  <2> QED
    BY <2>1, FrontProperties
<1>3. Len(f) >= 1 /\ f # <<>> /\ Head(f) = f[1] /\ f[1] = s[1]
  BY <1>1, <1>2
<1>4. PICK t \in Seq(S) : /\ t = Tail(f) /\ Len(t) = Len(f) - 1
                          /\ \A i \in 1..(Len(f) - 1) : t[i] = f[i + 1]
  <2>1. f # <<>>
    BY <1>3
  <2> HIDE <1>1, <1>2, <1>3
  <2>2. /\ Tail(f) \in Seq(S) /\ Len(Tail(f)) = Len(f) - 1
        /\ \A i \in 1..(Len(f) - 1) : Tail(f)[i] = f[i + 1]
    BY <2>1, TailHolds
  <2> QED
    BY <2>2, Zenon
<1>5. n \in 0..Len(r) /\ Len(t) = Len(r) - n
  <2>1. Len(r) = Len(s) - 1 /\ Len(t) = Len(s) - n - 1
    BY <1>1, <1>2, <1>4
  <2> QED
    BY <1>1, <2>1
<1>6. ASSUME NEW i \in 1..(Len(r) - n) PROVE t[i] = r[i]
  <2>1. /\ i \in 1..(Len(s) - 1) /\ i \in 1..(Len(f) - 1) /\ i + 1 \in 1..(Len(s) - n)
    BY <1>1, <1>2
  <2> QED
    BY <1>1, <1>2, <1>4, <2>1
<1>7. Front(r, n) = t
  BY <1>5, <1>6, FrontIs
<1> QED
  BY <1>1, <1>2, <1>3, <1>4, <1>7

LEMMA FrontRemove ==
    ASSUME NEW S, NEW s \in Seq(S), NEW n \in 0..Len(s), NEW i \in 1..(Len(s) - n)
    PROVE  /\ i \in 1..Len(Front(s, n)) /\ Front(s, n)[i] = s[i]
           /\ Front(Remove(s, i), n) = Remove(Front(s, n), i)
<1>1. Len(s) \in Nat /\ i \in 1..Len(s) /\ n \in 0..(Len(s) - 1)
  OBVIOUS
<1>2. PICK f \in Seq(S) : /\ f = Front(s, n) /\ Len(f) = Len(s) - n
                          /\ \A j \in 1..(Len(s) - n) : f[j] = s[j]
  BY FrontProperties
<1>3. i \in 1..Len(f)
  BY <1>2
<1>4. PICK t \in Seq(S) :
          /\ t = Remove(f, i) /\ Len(t) = Len(f) - 1
          /\ \A j \in 1..(Len(f) - 1) : t[j] = IF j < i THEN f[j] ELSE f[j + 1]
  BY <1>3, RemoveHolds
<1>5. PICK r \in Seq(S) :
          /\ r = Remove(s, i) /\ Len(r) = Len(s) - 1
          /\ \A j \in 1..(Len(s) - 1) : r[j] = IF j < i THEN s[j] ELSE s[j + 1]
  BY <1>1, RemoveHolds
<1>6. n \in 0..Len(r) /\ Len(t) = Len(r) - n
  BY <1>1, <1>2, <1>4, <1>5
<1>7. ASSUME NEW j \in 1..(Len(r) - n) PROVE t[j] = r[j]
  <2>1. /\ j \in 1..(Len(s) - 1) /\ j \in 1..(Len(f) - 1)
        /\ j \in 1..(Len(s) - n) /\ j + 1 \in 1..(Len(s) - n)
    BY <1>1, <1>2, <1>5
  <2> QED
    BY <1>2, <1>4, <1>5, <2>1
<1>8. Front(r, n) = t
  BY <1>6, <1>7, FrontIs
<1> QED
  BY <1>2, <1>3, <1>4, <1>5, <1>8
-----------------------------------------------------------------------------
(* The status of a task *)

StatusOf(c, waits, runs) ==
    IF c = "new" THEN "new"
    ELSE IF c = "gaveUp" THEN "withdrawn"
    ELSE IF waits THEN "pending"
    ELSE IF runs THEN "running"
    ELSE "done"

LEMMA StatusIs ==
    /\ status = [k \in Tasks |-> StatusOf(client[k], Holds(queue, k), Runs(worker, k))]
    /\ status' = [k \in Tasks |-> StatusOf(client'[k], Holds(queue', k), Runs(worker', k))]
<1>1. ASSUME NEW c, NEW q \in BOOLEAN, NEW r \in BOOLEAN
      PROVE  (CASE c = "new" -> "new"
                [] c = "gaveUp" -> "withdrawn"
                [] c \notin {"new", "gaveUp"} /\ q -> "pending"
                [] c \notin {"new", "gaveUp"} /\ ~q /\ r -> "running"
                [] OTHER -> "done") = StatusOf(c, q, r)
  <2>1. CASE c = "new"
    BY <2>1 DEF StatusOf
  <2>2. CASE c = "gaveUp"
    BY <2>2 DEF StatusOf
  <2>3. CASE c \notin {"new", "gaveUp"} /\ q
    BY <2>3 DEF StatusOf
  <2>4. CASE c \notin {"new", "gaveUp"} /\ ~q /\ r
    BY <2>4 DEF StatusOf
  <2>5. CASE c \notin {"new", "gaveUp"} /\ ~q /\ ~r
    BY <2>5 DEF StatusOf
  <2> QED
    BY <2>1, <2>2, <2>3, <2>4, <2>5
<1>2. /\ \A k : InQueue(k) = Holds(queue, k) /\ AtWorker(k) = Runs(worker, k)
      /\ \A k : InQueue(k)' = Holds(queue', k) /\ AtWorker(k)' = Runs(worker', k)
  BY DEF InQueue, AtWorker, Holds, Runs
<1>3. /\ \A k : Holds(queue, k) \in BOOLEAN /\ Runs(worker, k) \in BOOLEAN
      /\ \A k : Holds(queue', k) \in BOOLEAN /\ Runs(worker', k) \in BOOLEAN
  BY DEF Holds, Runs
<1>4. status = [k \in Tasks |-> StatusOf(client[k], Holds(queue, k), Runs(worker, k))]
  BY <1>1, <1>2, <1>3 DEF status
<1>5. status' = [k \in Tasks |-> StatusOf(client'[k], Holds(queue', k), Runs(worker', k))]
  BY <1>1, <1>2, <1>3 DEF status
<1> QED
  BY <1>4, <1>5

\* No status changes in a step after which each task is where it was.
LEMMA StatusSame ==
    ASSUME \A k \in Tasks :
              StatusOf(client'[k], Holds(queue', k), Runs(worker', k)) =
              StatusOf(client[k], Holds(queue, k), Runs(worker, k))
    PROVE  status' = status
  BY StatusIs

\* One status changes in a step after which each other task is where it was.
LEMMA StatusOne ==
    ASSUME NEW k \in Tasks, NEW v,
           StatusOf(client'[k], Holds(queue', k), Runs(worker', k)) = v,
           \A j \in Tasks \ {k} :
              StatusOf(client'[j], Holds(queue', j), Runs(worker', j)) =
              StatusOf(client[j], Holds(queue, j), Runs(worker, j))
    PROVE  status' = [status EXCEPT ![k] = v]
  BY StatusIs

-----------------------------------------------------------------------------
(* Each step is one of TaskPool, or leaves its variables alone.             *)

Waiting == Front(queue, Unfetched)

LEMMA PoolIs ==
    /\ Pool!vars = <<Waiting, status>>
    /\ Pool!vars' = <<Waiting', status'>>
    /\ \A k \in Tasks :
        /\ status[k] = "new" /\ Waiting' = Append(Waiting, k)
              /\ status' = [status EXCEPT ![k] = "pending"] => Pool!Next
        /\ status[k] = "running" /\ Waiting' = Waiting
              /\ status' = [status EXCEPT ![k] = "done"] => Pool!Next
        /\ status[k] = "pending"
              /\ status' = [status EXCEPT ![k] = "withdrawn"]
              /\ (\E i \in 1..Len(Waiting) : Waiting[i] = k /\ Waiting' = Remove(Waiting, i))
              => Pool!Next
    /\ Waiting # <<>> /\ Waiting' = Tail(Waiting)
          /\ status' = [status EXCEPT ![Head(Waiting)] = "running"] => Pool!Next
<1>1. Pool!vars = <<Waiting, status>> /\ Pool!vars' = <<Waiting', status'>>
  BY DEF Pool!vars, Waiting, Front
<1>2. ASSUME NEW k \in Tasks, status[k] = "new", Waiting' = Append(Waiting, k),
             status' = [status EXCEPT ![k] = "pending"]
      PROVE  Pool!Next
  BY <1>2 DEF Pool!Next, Pool!Submit, Waiting, Front
<1>3. ASSUME NEW k \in Tasks, status[k] = "running", Waiting' = Waiting,
             status' = [status EXCEPT ![k] = "done"]
      PROVE  Pool!Next
  BY <1>3 DEF Pool!Next, Pool!Finish, Waiting, Front
<1>4. ASSUME NEW k \in Tasks, status[k] = "pending",
             status' = [status EXCEPT ![k] = "withdrawn"],
             NEW i \in 1..Len(Waiting), Waiting[i] = k, Waiting' = Remove(Waiting, i)
      PROVE  Pool!Next
  BY <1>4 DEF Pool!Next, Pool!Withdraw, Waiting, Front, Remove
<1>5. ASSUME Waiting # <<>>, Waiting' = Tail(Waiting),
             status' = [status EXCEPT ![Head(Waiting)] = "running"]
      PROVE  Pool!Next
  BY <1>5 DEF Pool!Next, Pool!Start, Waiting, Front
<1> QED
  BY <1>1, <1>2, <1>3, <1>4, <1>5

\* A step that neither moves a task nor lets its client begin or give up.
LEMMA StillStutters ==
    ASSUME NEW k \in Tasks, TypeOK, Still(k)
    PROVE  UNCHANGED Pool!vars
<1>1. UNCHANGED <<queue, worker, pushed>>
  BY DEF Still, Get, GetReturn, Expire, ExpiredLate, SpuriousWakeup, Destroy
<1>2. Waiting' = Waiting
  BY <1>1 DEF Waiting, Unfetched, Exited
<1>3. ASSUME NEW j \in Tasks
      PROVE  client'[j] = client[j]
             \/ (client[j] \notin {"new", "gaveUp"} /\ client'[j] \notin {"new", "gaveUp"})
  <2>1. \A l \in Tasks : l # k => client'[l] = client[l]
    BY DEF Still, Get, GetReturn, Expire, ExpiredLate, SpuriousWakeup, Destroy, ClientAt, TypeOK
  <2>2. client[k] \notin {"new", "gaveUp"} /\ client'[k] \notin {"new", "gaveUp"}
    BY DEF Still, Get, GetReturn, Expire, ExpiredLate, SpuriousWakeup, Destroy, ClientAt, TypeOK
  <2>3. CASE j = k
    BY <2>2, <2>3, Zenon
  <2>4. CASE j # k
    BY <2>1, <2>4, Zenon
  <2> QED
    BY <2>3, <2>4
<1>4. ASSUME NEW j \in Tasks
      PROVE  StatusOf(client'[j], Holds(queue', j), Runs(worker', j)) =
             StatusOf(client[j], Holds(queue, j), Runs(worker, j))
  BY <1>1, <1>3 DEF StatusOf
<1> QED
  BY <1>2, <1>4, StatusSame, PoolIs

LEMMA PoolImplements ==
    ASSUME NullAssumption, WorkersAssumption, PoolInv, Next
    PROVE  Pool!Next \/ UNCHANGED Pool!vars
<1> USE NullAssumption, WorkersAssumption DEF PoolInv
<1>0. /\ EndsIn(queue, Unfetched) /\ queue \in Seq(Tasks \cup {NULL}) /\ Len(queue) \in Nat
      /\ Unfetched \in 0..Len(queue)
      /\ \A k \in Tasks : client[k] \in {"new", "gaveUp"} => ~Holds(queue, k) /\ ~Runs(worker, k)
  BY Places DEF LastTasks, EndsIn, TypeOK, FlagsTell
<1>1. ASSUME NEW k \in Tasks, Apply(k) PROVE Pool!Next
  <2>1. /\ joining = "no" /\ queue' = Append(queue, k) /\ client[k] = "new"
        /\ client' = [client EXCEPT ![k] = "holds"]
        /\ Push(k) /\ UNCHANGED <<worker, pushed>>
    BY <1>1 DEF Apply, Push, ClientAt
  <2>2. Unfetched = 0 /\ Unfetched' = 0
    BY <1>0, <2>1, ExitedCount DEF LastTasks, Unfetched, Exited
  <2>3. Waiting' = Append(Waiting, k)
    BY <1>0, <2>1, <2>2, FrontAppend DEF Waiting
  <2>4. \A j \in Tasks : Holds(queue', j) <=> Holds(queue, j) \/ j = k
    BY <1>0, <2>1, PushPlaces
  <2>5. StatusOf(client'[k], Holds(queue', k), Runs(worker', k)) = "pending"
    BY <2>1, <2>4 DEF StatusOf, TypeOK
  <2>6. \A j \in Tasks \ {k} : StatusOf(client'[j], Holds(queue', j), Runs(worker', j)) =
                               StatusOf(client[j], Holds(queue, j), Runs(worker, j))
    BY <2>1, <2>4 DEF StatusOf, TypeOK
  <2>7. status[k] = "new"
    BY <2>1, StatusIs DEF StatusOf
  <2>8. status' = [status EXCEPT ![k] = "pending"]
    BY <2>5, <2>6, StatusOne
  <2> QED
    BY <2>3, <2>7, <2>8, PoolIs
<1>2. ASSUME NEW w \in Workers, Fetch(w), Head(queue) = NULL PROVE UNCHANGED Pool!vars
  <2>1. queue # <<>> /\ queue' = Tail(queue) /\ UNCHANGED <<pushed, client>>
    BY <1>2 DEF Fetch
  <2>2. Cardinality(Exited') = Cardinality(Exited) + 1 /\ Cardinality(Exited) \in Nat /\ pushed \in Nat
    BY <1>2, FetchExited, ExitedCount DEF TypeOK
  <2>3. Unfetched' = Unfetched - 1
    BY <2>1, <2>2 DEF Unfetched
  <2>4. Unfetched = Len(queue)
    BY <1>0, <1>2, <2>1, TailEnds
  <2>5. Unfetched' = Len(queue')
    BY <1>0, <2>1, <2>3, <2>4, TailHolds
  <2>6. queue' \in Seq(Tasks \cup {NULL}) /\ Len(queue') \in Nat
    BY <1>0, <2>1
  <2>7. Waiting = <<>> /\ Waiting' = <<>>
    BY <1>0, <2>4, <2>5, <2>6 DEF Waiting, Front
  <2>8. \A j \in Tasks : /\ Holds(queue', j) <=> Holds(queue, j)
                         /\ Runs(worker', j) <=> Runs(worker, j)
    BY <1>2, FetchPlaces
  <2>9. \A j \in Tasks : StatusOf(client'[j], Holds(queue', j), Runs(worker', j)) =
                         StatusOf(client[j], Holds(queue, j), Runs(worker, j))
    BY <2>1, <2>8 DEF StatusOf
  <2> QED
    BY <2>7, <2>9, StatusSame, PoolIs
<1>3. ASSUME NEW w \in Workers, Fetch(w), Head(queue) # NULL PROVE Pool!Next
  <2>1. queue # <<>> /\ queue' = Tail(queue) /\ UNCHANGED <<pushed, client>>
    BY <1>3 DEF Fetch
  <2>2. PICK k \in Tasks : k = Head(queue)
    BY <1>3, FetchPlaces
  <2>3. Unfetched' = Unfetched
    BY <1>3, <2>1, FetchExited DEF Unfetched
  <2>4. Unfetched \in 0..(Len(queue) - 1)
    BY <1>0, <1>3, <2>1, <2>3, TailEnds
  <2>5. Waiting # <<>> /\ Head(Waiting) = k /\ Waiting' = Tail(Waiting)
    BY <1>0, <2>1, <2>2, <2>3, <2>4, FrontTail DEF Waiting
  <2>6. \A j \in Tasks : /\ Holds(queue', j) <=> Holds(queue, j) /\ j # k
                         /\ Runs(worker', j) <=> Runs(worker, j) \/ j = k
    BY <1>3, <2>2, FetchPlaces
  <2>7. Holds(queue, k)
    BY <1>3, <2>2, FetchPlaces
  <2>8. StatusOf(client'[k], Holds(queue', k), Runs(worker', k)) = "running"
    BY <1>0, <2>1, <2>6, <2>7 DEF StatusOf
  <2>9. \A j \in Tasks \ {k} : StatusOf(client'[j], Holds(queue', j), Runs(worker', j)) =
                               StatusOf(client[j], Holds(queue, j), Runs(worker, j))
    BY <2>1, <2>6 DEF StatusOf
  <2>10. status' = [status EXCEPT ![k] = "running"]
    BY <2>8, <2>9, StatusOne
  <2> QED
    BY <2>5, <2>10, PoolIs
<1>4. ASSUME NEW w \in Workers, MarkRunning(w) PROVE UNCHANGED Pool!vars
  <2>1. UNCHANGED <<queue, client, pushed>>
    BY <1>4 DEF MarkRunning
  <2>2. Exited' = Exited
    BY <1>4, MarkPlaces DEF MarkRunning, Exited
  <2>3. Waiting' = Waiting
    BY <2>1, <2>2 DEF Waiting, Unfetched
  <2>4. \A j \in Tasks : Runs(worker', j) <=> Runs(worker, j)
    BY <1>4, MarkPlaces
  <2>5. \A j \in Tasks : StatusOf(client'[j], Holds(queue', j), Runs(worker', j)) =
                         StatusOf(client[j], Holds(queue, j), Runs(worker, j))
    BY <2>1, <2>4 DEF StatusOf
  <2> QED
    BY <2>3, <2>5, StatusSame, PoolIs
<1>5. ASSUME NEW w \in Workers, Finish(w) PROVE Pool!Next
  <2>1. UNCHANGED <<queue, pushed>>
    BY <1>5 DEF Finish
  <2>2. Exited' = Exited
    BY <1>5, FinishPlaces DEF Exited
  <2>3. Waiting' = Waiting
    BY <2>1, <2>2 DEF Waiting, Unfetched
  <2>4. PICK k \in Tasks : k = worker[w].task
    BY <1>5, FinishPlaces
  <2>5. \A j \in Tasks : Runs(worker', j) <=> Runs(worker, j) /\ j # k
    BY <1>5, <2>4, FinishPlaces
  <2>6. Runs(worker, k) /\ ~Holds(queue, k)
    BY <2>4 DEF Runs, OnePlace, EachOnce
  <2>7. ASSUME NEW j \in Tasks
        PROVE  client'[j] = client[j]
               \/ (client[j] \notin {"new", "gaveUp"} /\ client'[j] \notin {"new", "gaveUp"})
    <3>1. client' = client \/ client' = Woken(k)
      BY <1>5, <2>4 DEF Finish
    <3>2. Woken(k) = client \/ /\ client[k] \in {"get", "timedGet", "lateGet"}
                               /\ Woken(k) = [client EXCEPT ![k] = "woken"]
      BY DEF Woken
    <3>3. client' = client \/ /\ client[k] \notin {"new", "gaveUp"}
                              /\ client' = [client EXCEPT ![k] = "woken"]
      BY <3>1, <3>2
    <3>4. CASE j = k
      BY <3>3, <3>4 DEF TypeOK
    <3>5. CASE j # k
      BY <3>3, <3>5 DEF TypeOK
    <3> QED
      BY <3>4, <3>5
  <2>8. status[k] = "running"
    BY <1>0, <2>6, StatusIs DEF StatusOf
  <2>9. StatusOf(client'[k], Holds(queue', k), Runs(worker', k)) = "done"
    BY <1>0, <2>1, <2>5, <2>6, <2>7 DEF StatusOf
  <2>10. \A j \in Tasks \ {k} : StatusOf(client'[j], Holds(queue', j), Runs(worker', j)) =
                                StatusOf(client[j], Holds(queue, j), Runs(worker, j))
    BY <2>1, <2>5, <2>7 DEF StatusOf
  <2>11. status' = [status EXCEPT ![k] = "done"]
    BY <2>9, <2>10, StatusOne
  <2> QED
    BY <2>3, <2>8, <2>11, PoolIs
<1>6. ASSUME NEW k \in Tasks, ExpiredWithdraw(k) PROVE Pool!Next
  <2>1. /\ UNCHANGED <<worker, pushed>> /\ client[k] = "expired"
        /\ client' = [client EXCEPT ![k] = "gaveUp"]
    BY <1>6 DEF ExpiredWithdraw, ClientAt
  <2>2. PICK i \in 1..Len(queue) : queue[i] = k /\ queue' = Remove(queue, i)
    BY <1>6 DEF ExpiredWithdraw, Without, Remove
  <2>3. Unfetched' = Unfetched
    BY <2>1 DEF Unfetched, Exited
  <2>4. i \in 1..(Len(queue) - Unfetched)
    BY <1>0, <2>2 DEF EndsIn
  <2>5. i \in 1..Len(Waiting) /\ Waiting[i] = k /\ Waiting' = Remove(Waiting, i)
    BY <1>0, <2>2, <2>3, <2>4, FrontRemove DEF Waiting
  <2>6. Holds(queue, k) /\ \A j \in Tasks : Holds(queue', j) <=> Holds(queue, j) /\ j # k
    BY <1>6, WithdrawPlaces
  <2>7. status[k] = "pending"
    BY <2>1, <2>6, StatusIs DEF StatusOf
  <2>8. StatusOf(client'[k], Holds(queue', k), Runs(worker', k)) = "withdrawn"
    BY <2>1 DEF StatusOf, TypeOK
  <2>9. \A j \in Tasks \ {k} : StatusOf(client'[j], Holds(queue', j), Runs(worker', j)) =
                               StatusOf(client[j], Holds(queue, j), Runs(worker, j))
    BY <2>1, <2>6 DEF StatusOf, TypeOK
  <2>10. status' = [status EXCEPT ![k] = "withdrawn"]
    BY <2>8, <2>9, StatusOne
  <2> QED
    BY <2>5, <2>7, <2>10, PoolIs
<1>7. ASSUME JoinBegin \/ JoinReturn PROVE UNCHANGED Pool!vars
  <2>1. UNCHANGED <<queue, worker, pushed, client>>
    BY <1>7 DEF JoinBegin, JoinReturn
  <2>2. Waiting' = Waiting
    BY <2>1 DEF Waiting, Unfetched, Exited
  <2> QED
    BY <2>1, <2>2, StatusSame, PoolIs
<1>8. ASSUME JoinPush PROVE UNCHANGED Pool!vars
  <2>1. queue' = Append(queue, NULL) /\ Push(NULL) /\ pushed' = pushed + 1 /\ UNCHANGED <<worker, client>>
    BY <1>8 DEF JoinPush, Push
  <2>2. pushed \in Nat /\ Cardinality(Exited) \in Nat /\ Exited' = Exited
    BY <2>1, ExitedCount DEF TypeOK, Exited
  <2>3. Unfetched' = Unfetched + 1
    BY <2>1, <2>2 DEF Unfetched
  <2>4. Waiting' = Waiting
    BY <1>0, <2>1, <2>3, FrontAppend DEF Waiting
  <2>5. \A j \in Tasks : Holds(queue', j) <=> Holds(queue, j)
    BY <2>1, PushPlaces
  <2>6. \A j \in Tasks : StatusOf(client'[j], Holds(queue', j), Runs(worker', j)) =
                         StatusOf(client[j], Holds(queue, j), Runs(worker, j))
    BY <2>1, <2>5 DEF StatusOf
  <2> QED
    BY <2>4, <2>6, StatusSame, PoolIs
<1>9. ASSUME NEW k \in Tasks, Still(k) PROVE UNCHANGED Pool!vars
  BY <1>9, StillStutters
<1> QED
  BY <1>1, <1>2, <1>3, <1>4, <1>5, <1>6, <1>7, <1>8, <1>9 DEF Next, Work, Answer, Join, Still

\* Tasks start in the order they were applied in, run once, and are withdrawn
\* only by a get whose time was over before they started: the pool implements
\* TaskPool (tpool_apply, jobqueue_fetch, tpool_future_get).
THEOREM PoolIsTaskPool == Spec => ImplementsTaskPool
<1>1. Init => Pool!Init
  <2> SUFFICES ASSUME Init PROVE Pool!Init
    OBVIOUS
  <2>1. Len(queue) = 0 /\ Unfetched = 0 /\ queue = <<>>
    <3>1. Exited = {} /\ Cardinality({}) = 0
      BY FS_EmptySet DEF Init, Exited
    <3> QED
      BY <3>1 DEF Init, Unfetched
  <2>2. SubSeq(queue, 1, Len(queue) - Unfetched) = <<>>
    BY <2>1
  <2>3. status = [k \in Tasks |-> "new"]
    BY StatusIs DEF Init, StatusOf
  <2> QED
    BY <2>2, <2>3 DEF Pool!Init
<1>2. PoolInv /\ [Next]_vars => [Pool!Next]_(Pool!vars)
  <2>1. ASSUME UNCHANGED vars PROVE UNCHANGED Pool!vars
    BY <2>1 DEF vars, Pool!vars, status, Unfetched, Exited, InQueue, AtWorker
  <2> QED
    BY <2>1, PoolImplements, NullAssumption, WorkersAssumption
<1> QED
  BY <1>1, <1>2, PoolInvariant, PTL DEF Spec, ImplementsTaskPool
=============================================================================
