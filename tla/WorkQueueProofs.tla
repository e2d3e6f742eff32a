-------------------------- MODULE WorkQueueProofs --------------------------
(***************************************************************************)
(* Proofs about WorkQueue, for any finite non-empty set of workers, any    *)
(* set of jobs and any number of shutdowns.                                *)
(***************************************************************************)
EXTENDS WorkQueue, FiniteSetTheorems, TLAPS

(* Every disjunct of Next by name: the shape of all the proofs below.      *)
LEMMA NextCases ==
    ASSUME [Next]_vars
    PROVE  \/ \E w \in Worker : init_create(w)
           \/ init_next
           \/ init_link
           \/ init_fail
           \/ \E j \in Job : add_call(j)
           \/ add_lock
           \/ add_push
           \/ \E w \in Worker : worker_lock(w)
           \/ \E w \in Worker : worker_test(w)
           \/ \E w \in Worker : worker_spurious(w)
           \/ \E w \in Worker : worker_break(w)
           \/ \E w \in Worker : worker_take(w)
           \/ \E w \in Worker : worker_finish(w)
           \/ \E w \in Worker : worker_exit(w)
           \/ shutdown_call
           \/ shutdown_mark
           \/ shutdown_next
           \/ shutdown_lock
           \/ shutdown_clear
           \/ UNCHANGED vars
  BY DEF Next, init_step, add_step, worker_step, shutdown_step

-----------------------------------------------------------------------------

(* TypeOK is inductive by itself.                                          *)
LEMMA TypeOKInductive == TypeOK /\ [Next]_vars => TypeOK'
<1> SUFFICES ASSUME TypeOK, [Next]_vars PROVE TypeOK'
  OBVIOUS
<1> USE NameAssumption, BoundAssumption DEF TypeOK, WorkerPC
<1>1. CASE \E w \in Worker : init_create(w)
  BY <1>1 DEF init_create, addVars, shutVars
<1>2. CASE init_next
  BY <1>2 DEF init_next, addVars, shutVars
<1>3. CASE init_link
  <2>1. workers' \in Seq(Worker)
    BY <1>3, Stack!PushProperties DEF init_link
  <2>2. QED
    BY <1>3, <2>1 DEF init_link, addVars, shutVars
<1>4. CASE init_fail
  BY <1>4 DEF init_fail, addVars, shutVars
<1>5. CASE \E j \in Job : add_call(j)
  BY <1>5 DEF add_call, initVars, shutVars
<1>6. CASE add_lock
  BY <1>6 DEF add_lock, initVars, shutVars
<1>7. CASE add_push
  <2>1. waiting_jobs' \in Seq(Job)
    BY <1>7, Stack!PushProperties DEF add_push
  <2>2. pc' \in [Worker -> WorkerPC]
        /\ \A w \in Worker : pc'[w] = "run" => pc[w] = "run"
    BY <1>7 DEF add_push, cond_signal, Sleeping
  <2>3. QED
    BY <1>7, <2>1, <2>2 DEF add_push, initVars, shutVars
<1>8. CASE \E w \in Worker : worker_lock(w)
  BY <1>8 DEF worker_lock, initVars, addVars, shutVars
<1>9. CASE \E w \in Worker : worker_test(w)
  <2>1. PICK w \in Worker : worker_test(w)
    BY <1>9
  <2>2. /\ pc' \in [Worker -> WorkerPC]
        /\ \A v \in Worker : pc'[v] = "run" => pc[v] = "run"
        /\ jobs_mutex' \in {jobs_mutex, NULL}
    BY <2>1 DEF worker_test
  <2>3. QED
    BY <2>1, <2>2 DEF worker_test, initVars, addVars, shutVars
<1>10. CASE \E w \in Worker : worker_spurious(w)
  BY <1>10 DEF worker_spurious, initVars, addVars, shutVars
<1>11. CASE \E w \in Worker : worker_break(w)
  BY <1>11 DEF worker_break, initVars, addVars, shutVars
<1>12. CASE \E w \in Worker : worker_take(w)
  <2>1. PICK w \in Worker : worker_take(w)
    BY <1>12
  <2>2. CASE waiting_jobs = <<>>
    BY <2>1, <2>2 DEF worker_take, initVars, addVars, shutVars
  <2>3. CASE waiting_jobs # <<>>
    <3>1. Head(waiting_jobs) \in Job /\ Tail(waiting_jobs) \in Seq(Job)
      BY <2>3
    <3>2. /\ job' = [job EXCEPT ![w] = Head(waiting_jobs)]
          /\ waiting_jobs' = Tail(waiting_jobs)
          /\ pc' = [pc EXCEPT ![w] = "run"]
      BY <2>1, <2>3 DEF worker_take
    <3>3. /\ job' \in [Worker -> Job \cup {NULL}]
          /\ pc' \in [Worker -> WorkerPC]
          /\ \A v \in Worker : pc'[v] = "run" => job'[v] \in Job
      BY <3>1, <3>2
    <3>4. QED
      BY <2>1, <3>1, <3>2, <3>3
      DEF worker_take, initVars, addVars, shutVars
  <2>4. QED
    BY <2>2, <2>3
<1>13. CASE \E w \in Worker : worker_finish(w)
  BY <1>13 DEF worker_finish, initVars, addVars, shutVars
<1>14. CASE \E w \in Worker : worker_exit(w)
  BY <1>14 DEF worker_exit, initVars, addVars, shutVars
<1>15. CASE shutdown_call
  BY <1>15 DEF shutdown_call, initVars, addVars
<1>16. CASE shutdown_mark
  <2>1. /\ terminate' \in [Worker -> BOOLEAN]
        /\ dangling' \in BOOLEAN
    BY <1>16 DEF shutdown_mark, Freed
  <2>2. QED
    BY <1>16, <2>1 DEF shutdown_mark, initVars, addVars
<1>17. CASE shutdown_next
  <2>1. dangling' \in BOOLEAN
    BY <1>17 DEF shutdown_next, Freed
  <2>2. walk' \in Seq(Worker)
    <3>1. Tail(walk) \in Seq(Worker) /\ <<>> \in Seq(Worker)
      BY <1>17 DEF shutdown_next
    <3>2. walk' = Tail(walk) \/ walk' = <<>>
      BY <1>17 DEF shutdown_next
    <3>3. QED
      BY <3>1, <3>2
  <2>3. QED
    BY <1>17, <2>1, <2>2 DEF shutdown_next, initVars, addVars
<1>18. CASE shutdown_lock
  BY <1>18 DEF shutdown_lock, initVars, addVars
<1>19. CASE shutdown_clear
  BY <1>19 DEF shutdown_clear, initVars, addVars, Waiting
<1>20. CASE UNCHANGED vars
  BY <1>20 DEF vars, initVars, addVars, shutVars
<1>21. QED
  BY <1>1, <1>2, <1>3, <1>4, <1>5, <1>6, <1>7, <1>8, <1>9, <1>10, <1>11,
     <1>12, <1>13, <1>14, <1>15, <1>16, <1>17, <1>18, <1>19, <1>20, NextCases

(* Type correctness of the work queue, for every instance.                 *)
THEOREM TypeCorrect == Spec => []TypeOK
<1>1. ASSUME Init PROVE TypeOK
  <2>1. terminate \in [Worker -> BOOLEAN] /\ dangling \in BOOLEAN
    BY <1>1 DEF Init
  <2>2. /\ waiting_jobs \in Seq(Job)
        /\ workers \in Seq(Worker)
        /\ link \in Seq(Worker)
        /\ walk \in Seq(Worker)
    BY <1>1 DEF Init
  <2>3. QED
    BY <1>1, <2>1, <2>2, NameAssumption, BoundAssumption
    DEF Init, TypeOK, WorkerPC
<1>2. QED
  BY <1>1, TypeOKInductive, PTL DEF Spec

-----------------------------------------------------------------------------

(* The owner of jobs_mutex: inductive relative to TypeOK.                  *)
LEMMA MutexOwnerInductive ==
    TypeOK /\ MutexOwner /\ [Next]_vars => MutexOwner'
<1> SUFFICES ASSUME TypeOK, MutexOwner, [Next]_vars PROVE MutexOwner'
  OBVIOUS
<1> USE NameAssumption DEF TypeOK, MutexOwner
<1>1. CASE \E w \in Worker : init_create(w)
  BY <1>1 DEF init_create, addVars, shutVars
<1>2. CASE init_next \/ init_link \/ init_fail
  BY <1>2 DEF init_next, init_link, init_fail, addVars, shutVars
<1>3. CASE \E j \in Job : add_call(j)
  BY <1>3 DEF add_call, initVars, shutVars
<1>4. CASE add_lock
  BY <1>4 DEF add_lock, initVars, shutVars
<1>5. CASE add_push
  BY <1>5 DEF add_push, cond_signal, Sleeping, initVars, shutVars
<1>6. CASE \E w \in Worker : worker_lock(w)
  BY <1>6 DEF worker_lock, initVars, addVars, shutVars
<1>7. CASE \E w \in Worker : worker_test(w)
  <2>1. PICK w \in Worker : worker_test(w)
    BY <1>7
  <2>2. UNCHANGED <<add_pc, shut_pc>> /\ jobs_mutex = w
    BY <2>1 DEF worker_test, addVars, shutVars
  <2>3. CASE waiting_jobs = <<>> /\ ~terminate[w]
    <3>1. jobs_mutex' = NULL /\ pc' = [pc EXCEPT ![w] = "wait"]
      BY <2>1, <2>3 DEF worker_test
    <3>2. QED
      BY <2>2, <3>1
  <2>4. CASE ~(waiting_jobs = <<>> /\ ~terminate[w])
    <3>1. jobs_mutex' = jobs_mutex /\ pc' = [pc EXCEPT ![w] = "decide"]
      BY <2>1, <2>4 DEF worker_test
    <3>2. QED
      BY <2>2, <3>1
  <2>5. QED
    BY <2>3, <2>4
<1>8. CASE \E w \in Worker : worker_spurious(w)
  BY <1>8 DEF worker_spurious, initVars, addVars, shutVars
<1>9. CASE \E w \in Worker : worker_break(w)
  BY <1>9 DEF worker_break, initVars, addVars, shutVars
<1>10. CASE \E w \in Worker : worker_take(w)
  BY <1>10 DEF worker_take, initVars, addVars, shutVars
<1>11. CASE \E w \in Worker : worker_finish(w)
  BY <1>11 DEF worker_finish, initVars, addVars, shutVars
<1>12. CASE \E w \in Worker : worker_exit(w)
  BY <1>12 DEF worker_exit, initVars, addVars, shutVars
<1>13. CASE shutdown_call \/ shutdown_mark \/ shutdown_next
  BY <1>13 DEF shutdown_call, shutdown_mark, shutdown_next, initVars, addVars
<1>14. CASE shutdown_lock
  BY <1>14 DEF shutdown_lock, initVars, addVars
<1>15. CASE shutdown_clear
  BY <1>15 DEF shutdown_clear, initVars, addVars
<1>16. CASE UNCHANGED vars
  BY <1>16 DEF vars, initVars, addVars, shutVars
<1>17. QED
  BY <1>1, <1>2, <1>3, <1>4, <1>5, <1>6, <1>7, <1>8, <1>9, <1>10, <1>11,
     <1>12, <1>13, <1>14, <1>15, <1>16, NextCases

(* jobs_mutex is owned by the thread inside a critical section, or by the  *)
(* worker that terminated: it never releases it (workqueue.c:41, 56-57).   *)
THEOREM MutexOwnership == Spec => []MutexOwner
<1>1. Init => MutexOwner
  BY NameAssumption DEF Init, MutexOwner
<1>2. QED
  BY <1>1, TypeCorrect, MutexOwnerInductive, PTL DEF Spec

-----------------------------------------------------------------------------

(* A set of workers is finite.                                             *)
LEMMA WorkerSubset ==
    ASSUME NEW S, S \subseteq Worker
    PROVE  IsFiniteSet(S) /\ Cardinality(S) \in Nat
  BY WorkerAssumption, FS_Subset, FS_CardinalityType

(* worker->terminate is never reset.                                       *)
LEMMA TerminateMonotone ==
    ASSUME TypeOK, [Next]_vars, NEW w \in Worker, terminate[w]
    PROVE  terminate'[w]
<1> USE DEF TypeOK
<1>1. CASE shutdown_mark
  BY <1>1 DEF shutdown_mark
<1>2. CASE ~shutdown_mark
  BY <1>2, NextCases
  DEF init_create, init_next, init_link, init_fail, add_call, add_lock,
      add_push, worker_lock, worker_test, worker_spurious, worker_break,
      worker_take, worker_finish, worker_exit, shutdown_call, shutdown_next,
      shutdown_lock, shutdown_clear, vars
<1>3. QED
  BY <1>1, <1>2

(* NoLostWakeup is inductive relative to TypeOK.  Steps fall into five     *)
(* kinds: those that leave the list alone and let no worker fall asleep,   *)
(* the one that falls asleep on an empty list, a push that wakes a         *)
(* sleeper, a worker that takes a job, and those of a shutdown.            *)
LEMMA NoLostWakeupInductive ==
    TypeOK /\ NoLostWakeup /\ [Next]_vars => NoLostWakeup'
<1> SUFFICES ASSUME TypeOK, NoLostWakeup, [Next]_vars,
                    Sleeping' # {}, \A w \in Worker : ~terminate'[w]
             PROVE  Len(waiting_jobs') <= Cardinality(Awake')
  BY DEF NoLostWakeup
<1> USE DEF TypeOK
<1>1. \A w \in Worker : ~terminate[w]
  BY TerminateMonotone
<1>2. /\ IsFiniteSet(Awake) /\ Cardinality(Awake) \in Nat
      /\ IsFiniteSet(Awake') /\ Cardinality(Awake') \in Nat
  BY WorkerSubset DEF Awake
<1> DEFINE Quiet == /\ waiting_jobs' = waiting_jobs
                    /\ Sleeping' \subseteq Sleeping
                    /\ Awake \subseteq Awake'
<1>3. CASE Quiet
  <2>1. Len(waiting_jobs) <= Cardinality(Awake)
    BY <1>1, <1>3 DEF NoLostWakeup
  <2>2. Cardinality(Awake) <= Cardinality(Awake')
    BY <1>2, <1>3, FS_Subset
  <2>3. Len(waiting_jobs) \in Nat /\ waiting_jobs' = waiting_jobs
    BY <1>3
  <2>4. QED
    BY <1>2, <2>1, <2>2, <2>3
<1>4. CASE \E w \in Worker : worker_test(w)
  <2>1. PICK w \in Worker : worker_test(w)
    BY <1>4
  <2>2. CASE waiting_jobs = <<>>
    BY <1>2, <2>1, <2>2 DEF worker_test
  <2>3. CASE waiting_jobs # <<>>
    BY <1>3, <2>1, <2>3 DEF worker_test, Sleeping, Awake
  <2>4. QED
    BY <2>2, <2>3
<1>5. CASE add_push
  <2>1. Len(waiting_jobs') = Len(waiting_jobs) + 1
    BY <1>5, Stack!PushProperties DEF add_push
  <2>2. PICK v \in Sleeping : pc' = [pc EXCEPT ![v] = "woken"]
    BY <1>5 DEF add_push, cond_signal, Sleeping
  <2>3. Awake' = Awake \cup {v} /\ v \notin Awake
    BY <2>2 DEF Awake, Sleeping
  <2>4. Cardinality(Awake') = Cardinality(Awake) + 1
    BY <1>2, <2>3, FS_AddElement
  <2>5. Len(waiting_jobs) <= Cardinality(Awake)
    BY <1>1, <2>2 DEF NoLostWakeup
  <2>6. Len(waiting_jobs) \in Nat
    OBVIOUS
  <2>7. QED
    BY <1>2, <2>1, <2>4, <2>5, <2>6
<1>6. CASE \E w \in Worker : worker_take(w)
  <2>1. PICK w \in Worker : worker_take(w)
    BY <1>6
  <2>2. CASE waiting_jobs = <<>>
    BY <1>2, <2>1, <2>2 DEF worker_take
  <2>3. CASE waiting_jobs # <<>>
    <3>1. Len(waiting_jobs) \in Nat /\ Len(waiting_jobs') = Len(waiting_jobs) - 1
      BY <2>1, <2>3 DEF worker_take
    <3>2. pc[w] = "decide" /\ pc' = [pc EXCEPT ![w] = "run"]
      BY <2>1, <2>3 DEF worker_take
    <3>3. /\ w \in Awake
          /\ Awake' = Awake \ {w}
          /\ Sleeping' = Sleeping
      BY <3>2 DEF Awake, Sleeping
    <3>4. Cardinality(Awake') = Cardinality(Awake) - 1
      BY <1>2, <3>3, FS_RemoveElement
    <3>5. Len(waiting_jobs) <= Cardinality(Awake)
      BY <1>1, <3>3 DEF NoLostWakeup
    <3>6. QED
      BY <1>2, <3>1, <3>4, <3>5
  <2>4. QED
    BY <2>2, <2>3
<1>7. CASE \E w \in Worker : worker_break(w)
  BY <1>1, <1>7 DEF worker_break
<1>8. CASE shutdown_clear
  BY <1>8 DEF shutdown_clear, Sleeping
<1>9. CASE \E w \in Worker : \/ init_create(w) \/ worker_lock(w)
                             \/ worker_spurious(w) \/ worker_finish(w)
                             \/ worker_exit(w)
  <2>1. Quiet
    BY <1>9 DEF init_create, worker_lock, worker_spurious, worker_finish,
                worker_exit, Sleeping, Awake
  <2>2. QED
    BY <1>3, <2>1
<1>10. CASE pc' = pc /\ waiting_jobs' = waiting_jobs
  BY <1>3, <1>10 DEF Sleeping, Awake
<1>11. QED
  BY <1>4, <1>5, <1>6, <1>7, <1>8, <1>9, <1>10, NextCases
  DEF init_next, init_link, init_fail, add_call, add_lock, shutdown_call,
      shutdown_mark, shutdown_next, shutdown_lock, vars

(* One pthread_cond_signal per job is enough, for any number of workers    *)
(* and jobs (workqueue.c:33-38, 110).                                      *)
THEOREM WakeupsSuffice == Spec => []NoLostWakeup
<1>1. Init => NoLostWakeup
  BY DEF Init, NoLostWakeup, Sleeping
<1>2. QED
  BY <1>1, TypeCorrect, NoLostWakeupInductive, PTL DEF Spec

-----------------------------------------------------------------------------

(* Waiting jobs are distinct as long as JobsOnce holds.                    *)
LEMMA WaitingDistinct ==
    /\ JobsOnce => Stack!Distinct(waiting_jobs)
    /\ Stack!Distinct(waiting_jobs') <=>
         \A i, k \in DOMAIN waiting_jobs' :
            waiting_jobs'[i] = waiting_jobs'[k] => i = k
  BY DEF JobsOnce, Stack!Distinct

(* A waiting job is an element of the list.                                *)
LEMMA WaitingElements ==
    /\ Waiting = Stack!Elements(waiting_jobs)
    /\ Waiting' = Stack!Elements(waiting_jobs')
  BY DEF Waiting, Stack!Elements

(* What a step does to the waiting and the executing jobs.                 *)
LEMMA PushEffect ==
    ASSUME TypeOK, add_push
    PROVE  /\ adding \in Job
           /\ Waiting' = Waiting \cup {adding}
           /\ Executing' = Executing
           /\ \A v \in Worker : pc'[v] = "run" <=> pc[v] = "run"
<1>1. adding \in Job /\ waiting_jobs \in Seq(Job)
  BY DEF TypeOK, add_push
<1>2. waiting_jobs' = <<adding>> \o waiting_jobs
  BY DEF add_push
<1>3. Waiting' = Waiting \cup {adding}
  BY <1>1, <1>2, Stack!PushElements, WaitingElements
<1>4. \A v \in Worker : pc'[v] = "run" <=> pc[v] = "run"
  BY DEF TypeOK, add_push, cond_signal, Sleeping
<1>5. Executing' = Executing
  BY <1>4 DEF add_push, Executing
<1>6. QED
  BY <1>1, <1>3, <1>4, <1>5

(* A worker that takes a job moves it from the waiting to the executing.   *)
LEMMA TakeEffect ==
    ASSUME TypeOK, NEW w \in Worker, worker_take(w), waiting_jobs # <<>>
    PROVE  /\ Waiting = Waiting' \cup {Head(waiting_jobs)}
           /\ Executing' = Executing \cup {Head(waiting_jobs)}
           /\ job' = [job EXCEPT ![w] = Head(waiting_jobs)]
           /\ pc[w] # "run" /\ pc' = [pc EXCEPT ![w] = "run"]
<1>1. /\ job' = [job EXCEPT ![w] = Head(waiting_jobs)]
      /\ waiting_jobs' = Tail(waiting_jobs)
      /\ pc[w] # "run" /\ pc' = [pc EXCEPT ![w] = "run"]
  BY DEF worker_take
<1>2. Waiting = Waiting' \cup {Head(waiting_jobs)}
  <2>1. waiting_jobs \in Seq(Job)
    BY DEF TypeOK
  <2>2. QED
    BY <1>1, <2>1, Stack!PopElements, WaitingElements
<1>3. Executing' = Executing \cup {Head(waiting_jobs)}
  <2> DEFINE h == Head(waiting_jobs)
  <2>1. /\ job' = [job EXCEPT ![w] = h]
        /\ job \in [Worker -> Job \cup {NULL}]
        /\ pc \in [Worker -> WorkerPC]
    BY <1>1 DEF TypeOK
  <2> HIDE DEF h
  <2>2. Executing' = Executing \cup {h}
    BY <1>1, <2>1 DEF Executing
  <2>3. QED
    BY <2>2 DEF h
<1>4. QED
  BY <1>1, <1>2, <1>3

(* A job that ends is executing no more.                                   *)
LEMMA FinishEffect ==
    ASSUME TypeOK, JobsOnce, NEW w \in Worker, worker_finish(w)
    PROVE  /\ job[w] \in Executing
           /\ Executing' = Executing \ {job[w]}
  BY DEF TypeOK, JobsOnce, worker_finish, Executing

(* JobsOnce is inductive relative to TypeOK.                               *)
LEMMA JobsOnceInductive ==
    TypeOK /\ JobsOnce /\ [Next]_vars => JobsOnce'
<1> SUFFICES ASSUME TypeOK, JobsOnce, [Next]_vars PROVE JobsOnce'
  OBVIOUS
<1> USE NameAssumption DEF TypeOK
<1> DEFINE Same == /\ UNCHANGED <<waiting_jobs, done, discarded>>
                   /\ \A v \in Worker : /\ pc'[v] = "run" <=> pc[v] = "run"
                                        /\ pc[v] = "run" => job'[v] = job[v]
<1>1. ASSUME Same, adding' # NULL => adding' = adding \/ Fresh(adding')
      PROVE  JobsOnce'
  <2>1. Waiting' = Waiting
    BY <1>1 DEF Waiting
  <2>2. Executing' = Executing
    <3>1. ASSUME NEW x PROVE x \in Executing' <=> x \in Executing
      BY <1>1 DEF Executing
    <3>2. QED
      BY <3>1
  <2>3. QED
    BY <1>1, <2>1, <2>2 DEF JobsOnce, Fresh
<1>2. CASE \E j \in Job : add_call(j)
  BY <1>1, <1>2 DEF add_call
<1>3. CASE add_push
  <2>1. /\ adding \in Job
        /\ Waiting' = Waiting \cup {adding}
        /\ Executing' = Executing
        /\ \A v \in Worker : pc'[v] = "run" <=> pc[v] = "run"
    BY <1>3, PushEffect
  <2>2. Fresh(adding)
    BY <2>1 DEF JobsOnce
  <2>3. \A i, k \in DOMAIN waiting_jobs' :
          waiting_jobs'[i] = waiting_jobs'[k] => i = k
    <3>1. waiting_jobs' = <<adding>> \o waiting_jobs
      BY <1>3 DEF add_push
    <3>2. adding \notin Stack!Elements(waiting_jobs)
      BY <2>2, WaitingElements DEF Fresh
    <3>3. QED
      BY <2>1, <3>1, <3>2, Stack!PushElements, WaitingDistinct
  <2>4. QED
    BY <1>3, <2>1, <2>2, <2>3 DEF add_push, JobsOnce, Fresh
<1>4. CASE \E w \in Worker : worker_take(w)
  <2>1. PICK w \in Worker : worker_take(w)
    BY <1>4
  <2>2. CASE waiting_jobs = <<>>
    BY <1>1, <2>1, <2>2 DEF worker_take, addVars
  <2>3. CASE waiting_jobs # <<>>
    <3> DEFINE j == Head(waiting_jobs)
    <3>1. /\ Waiting = Waiting' \cup {j}
          /\ Executing' = Executing \cup {j}
          /\ job' = [job EXCEPT ![w] = j]
          /\ pc' = [pc EXCEPT ![w] = "run"]
      BY <2>1, <2>3, TakeEffect
    <3>2. UNCHANGED <<adding, done, discarded>>
      BY <2>1 DEF worker_take, addVars
    <3>3. waiting_jobs' = Tail(waiting_jobs)
      BY <2>1, <2>3 DEF worker_take
    <3>4. /\ \A i, k \in DOMAIN waiting_jobs' :
               waiting_jobs'[i] = waiting_jobs'[k] => i = k
          /\ j \notin Waiting'
      BY <2>3, <3>3, Stack!PopElements, WaitingElements, WaitingDistinct
    <3> HIDE DEF j
    <3>5. \A v \in Worker : pc[v] = "run" => job[v] # j
      <4>1. j \in Waiting
        BY <3>1
      <4>2. j \notin Executing
        BY <4>1 DEF JobsOnce
      <4>3. \A v \in Worker : pc[v] = "run" => job[v] \in Executing
        BY DEF Executing
      <4>4. QED
        BY <4>2, <4>3
    <3>6. \A v, u \in Worker :
            pc'[v] = "run" /\ pc'[u] = "run" /\ job'[v] = job'[u] => v = u
      <4>1. pc \in [Worker -> WorkerPC] /\ job \in [Worker -> Job \cup {NULL}]
        BY DEF TypeOK
      <4>2. /\ pc'[w] = "run" /\ job'[w] = j
            /\ \A v \in Worker \ {w} : pc'[v] = pc[v] /\ job'[v] = job[v]
        BY <3>1, <4>1
      <4>3. QED
        BY <3>5, <4>2 DEF JobsOnce
    <3>7. /\ Waiting' \cap Executing' = {}
          /\ (Waiting' \cup Executing') \cap (done' \cup discarded') = {}
          /\ done' \cap discarded' = {}
      BY <3>1, <3>2, <3>4 DEF JobsOnce
    <3>8. adding' # NULL =>
            adding' \notin Waiting' \cup Executing' \cup done' \cup discarded'
      BY <3>1, <3>2 DEF JobsOnce, Fresh
    <3>9. QED
      BY <3>4, <3>6, <3>7, <3>8 DEF JobsOnce, Fresh
  <2>4. QED
    BY <2>2, <2>3
<1>5. CASE \E w \in Worker : worker_finish(w)
  <2>1. PICK w \in Worker : worker_finish(w)
    BY <1>5
  <2>2. /\ job[w] \in Executing
        /\ Executing' = Executing \ {job[w]}
    BY <2>1, FinishEffect
  <2>3. /\ Waiting' = Waiting
        /\ done' = done \cup {job[w]}
        /\ UNCHANGED <<waiting_jobs, job, adding, discarded>>
        /\ \A v \in Worker : pc'[v] = "run" => pc[v] = "run"
    BY <2>1 DEF worker_finish, Waiting, addVars
  <2>4. QED
    BY <2>2, <2>3 DEF JobsOnce, Fresh
<1>6. CASE shutdown_clear
  <2>1. /\ Waiting' = {}
        /\ waiting_jobs' = <<>>
        /\ discarded' = discarded \cup Waiting
        /\ UNCHANGED <<job, adding, done>>
        /\ \A v \in Worker : pc'[v] = "run" <=> pc[v] = "run"
    BY <1>6 DEF shutdown_clear, Waiting, addVars
  <2>2. Executing' = Executing
    BY <2>1 DEF Executing
  <2>3. QED
    BY <2>1, <2>2 DEF JobsOnce, Fresh
<1>7. CASE \E w \in Worker : \/ init_create(w) \/ worker_lock(w)
                             \/ worker_test(w) \/ worker_spurious(w)
                             \/ worker_break(w) \/ worker_exit(w)
  BY <1>1, <1>7
  DEF init_create, worker_lock, worker_test, worker_spurious, worker_break,
      worker_exit, addVars
<1>8. CASE \/ init_next \/ init_link \/ init_fail \/ add_lock
           \/ shutdown_call \/ shutdown_mark \/ shutdown_next
           \/ shutdown_lock \/ UNCHANGED vars
  BY <1>1, <1>8
  DEF init_next, init_link, init_fail, add_lock, shutdown_call,
      shutdown_mark, shutdown_next, shutdown_lock, vars, addVars
<1>9. QED
  BY <1>2, <1>3, <1>4, <1>5, <1>6, <1>7, <1>8, NextCases

(* Every job is in one place at most, for any number of workers, jobs and  *)
(* shutdowns (workqueue.c:43-53, 100-101, 109).                            *)
THEOREM JobsRunOnce == Spec => []JobsOnce
<1>1. Init => JobsOnce
  BY DEF Init, JobsOnce, Waiting, Executing
<1>2. QED
  BY <1>1, TypeCorrect, JobsOnceInductive, PTL DEF Spec

-----------------------------------------------------------------------------

(* A worker that is not executing a job leaves a slot free.                *)
LEMMA FreeSlot ==
    ASSUME TypeOK, NEW w \in Worker, pc[w] # "run"
    PROVE  Cardinality(Executing) < Cardinality(Worker)
<1> DEFINE Running == {v \in Worker : pc[v] = "run"}
           f == [v \in Running |-> job[v]]
<1>1. /\ IsFiniteSet(Worker) /\ Cardinality(Worker) \in Nat
      /\ IsFiniteSet(Running) /\ Cardinality(Running) \in Nat
  BY WorkerAssumption, WorkerSubset
<1>2. /\ IsFiniteSet(Worker \ {w})
      /\ Cardinality(Worker \ {w}) = Cardinality(Worker) - 1
  BY <1>1, FS_RemoveElement
<1>3. Cardinality(Running) <= Cardinality(Worker \ {w})
  <2>1. Running \in SUBSET (Worker \ {w})
    OBVIOUS
  <2>2. QED
    BY <1>2, <2>1, FS_Subset
<1>4. f \in Surjection(Running, Executing)
  BY DEF Surjection, Executing
<1>5. /\ IsFiniteSet(Executing)
      /\ Cardinality(Executing) <= Cardinality(Running)
  BY <1>1, <1>4, FS_Surjection
<1>6. Cardinality(Executing) \in Nat
  BY <1>5, FS_CardinalityType
<1>7. QED
  BY <1>1, <1>2, <1>3, <1>5, <1>6

(* Every step of the threads is a step of the stack of jobs, or none.      *)
LEMMA StackStep ==
    TypeOK /\ JobsOnce /\ [Next]_vars => [Stack!JSNext]_(Stack!jsvars)
<1> SUFFICES ASSUME TypeOK, JobsOnce, [Next]_vars
             PROVE  Stack!JSNext \/ UNCHANGED Stack!jsvars
  OBVIOUS
<1>1. Stack!Stacked = Waiting
  BY DEF Stack!Stacked, Stack!Elements, Waiting
<1> DEFINE Same == /\ UNCHANGED <<waiting_jobs, done, discarded>>
                   /\ \A v \in Worker : /\ pc'[v] = "run" <=> pc[v] = "run"
                                        /\ pc[v] = "run" => job'[v] = job[v]
<1>2. ASSUME Same PROVE UNCHANGED Stack!jsvars
  <2>1. ASSUME NEW x PROVE x \in Executing' <=> x \in Executing
    BY <1>2 DEF Executing
  <2>2. Executing' = Executing
    BY <2>1
  <2>3. QED
    BY <1>2, <2>2 DEF Stack!jsvars
<1>3. CASE add_push
  <2>1. adding \in Job /\ Executing' = Executing
    BY <1>3, PushEffect
  <2>2. Fresh(adding)
    BY <2>1, NameAssumption DEF JobsOnce
  <2>3. Stack!Submit(adding)
    BY <1>1, <1>3, <2>1, <2>2 DEF add_push, Stack!Submit, Fresh
  <2>4. QED
    BY <2>1, <2>3 DEF Stack!JSNext
<1>4. CASE \E w \in Worker : worker_take(w)
  <2>1. PICK w \in Worker : worker_take(w)
    BY <1>4
  <2>2. CASE waiting_jobs = <<>>
    <3>1. Same
      BY <2>1, <2>2 DEF worker_take, TypeOK
    <3>2. QED
      BY <1>2, <3>1
  <2>3. CASE waiting_jobs # <<>>
    <3>1. Executing' = Executing \cup {Head(waiting_jobs)}
      BY <2>1, <2>3, TakeEffect
    <3>2. Cardinality(Executing) < Cardinality(Worker)
      <4>1. pc[w] # "run"
        BY <2>1 DEF worker_take
      <4>2. QED
        BY <4>1, FreeSlot
    <3>3. waiting_jobs' = Tail(waiting_jobs) /\ UNCHANGED <<done, discarded>>
      BY <2>1, <2>3 DEF worker_take
    <3>4. Stack!Start
      BY <2>3, <3>1, <3>2, <3>3
      DEF Stack!Start, Stack!Cardinality, Cardinality
    <3>5. QED
      BY <3>4 DEF Stack!JSNext
  <2>4. QED
    BY <2>2, <2>3
<1>5. CASE \E w \in Worker : worker_finish(w)
  <2>1. PICK w \in Worker : worker_finish(w)
    BY <1>5
  <2>2. job[w] \in Executing /\ Executing' = Executing \ {job[w]}
    BY <2>1, FinishEffect
  <2>3. job[w] \in Job
    BY <2>1 DEF worker_finish, TypeOK
  <2>4. Stack!Finish(job[w])
    BY <2>1, <2>2 DEF worker_finish, Stack!Finish
  <2>5. QED
    BY <2>3, <2>4 DEF Stack!JSNext
<1>6. CASE shutdown_clear
  <2>1. \A v \in Worker : pc'[v] = "run" <=> pc[v] = "run"
    BY <1>6 DEF shutdown_clear, TypeOK
  <2>2. Executing' = Executing
    BY <1>6, <2>1 DEF shutdown_clear, Executing
  <2>3. Stack!DropAll
    BY <1>1, <1>6, <2>2 DEF shutdown_clear, Stack!DropAll
  <2>4. QED
    BY <2>3 DEF Stack!JSNext
<1>7. CASE \E w \in Worker : \/ init_create(w) \/ worker_lock(w)
                             \/ worker_test(w) \/ worker_spurious(w)
                             \/ worker_break(w) \/ worker_exit(w)
  <2>1. Same
    BY <1>7
    DEF init_create, worker_lock, worker_test, worker_spurious, worker_break,
        worker_exit, TypeOK
  <2>2. QED
    BY <1>2, <2>1
<1>8. CASE \/ init_next \/ init_link \/ init_fail \/ add_lock
           \/ shutdown_call \/ shutdown_mark \/ shutdown_next
           \/ shutdown_lock \/ UNCHANGED vars
           \/ \E j \in Job : add_call(j)
  <2>1. Same
    BY <1>8
    DEF init_next, init_link, init_fail, add_call, add_lock, shutdown_call,
        shutdown_mark, shutdown_next, shutdown_lock, vars
  <2>2. QED
    BY <1>2, <2>1
<1>9. QED
  BY <1>3, <1>4, <1>5, <1>6, <1>7, <1>8, NextCases

(* The work queue implements the stack of jobs that workqueue.h promises,  *)
(* for any number of workers, jobs and shutdowns.                          *)
THEOREM ImplementsStack == Spec => StackSpec
<1>1. Init => Stack!JSInit
  BY DEF Init, Stack!JSInit, Executing
<1>2. QED
  BY <1>1, TypeCorrect, JobsRunOnce, StackStep, PTL
  DEF Spec, StackSpec, Stack!JSSpec

=============================================================================
