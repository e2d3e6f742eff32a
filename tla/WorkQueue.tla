------------------------------ MODULE WorkQueue ------------------------------
(***************************************************************************)
(* The work queue of src/workqueue.c: a list of waiting jobs guarded by    *)
(* jobs_mutex and jobs_cond, the worker threads that execute them, the     *)
(* thread that creates the workers and adds jobs (MAIN), and the context   *)
(* that calls workqueue_shutdown (KILLER: a signal handler or another      *)
(* thread).  A step is what a thread does between two points where another *)
(* thread can interfere; worker->terminate is read and written without the *)
(* mutex, so each of its accesses is a step of its own.                    *)
(***************************************************************************)
EXTENDS Naturals, Sequences, FiniteSets

CONSTANTS Worker,        \* the worker_t structures workqueue_init allocates
          Job,           \* the job_t structures MAIN may submit
          MAIN,          \* the thread of workqueue_init and workqueue_add_job
          KILLER,        \* the context of workqueue_shutdown
          NULL,          \* the null pointer, and the owner of a free mutex
          MaxShutdowns   \* bound on the calls of workqueue_shutdown

(* numWorkers is at least 1 after the correction of workqueue.c:66.        *)
ASSUME WorkerAssumption ==
    /\ IsFiniteSet(Worker)
    /\ Worker # {}

ASSUME NameAssumption ==
    /\ MAIN # KILLER
    /\ NULL \notin {MAIN, KILLER} \cup Worker \cup Job
    /\ {MAIN, KILLER} \cap Worker = {}

ASSUME BoundAssumption == MaxShutdowns \in Nat

VARIABLES
    jobs_mutex,    \* the thread that holds workqueue->jobs_mutex, or NULL
    waiting_jobs,  \* the list workqueue->waiting_jobs, head first
    workers,       \* the list workqueue->workers, head first
    terminate,     \* worker->terminate
    pc,            \* where each worker thread is in worker_function
    job,           \* the local variable job of worker_function
    init_pc,       \* where MAIN is in workqueue_init
    fresh,         \* the worker created and not yet linked (workqueue.c:83)
    link,          \* its next pointer: the list that follows it
    add_pc,        \* where MAIN is in workqueue_add_job
    adding,        \* the argument of workqueue_add_job
    shut_pc,       \* where KILLER is in workqueue_shutdown
    walk,          \* the part of the workers list its loop has yet to visit
    shutdowns,     \* calls of workqueue_shutdown so far
    done,          \* history: jobs whose function has returned
    discarded,     \* history: jobs dropped by workqueue_shutdown
    dangling       \* history: workqueue_shutdown read a freed worker_t

initVars == <<init_pc, fresh, link>>
addVars  == <<add_pc, adding>>
shutVars == <<shut_pc, walk, shutdowns, dangling>>
vars == <<jobs_mutex, waiting_jobs, workers, terminate, pc, job, initVars,
          addVars, shutVars, done, discarded>>

WorkerPC == {"unborn", "lock", "test", "wait", "woken", "decide", "run",
             "exit", "exited"}

Sleeping == {w \in Worker : pc[w] = "wait"}
(* Workers on their way to look at the list.                               *)
Awake == {w \in Worker : pc[w] \in {"lock", "test", "woken", "decide"}}
Waiting == {waiting_jobs[i] : i \in DOMAIN waiting_jobs}
Executing == {job[w] : w \in {v \in Worker : pc[v] = "run"}}

(* A static, zeroed workqueue_t after workqueue.c:66-69.                   *)
Init ==
    /\ jobs_mutex = NULL
    /\ waiting_jobs = <<>>
    /\ workers = <<>>
    /\ terminate = [w \in Worker |-> FALSE]
    /\ pc = [w \in Worker |-> "unborn"]
    /\ job = [w \in Worker |-> NULL]
    /\ init_pc = "create"
    /\ fresh = NULL
    /\ link = <<>>
    /\ add_pc = "idle"
    /\ adding = NULL
    /\ shut_pc = "idle"
    /\ walk = <<>>
    /\ shutdowns = 0
    /\ done = {}
    /\ discarded = {}
    /\ dangling = FALSE

-----------------------------------------------------------------------------
(* workqueue_init                                                          *)

(* malloc and pthread_create succeed: the thread runs from now on, linked  *)
(* or not.                                                                 *)
init_create(w) ==
    /\ init_pc = "create"
    /\ pc[w] = "unborn"
    /\ pc' = [pc EXCEPT ![w] = "lock"]
    /\ fresh' = w
    /\ init_pc' = "next"
    /\ UNCHANGED <<jobs_mutex, waiting_jobs, workers, terminate, job, link,
                   addVars, shutVars, done, discarded>>

(* LL_ADD(worker, workqueue->workers) runs without the mutex: a shutdown   *)
(* may come between item->next = list and list = item.                     *)
init_next ==
    /\ init_pc = "next"
    /\ link' = workers
    /\ init_pc' = "link"
    /\ UNCHANGED <<jobs_mutex, waiting_jobs, workers, terminate, pc, job,
                   fresh, addVars, shutVars, done, discarded>>

init_link ==
    /\ init_pc = "link"
    /\ workers' = <<fresh>> \o link
    /\ fresh' = NULL
    /\ link' = <<>>
    /\ init_pc' = IF \E w \in Worker : pc[w] = "unborn" THEN "create" ELSE "ok"
    /\ UNCHANGED <<jobs_mutex, waiting_jobs, terminate, pc, job, addVars,
                   shutVars, done, discarded>>

(* malloc or pthread_create fails: workqueue_init returns 1 and the        *)
(* workers created so far keep running.                                    *)
init_fail ==
    /\ init_pc = "create"
    /\ init_pc' = "failed"
    /\ UNCHANGED <<jobs_mutex, waiting_jobs, workers, terminate, pc, job,
                   fresh, link, addVars, shutVars, done, discarded>>

-----------------------------------------------------------------------------
(* workqueue_add_job                                                       *)

Fresh(j) == j \notin Waiting \cup Executing \cup done \cup discarded

add_call(j) ==
    /\ init_pc = "ok"
    /\ add_pc = "idle"
    /\ Fresh(j)
    /\ adding' = j
    /\ add_pc' = "lock"
    /\ UNCHANGED <<jobs_mutex, waiting_jobs, workers, terminate, pc, job,
                   initVars, shutVars, done, discarded>>

add_lock ==
    /\ add_pc = "lock"
    /\ jobs_mutex = NULL
    /\ jobs_mutex' = MAIN
    /\ add_pc' = "push"
    /\ UNCHANGED <<waiting_jobs, workers, terminate, pc, job, initVars,
                   adding, shutVars, done, discarded>>

(* Mutant of cond_signal: the caller signals only when the list was empty. *)
Mutant_signal_when_empty ==
    IF Sleeping = {} \/ waiting_jobs # <<>>
    THEN pc' = pc
    ELSE \E w \in Sleeping : pc' = [pc EXCEPT ![w] = "woken"]

(* pthread_cond_signal wakes one of the threads blocked on the condition   *)
(* variable, if there is one.                                              *)
cond_signal ==
    IF Sleeping = {}
    THEN pc' = pc
    ELSE \E w \in Sleeping : pc' = [pc EXCEPT ![w] = "woken"]

(* Mutant of add_push: the job goes to the end of the list.                *)
Mutant_push_at_tail ==
    /\ add_pc = "push"
    /\ waiting_jobs' = Append(waiting_jobs, adding)
    /\ cond_signal
    /\ jobs_mutex' = NULL
    /\ add_pc' = "idle"
    /\ adding' = NULL
    /\ UNCHANGED <<workers, terminate, job, initVars, shutVars, done,
                   discarded>>

add_push ==
    /\ add_pc = "push"
    /\ waiting_jobs' = <<adding>> \o waiting_jobs
    /\ cond_signal
    /\ jobs_mutex' = NULL
    /\ add_pc' = "idle"
    /\ adding' = NULL
    /\ UNCHANGED <<workers, terminate, job, initVars, shutVars, done,
                   discarded>>

-----------------------------------------------------------------------------
(* worker_function                                                         *)

worker_lock(w) ==
    /\ pc[w] \in {"lock", "woken"}
    /\ jobs_mutex = NULL
    /\ jobs_mutex' = w
    /\ pc' = [pc EXCEPT ![w] = "test"]
    /\ UNCHANGED <<waiting_jobs, workers, terminate, job, initVars, addVars,
                   shutVars, done, discarded>>

(* The inner loop: with no job and no order to terminate the thread        *)
(* releases the mutex and blocks on jobs_cond; otherwise it leaves the     *)
(* loop with the mutex held.                                               *)
worker_test(w) ==
    /\ pc[w] = "test"
    /\ IF waiting_jobs = <<>> /\ ~terminate[w]
       THEN /\ jobs_mutex' = NULL
            /\ pc' = [pc EXCEPT ![w] = "wait"]
       ELSE /\ jobs_mutex' = jobs_mutex
            /\ pc' = [pc EXCEPT ![w] = "decide"]
    /\ UNCHANGED <<waiting_jobs, workers, terminate, job, initVars, addVars,
                   shutVars, done, discarded>>

(* POSIX lets pthread_cond_wait return without a signal.                   *)
worker_spurious(w) ==
    /\ pc[w] = "wait"
    /\ pc' = [pc EXCEPT ![w] = "woken"]
    /\ UNCHANGED <<jobs_mutex, waiting_jobs, workers, terminate, job,
                   initVars, addVars, shutVars, done, discarded>>

(* Line 41: the break leaves the outer loop; no pthread_mutex_unlock is on *)
(* the way to free(worker) and pthread_exit.                               *)
worker_break(w) ==
    /\ pc[w] = "decide"
    /\ terminate[w]
    /\ pc' = [pc EXCEPT ![w] = "exit"]
    /\ UNCHANGED <<jobs_mutex, waiting_jobs, workers, terminate, job,
                   initVars, addVars, shutVars, done, discarded>>

(* Mutant of worker_take: the job is read but LL_REMOVE is missing.        *)
Mutant_take_without_remove(w) ==
    /\ pc[w] = "decide"
    /\ ~terminate[w]
    /\ waiting_jobs # <<>>
    /\ job' = [job EXCEPT ![w] = Head(waiting_jobs)]
    /\ pc' = [pc EXCEPT ![w] = "run"]
    /\ jobs_mutex' = NULL
    /\ UNCHANGED <<waiting_jobs, workers, terminate, initVars, addVars,
                   shutVars, done, discarded>>

(* Mutant of worker_take: the mutex is kept while the job runs.            *)
Mutant_take_without_unlock(w) ==
    /\ pc[w] = "decide"
    /\ ~terminate[w]
    /\ waiting_jobs # <<>>
    /\ job' = [job EXCEPT ![w] = Head(waiting_jobs)]
    /\ waiting_jobs' = Tail(waiting_jobs)
    /\ pc' = [pc EXCEPT ![w] = "run"]
    /\ UNCHANGED <<jobs_mutex, workers, terminate, initVars, addVars,
                   shutVars, done, discarded>>

(* Mutant of worker_take: the list is read after LL_REMOVE, too late for   *)
(* the null test.                                                          *)
Mutant_take_after_remove(w) ==
    /\ pc[w] = "decide"
    /\ ~terminate[w]
    /\ waiting_jobs # <<>>
    /\ waiting_jobs' = Tail(waiting_jobs)
    /\ job' = [job EXCEPT ![w] = IF waiting_jobs' = <<>> THEN NULL
                                 ELSE Head(waiting_jobs')]
    /\ pc' = [pc EXCEPT ![w] = "run"]
    /\ jobs_mutex' = NULL
    /\ UNCHANGED <<workers, terminate, initVars, addVars, shutVars, done,
                   discarded>>

(* Mutant of worker_take: the list is not looked at.                       *)
Mutant_take_nothing(w) ==
    /\ pc[w] = "decide"
    /\ ~terminate[w]
    /\ job' = [job EXCEPT ![w] = NULL]
    /\ pc' = [pc EXCEPT ![w] = "lock"]
    /\ jobs_mutex' = NULL
    /\ UNCHANGED <<waiting_jobs, workers, terminate, initVars, addVars,
                   shutVars, done, discarded>>

(* Lines 43-50: the head of the list, if any, leaves it and is run.        *)
worker_take(w) ==
    /\ pc[w] = "decide"
    /\ ~terminate[w]
    /\ IF waiting_jobs = <<>>
       THEN /\ job' = [job EXCEPT ![w] = NULL]
            /\ pc' = [pc EXCEPT ![w] = "lock"]
            /\ UNCHANGED waiting_jobs
       ELSE /\ job' = [job EXCEPT ![w] = Head(waiting_jobs)]
            /\ waiting_jobs' = Tail(waiting_jobs)
            /\ pc' = [pc EXCEPT ![w] = "run"]
    /\ jobs_mutex' = NULL
    /\ UNCHANGED <<workers, terminate, initVars, addVars, shutVars, done,
                   discarded>>

(* job->job_function(job) returns; the local variable job keeps its now    *)
(* stale value until line 43 overwrites it.                                *)
worker_finish(w) ==
    /\ pc[w] = "run"
    /\ done' = done \cup {job[w]}
    /\ pc' = [pc EXCEPT ![w] = "lock"]
    /\ UNCHANGED <<jobs_mutex, waiting_jobs, workers, terminate, job,
                   initVars, addVars, shutVars, discarded>>

(* free(worker); pthread_exit(NULL).                                       *)
worker_exit(w) ==
    /\ pc[w] = "exit"
    /\ pc' = [pc EXCEPT ![w] = "exited"]
    /\ UNCHANGED <<jobs_mutex, waiting_jobs, workers, terminate, job,
                   initVars, addVars, shutVars, done, discarded>>

-----------------------------------------------------------------------------
(* workqueue_shutdown                                                      *)

shutdown_call ==
    /\ shut_pc = "idle"
    /\ shutdowns < MaxShutdowns
    /\ shutdowns' = shutdowns + 1
    /\ walk' = workers
    /\ shut_pc' = "mark"
    /\ UNCHANGED <<jobs_mutex, waiting_jobs, workers, terminate, pc, job,
                   initVars, addVars, done, discarded, dangling>>

Freed(w) == pc[w] = "exited"

(* worker->terminate = 1, without the mutex.                               *)
shutdown_mark ==
    /\ shut_pc = "mark"
    /\ walk # <<>>
    /\ terminate' = [terminate EXCEPT ![Head(walk)] = TRUE]
    /\ dangling' = (dangling \/ Freed(Head(walk)))
    /\ shut_pc' = "next"
    /\ UNCHANGED <<jobs_mutex, waiting_jobs, workers, pc, job, initVars,
                   addVars, walk, shutdowns, done, discarded>>

(* worker = worker->next.  When the worker has already freed its structure *)
(* this reads freed memory: the stale pointer, or a null left by the next  *)
(* owner of the block.                                                     *)
shutdown_next ==
    /\ shut_pc = "next"
    /\ walk' \in IF Freed(Head(walk)) THEN {Tail(walk), <<>>} ELSE {Tail(walk)}
    /\ dangling' = (dangling \/ Freed(Head(walk)))
    /\ shut_pc' = "mark"
    /\ UNCHANGED <<jobs_mutex, waiting_jobs, workers, terminate, pc, job,
                   initVars, addVars, shutdowns, done, discarded>>

shutdown_lock ==
    /\ shut_pc = "mark"
    /\ walk = <<>>
    /\ jobs_mutex = NULL
    /\ jobs_mutex' = KILLER
    /\ shut_pc' = "clear"
    /\ UNCHANGED <<waiting_jobs, workers, terminate, pc, job, initVars,
                   addVars, walk, shutdowns, done, discarded, dangling>>

(* Both lists are emptied and every thread blocked on jobs_cond is woken.  *)
shutdown_clear ==
    /\ shut_pc = "clear"
    /\ workers' = <<>>
    /\ discarded' = discarded \cup Waiting
    /\ waiting_jobs' = <<>>
    /\ pc' = [w \in Worker |-> IF pc[w] = "wait" THEN "woken" ELSE pc[w]]
    /\ jobs_mutex' = NULL
    /\ shut_pc' = "idle"
    /\ UNCHANGED <<terminate, job, initVars, addVars, walk, shutdowns, done,
                   dangling>>

-----------------------------------------------------------------------------

(* What a worker thread does by itself once it is scheduled.               *)
worker_step(w) ==
    \/ worker_lock(w)
    \/ worker_test(w)
    \/ worker_break(w)
    \/ worker_take(w)
    \/ worker_exit(w)

init_step ==
    init_fail \/ init_next \/ init_link \/ \E w \in Worker : init_create(w)

add_step == add_lock \/ add_push

shutdown_step ==
    shutdown_mark \/ shutdown_next \/ shutdown_lock \/ shutdown_clear

Next ==
    \/ init_step
    \/ \E j \in Job : add_call(j)
    \/ add_step
    \/ \E w \in Worker :
          worker_step(w) \/ worker_spurious(w) \/ worker_finish(w)
    \/ shutdown_call
    \/ shutdown_step

Spec == Init /\ [][Next]_vars

(* Every thread that can run is eventually scheduled.  Nothing is assumed  *)
(* of the job functions (a connection may last for ever), of the callers   *)
(* of workqueue_add_job and workqueue_shutdown, or of spurious wakeups.    *)
Fairness ==
    /\ WF_vars(init_step)
    /\ WF_vars(add_step)
    /\ WF_vars(shutdown_step)
    /\ \A w \in Worker : WF_vars(worker_step(w))

FairSpec == Spec /\ Fairness

-----------------------------------------------------------------------------
(* Properties                                                              *)

(* Every variable has its type; in particular a worker that calls          *)
(* job->job_function has a job to call it on (workqueue.c:43-53).          *)
TypeOK ==
    /\ jobs_mutex \in Worker \cup {MAIN, KILLER, NULL}
    /\ waiting_jobs \in Seq(Job)
    /\ workers \in Seq(Worker)
    /\ terminate \in [Worker -> BOOLEAN]
    /\ pc \in [Worker -> WorkerPC]
    /\ job \in [Worker -> Job \cup {NULL}]
    /\ \A w \in Worker : pc[w] = "run" => job[w] \in Job
    /\ init_pc \in {"create", "next", "link", "ok", "failed"}
    /\ link \in Seq(Worker)
    /\ IF init_pc \in {"next", "link"} THEN fresh \in Worker ELSE fresh = NULL
    /\ add_pc \in {"idle", "lock", "push"}
    /\ IF add_pc = "idle" THEN adding = NULL ELSE adding \in Job
    /\ shut_pc \in {"idle", "mark", "next", "clear"}
    /\ walk \in Seq(Worker)
    /\ shut_pc = "next" => walk # <<>>
    /\ shutdowns \in 0 .. MaxShutdowns
    /\ done \subseteq Job
    /\ discarded \subseteq Job
    /\ dangling \in BOOLEAN

(* jobs_mutex is held by exactly the thread that is inside a critical      *)
(* section, or by the worker that left worker_function through the break   *)
(* of line 41: pthread_exit does not release it, so the mutex of an exited *)
(* worker stays locked (workqueue.c:41, 56-57).                            *)
MutexOwner ==
    /\ \A w \in Worker :
          jobs_mutex = w <=> pc[w] \in {"test", "decide", "exit", "exited"}
    /\ jobs_mutex = MAIN <=> add_pc = "push"
    /\ jobs_mutex = KILLER <=> shut_pc = "clear"

(* A job is in one place at most: once in the waiting list, or with one    *)
(* worker, or finished, or discarded, or still with the caller that is     *)
(* adding it (workqueue.c:43-53, 100-101, 109).                            *)
JobsOnce ==
    /\ \A i, k \in DOMAIN waiting_jobs :
          waiting_jobs[i] = waiting_jobs[k] => i = k
    /\ \A v, w \in Worker :
          pc[v] = "run" /\ pc[w] = "run" /\ job[v] = job[w] => v = w
    /\ Waiting \cap Executing = {}
    /\ (Waiting \cup Executing) \cap (done \cup discarded) = {}
    /\ done \cap discarded = {}
    /\ adding # NULL => Fresh(adding)

(* No wakeup is lost: as long as no worker has been told to terminate, if  *)
(* some worker sleeps on jobs_cond then at least as many workers are on    *)
(* their way to the list as there are jobs in it, so one pthread_cond_     *)
(* signal per job is enough (workqueue.c:33-38, 110).                      *)
NoLostWakeup ==
    (Sleeping # {} /\ \A w \in Worker : ~terminate[w])
        => Len(waiting_jobs) <= Cardinality(Awake)

Busy(w) == pc[w] = "run"

(* A waiting job does not wait beside an idle worker: the list is emptied, *)
(* or every worker is executing a job, or the queue is shut down           *)
(* (workqueue.c:32-53, 108-111).  Jobs need not return for this.           *)
WorkConserving ==
    (waiting_jobs # <<>>) ~>
        (waiting_jobs = <<>> \/ (\A w \in Worker : Busy(w)) \/ shutdowns > 0)

(* The work queue implements the abstract stack of jobs.                   *)
Stack == INSTANCE JobStack
            WITH Slots    <- Cardinality(Worker),
                 stack    <- waiting_jobs,
                 running  <- Executing,
                 finished <- done,
                 dropped  <- discarded

(* Refinement: whatever the threads do, callers see a stack of jobs, each  *)
(* run at most once and at most numWorkers at a time (workqueue.h:35-39).  *)
StackSpec == Stack!JSSpec

(* "wake up all workers so that they will terminate" (workqueue.c:98): a   *)
(* worker told to terminate exits, unless the job it executes never        *)
(* returns.                                                                *)
WorkersTerminate ==
    \A w \in Worker : terminate[w] ~> pc[w] \in {"exited", "run"}

=============================================================================
