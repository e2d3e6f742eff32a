------------------------------- MODULE Server -------------------------------
(***************************************************************************)
(* Start and stop of the server, src/server_threaded.c:263-377: the stages *)
(* of runServer on the main thread, the loop that accepts connections, and *)
(* killServer, which runs in a signal handler on whatever thread the       *)
(* signal interrupts or on a thread of the application.  The handlers are  *)
(* installed with an empty sa_mask, so that a SIGTERM may interrupt the    *)
(* handler of a SIGINT and the other way round, and several threads may be *)
(* inside killServer.  libevent has no thread support here: a timer added  *)
(* by another thread does not wake a main thread that is inside            *)
(* epoll_wait.  Of the work queue only what killServer can meet is kept:   *)
(* the mutex, the terminate flags and where each worker is (the module     *)
(* WorkQueue has the rest).                                                *)
(***************************************************************************)
EXTENDS Naturals, FiniteSets

CONSTANTS Worker,     \* the threads of the work queue
          MaxKills,   \* bound on the calls of killServer
          CONNECTION_BACKLOG,  \* the length of listen's queue
          NONE        \* no thread

ASSUME WorkerAssumption ==
    {"main", "other"} \cap Worker = {} /\ NONE \notin Worker \cup {"main", "other"}
ASSUME BoundAssumption == MaxKills \in Nat /\ CONNECTION_BACKLOG \in Nat

(* The threads, one of them of the application.                            *)
Thread == Worker \cup {"main", "other"}

(* How many calls of killServer a thread may be in: the handlers of the    *)
(* two signals, each blocked while it runs, and one the application makes. *)
Levels(t) == IF t = "other" THEN 3 ELSE 2

VARIABLES
    main_pc,     \* where runServer is
    status,      \* what runServer returned
    forever,     \* the timeout computed for epoll_wait is none
    evbase,      \* evbase_accept: "null", "live", or freed and not yet null
    accepting,   \* ev_accept is in evbase_accept
    wait_failed, \* epoll_wait failed with another error than EINTR
    exit_timer,  \* event_base_loopexit's timer is in evbase_accept
    missed,      \* it was added where the main thread cannot notice it
    gotterm,     \* event_loopexit_cb has run
    backlog,     \* connections not yet accepted
    jobs_mutex,  \* the thread that holds it
    torn,        \* workqueue_init cleared it while a killServer held it
    terminate,   \* the flag of each worker
    worker_pc,   \* where each worker is
    depth,       \* how many calls of killServer each thread is in
    kill_pc,     \* where each of them is, from the outermost one
    kills        \* how often it was called

loopVars == <<forever, wait_failed, gotterm>>
baseVars == <<evbase, accepting>>
timerVars == <<exit_timer, missed>>
mutexVars == <<jobs_mutex, torn>>
workVars == <<terminate, worker_pc>>
killVars == <<depth, kill_pc, kills>>
vars == <<main_pc, status, loopVars, baseVars, timerVars, backlog, mutexVars,
          workVars, killVars>>

Over == {"returned", "exited"}
Stages == {"start", "socket", "base", "queue"}

Init ==
    /\ main_pc = "start"
    /\ status = 0
    /\ forever = FALSE
    /\ evbase = "null"
    /\ accepting = FALSE
    /\ wait_failed = FALSE
    /\ exit_timer = FALSE
    /\ missed = FALSE
    /\ gotterm = FALSE
    /\ backlog = 0
    /\ jobs_mutex = NONE
    /\ torn = FALSE
    /\ terminate = [w \in Worker |-> FALSE]
    /\ worker_pc = [w \in Worker |-> "none"]
    /\ depth = [t \in Thread |-> 0]
    /\ kill_pc = [t \in Thread |-> [d \in 1 .. 3 |-> "idle"]]
    /\ kills = 0

(* A signal handler suspends the thread it runs on.                        *)
Runs(t) == main_pc \notin Over /\ depth[t] = 0

-----------------------------------------------------------------------------
(* runServer                                                               *)

(* event_init, the handlers, socket, bind, listen and setnonblock: the     *)
(* process ends when one of them fails.                                    *)
run_stage(from, to) ==
    /\ Runs("main")
    /\ main_pc = from
    /\ main_pc' \in {to, "exited"}
    /\ UNCHANGED <<status, loopVars, baseVars, timerVars, backlog, mutexVars,
                   workVars, killVars>>

run_sockets == run_stage("start", "socket") \/ run_stage("socket", "base")

(* evbase_accept = event_base_new().                                       *)
run_base ==
    /\ Runs("main")
    /\ main_pc = "base"
    /\ \/ /\ main_pc' = "queue"
          /\ evbase' = "live"
          /\ UNCHANGED status
       \/ /\ main_pc' = "returned"
          /\ status' = 1
          /\ UNCHANGED evbase
       \/ /\ main_pc' = "exited"
          /\ UNCHANGED <<status, evbase>>
    /\ UNCHANGED <<loopVars, accepting, timerVars, backlog, mutexVars,
                   workVars, killVars>>

(* workqueue_init clears the queue, its mutex included, and starts the     *)
(* workers, or some of them when it fails.                                 *)
run_queue ==
    /\ Runs("main")
    /\ main_pc = "queue"
    /\ \/ /\ main_pc' = "event"
          /\ worker_pc' = [w \in Worker |-> "lock"]
       \/ /\ main_pc' = "mark"
          /\ \E S \in SUBSET Worker :
                /\ S # Worker
                /\ worker_pc' = [w \in Worker |->
                                    IF w \in S THEN "lock" ELSE "none"]
    /\ jobs_mutex' = NONE
    /\ torn' = (torn \/ jobs_mutex # NONE)
    /\ UNCHANGED <<status, loopVars, baseVars, timerVars, backlog, terminate,
                   killVars>>

(* workqueue_shutdown for the workers there are sets their flags, needs    *)
(* the mutex as killServer does, and runServer returns.                    *)
Marked == [w \in Worker |-> terminate[w] \/ worker_pc[w] # "none"]

undo_mark ==
    /\ Runs("main")
    /\ main_pc = "mark"
    /\ terminate' = Marked
    /\ main_pc' = "lock"
    /\ UNCHANGED <<status, loopVars, baseVars, timerVars, backlog, mutexVars,
                   worker_pc, killVars>>

undo_lock ==
    /\ Runs("main")
    /\ main_pc = "lock"
    /\ jobs_mutex = NONE
    /\ jobs_mutex' = "main"
    /\ main_pc' = "locked"
    /\ UNCHANGED <<status, loopVars, baseVars, timerVars, backlog, torn,
                   workVars, killVars>>

undo_return ==
    /\ Runs("main")
    /\ main_pc = "locked"
    /\ jobs_mutex' = NONE
    /\ main_pc' = "returned"
    /\ status' = 1
    /\ UNCHANGED <<loopVars, baseVars, timerVars, backlog, torn, workVars,
                   killVars>>

(* event_add(&ev_accept, NULL), whose result nobody looks at.              *)
run_event ==
    /\ Runs("main")
    /\ main_pc = "event"
    /\ accepting' \in BOOLEAN
    /\ main_pc' = "check"
    /\ UNCHANGED <<status, loopVars, evbase, timerVars, backlog, mutexVars,
                   workVars, killVars>>

-----------------------------------------------------------------------------
(* event_base_dispatch(evbase_accept)                                      *)

(* Mutant of loop_check: the loop ends when there is no timer.             *)
Mutant_end_without_timer ==
    /\ Runs("main")
    /\ main_pc = "check"
    /\ main_pc' = IF exit_timer THEN "timed" ELSE "free"
    /\ forever' = FALSE
    /\ UNCHANGED <<status, wait_failed, gotterm, baseVars, timerVars, backlog,
                   mutexVars, workVars, killVars>>

(* The head of the loop: end when event_gotterm is set, else timeout_next  *)
(* computes how long to wait.                                              *)
loop_check ==
    /\ Runs("main")
    /\ main_pc = "check"
    /\ main_pc' = IF gotterm THEN "free" ELSE "timed"
    /\ forever' = (~gotterm /\ ~exit_timer)
    /\ UNCHANGED <<status, wait_failed, gotterm, baseVars, timerVars, backlog,
                   mutexVars, workVars, killVars>>

(* The loop ends with 1 when the base has no event, or enters epoll_wait.  *)
(* A timer that was added after timeout_next does not shorten the wait.    *)
loop_wait ==
    /\ Runs("main")
    /\ main_pc = "timed"
    /\ main_pc' = IF accepting \/ exit_timer THEN "wait" ELSE "free"
    /\ UNCHANGED <<status, loopVars, baseVars, timerVars, backlog, mutexVars,
                   workVars, killVars>>

Arrived == accepting /\ backlog > 0

(* epoll_wait returns: a connection is there or the timeout is zero.       *)
loop_wake ==
    /\ Runs("main")
    /\ main_pc = "wait"
    /\ Arrived \/ ~forever
    /\ main_pc' = IF Arrived THEN "accept" ELSE "process"
    /\ UNCHANGED <<status, loopVars, baseVars, timerVars, backlog, mutexVars,
                   workVars, killVars>>

(* It fails, and event_base_dispatch returns -1.                           *)
loop_fail ==
    /\ Runs("main")
    /\ main_pc = "wait"
    /\ main_pc' = "free"
    /\ wait_failed' = TRUE
    /\ UNCHANGED <<status, forever, gotterm, baseVars, timerVars, backlog,
                   mutexVars, workVars, killVars>>

(* timeout_process takes the timer; event_loopexit_cb sets event_gotterm,  *)
(* which nothing reads before the next head of the loop.                   *)
loop_timers ==
    /\ gotterm' = (gotterm \/ exit_timer)
    /\ exit_timer' = FALSE
    /\ missed' = FALSE

loop_process ==
    /\ Runs("main")
    /\ main_pc = "process"
    /\ loop_timers
    /\ main_pc' = "check"
    /\ UNCHANGED <<status, forever, wait_failed, baseVars, backlog, mutexVars,
                   workVars, killVars>>

(* Mutant of loop_accept: a connection that accept() refused is counted.   *)
Mutant_negative_backlog ==
    /\ Runs("main")
    /\ main_pc = "accept"
    /\ loop_timers
    /\ \E taken \in 0 .. 2 : backlog' = backlog - taken
    /\ main_pc' \in {"check", "add"}
    /\ UNCHANGED <<status, forever, wait_failed, baseVars, mutexVars,
                   workVars, killVars>>

(* on_accept, up to workqueue_add_job: accept() fails, what follows it     *)
(* fails, or there is a job to add.                                        *)
loop_accept ==
    /\ Runs("main")
    /\ main_pc = "accept"
    /\ loop_timers
    /\ \/ backlog' = backlog /\ main_pc' = "check"
       \/ backlog' = backlog - 1 /\ main_pc' \in {"check", "add"}
    /\ UNCHANGED <<status, forever, wait_failed, baseVars, mutexVars,
                   workVars, killVars>>

(* workqueue_add_job locks, and unlocks.  A signal may come in between.    *)
add_lock ==
    /\ Runs("main")
    /\ main_pc = "add"
    /\ jobs_mutex = NONE
    /\ jobs_mutex' = "main"
    /\ main_pc' = "added"
    /\ UNCHANGED <<status, loopVars, baseVars, timerVars, backlog, torn,
                   workVars, killVars>>

add_unlock ==
    /\ Runs("main")
    /\ main_pc = "added"
    /\ jobs_mutex' = NONE
    /\ main_pc' = "check"
    /\ UNCHANGED <<status, loopVars, baseVars, timerVars, backlog, torn,
                   workVars, killVars>>

(* event_base_free(evbase_accept); evbase_accept = NULL; close; return 0,  *)
(* whatever event_base_dispatch returned.                                  *)
run_free ==
    /\ Runs("main")
    /\ main_pc = "free"
    /\ main_pc' = "null"
    /\ evbase' = "freed"
    /\ UNCHANGED <<status, loopVars, accepting, timerVars, backlog, mutexVars,
                   workVars, killVars>>

run_return ==
    /\ Runs("main")
    /\ main_pc = "null"
    /\ main_pc' = "returned"
    /\ evbase' = "null"
    /\ UNCHANGED <<status, loopVars, accepting, timerVars, backlog, mutexVars,
                   workVars, killVars>>

main_step ==
    \/ run_sockets \/ run_base \/ run_queue
    \/ undo_mark \/ undo_lock \/ undo_return \/ run_event
    \/ loop_check \/ loop_wait \/ loop_wake \/ loop_process \/ loop_accept
    \/ add_lock \/ add_unlock \/ run_free \/ run_return

(* A peer connects once the socket listens.                                *)
connect ==
    /\ main_pc \notin Over \cup {"start", "socket"}
    /\ backlog < CONNECTION_BACKLOG
    /\ backlog' = backlog + 1
    /\ UNCHANGED <<main_pc, status, loopVars, baseVars, timerVars, mutexVars,
                   workVars, killVars>>

-----------------------------------------------------------------------------
(* worker_function, as far as the mutex and the flag go                    *)

worker_lock(w) ==
    /\ Runs(w)
    /\ worker_pc[w] = "lock"
    /\ jobs_mutex = NONE
    /\ jobs_mutex' = w
    /\ worker_pc' = [worker_pc EXCEPT ![w] = "critical"]
    /\ UNCHANGED <<main_pc, status, loopVars, baseVars, timerVars, backlog,
                   torn, terminate, killVars>>

(* With the mutex: the flag makes the worker leave with it; otherwise it   *)
(* goes away into pthread_cond_wait or a job.                              *)
worker_test(w) ==
    /\ Runs(w)
    /\ worker_pc[w] = "critical"
    /\ worker_pc' = [worker_pc EXCEPT ![w] = IF terminate[w] THEN "gone"
                                                            ELSE "away"]
    /\ jobs_mutex' = IF terminate[w] THEN jobs_mutex ELSE NONE
    /\ UNCHANGED <<main_pc, status, loopVars, baseVars, timerVars, backlog,
                   torn, terminate, killVars>>

(* A job ends, or the worker wakes up, signalled or by itself.             *)
worker_resume(w) ==
    /\ Runs(w)
    /\ worker_pc[w] = "away"
    /\ worker_pc' = [worker_pc EXCEPT ![w] = "lock"]
    /\ UNCHANGED <<main_pc, status, loopVars, baseVars, timerVars, backlog,
                   mutexVars, terminate, killVars>>

-----------------------------------------------------------------------------
(* killServer                                                              *)

(* A thread of the application calls it, or a signal interrupts a thread.  *)
(* While a handler runs only its own signal is blocked on the thread.      *)
kill_enter(t) ==
    /\ main_pc \notin Over \cup {"start"}
    /\ kills < MaxKills
    /\ depth[t] < Levels(t)
    /\ t \in Worker => worker_pc[t] \notin {"none", "gone"}
    /\ depth' = [depth EXCEPT ![t] = @ + 1]
    /\ kill_pc' = [kill_pc EXCEPT ![t][depth[t] + 1] = "loopexit"]
    /\ kills' = kills + 1
    /\ UNCHANGED <<main_pc, status, loopVars, baseVars, timerVars, backlog,
                   mutexVars, workVars>>

(* The innermost call of a thread is the one that runs.                    *)
Inside(t, at) ==
    /\ main_pc \notin Over
    /\ depth[t] > 0
    /\ kill_pc[t][depth[t]] = at
Goes(t, to) == kill_pc' = [kill_pc EXCEPT ![t][depth[t]] = to]

(* event_base_loopexit: a timer of zero delay for evbase_accept, unless an *)
(* allocation fails.  Before event_base_new and after the end,             *)
(* evbase_accept is null and the timer goes to the base of event_init,     *)
(* which nobody dispatches.  A base that is freed and not yet null is      *)
(* undefined behaviour: the process may end.  The main thread notices a    *)
(* timer unless another thread adds it or a handler that came between      *)
(* timeout_next and epoll_wait.                                            *)
kill_loopexit(t) ==
    /\ Inside(t, "loopexit")
    /\ Goes(t, "mark")
    /\ \/ UNCHANGED timerVars
       \/ /\ evbase = "live"
          /\ exit_timer' = TRUE
          /\ missed' = IF t = "main" /\ main_pc # "timed" THEN FALSE
                       ELSE exit_timer => missed
    /\ main_pc' \in {main_pc} \cup (IF evbase = "freed" THEN {"exited"} ELSE {})
    /\ UNCHANGED <<status, loopVars, baseVars, backlog, mutexVars, workVars,
                   depth, kills>>

(* workqueue_shutdown sets the flags, then needs the mutex.                *)
kill_mark(t) ==
    /\ Inside(t, "mark")
    /\ Goes(t, "lock")
    /\ terminate' = Marked
    /\ UNCHANGED <<main_pc, status, loopVars, baseVars, timerVars, backlog,
                   mutexVars, worker_pc, depth, kills>>

kill_lock(t) ==
    /\ Inside(t, "lock")
    /\ jobs_mutex = NONE
    /\ jobs_mutex' = t
    /\ Goes(t, "held")
    /\ UNCHANGED <<main_pc, status, loopVars, baseVars, timerVars, backlog,
                   torn, workVars, depth, kills>>

(* Mutant of kill_return: epoll_wait is restarted after the handler.       *)
Mutant_restart_wait(t) ==
    /\ Inside(t, "held")
    /\ jobs_mutex' = NONE
    /\ Goes(t, "idle")
    /\ depth' = [depth EXCEPT ![t] = @ - 1]
    /\ UNCHANGED <<main_pc, status, loopVars, baseVars, timerVars, backlog,
                   torn, workVars, kills>>

(* The waiting jobs are dropped, the workers are woken, the mutex is       *)
(* unlocked, and killServer returns.  The handlers that interrupted        *)
(* epoll_wait make it fail with EINTR: SA_RESTART does not apply to it.    *)
kill_return(t) ==
    /\ Inside(t, "held")
    /\ jobs_mutex' = NONE
    /\ Goes(t, "idle")
    /\ depth' = [depth EXCEPT ![t] = @ - 1]
    /\ main_pc' = IF t = "main" /\ depth[t] = 1 /\ main_pc = "wait"
                  THEN "process" ELSE main_pc
    /\ UNCHANGED <<status, loopVars, baseVars, timerVars, backlog, torn,
                   workVars, kills>>

kill_step(t) ==
    kill_loopexit(t) \/ kill_mark(t) \/ kill_lock(t) \/ kill_return(t)

Next ==
    \/ main_step \/ loop_fail
    \/ connect
    \/ \E w \in Worker : worker_lock(w) \/ worker_test(w) \/ worker_resume(w)
    \/ \E t \in Thread : kill_enter(t) \/ kill_step(t)

Spec == Init /\ [][Next]_vars

(* Threads that can run are scheduled, and so is a handler on its thread.  *)
(* That a thread gets the mutex at last is strong fairness.                *)
Fairness ==
    /\ SF_vars(main_step)
    /\ \A t \in Thread : SF_vars(kill_step(t))
    /\ \A w \in Worker : WF_vars(worker_test(w))

FairSpec == Spec /\ Fairness

-----------------------------------------------------------------------------
(* Properties                                                              *)

(* Every variable has its type.                                            *)
TypeOK ==
    /\ main_pc \in Stages \cup Over
           \cup {"mark", "lock", "locked", "event", "check", "timed", "wait",
                 "accept", "process", "add", "added", "free", "null"}
    /\ status \in {0, 1}
    /\ {forever, accepting, wait_failed, exit_timer, missed, gotterm, torn}
           \subseteq BOOLEAN
    /\ evbase \in {"null", "live", "freed"}
    /\ backlog \in 0 .. CONNECTION_BACKLOG
    /\ jobs_mutex \in Thread \cup {NONE}
    /\ terminate \in [Worker -> BOOLEAN]
    /\ worker_pc \in [Worker -> {"none", "lock", "critical", "away", "gone"}]
    /\ depth \in [Thread -> 0 .. 3] /\ \A t \in Thread : depth[t] <= Levels(t)
    /\ kill_pc \in [Thread -> [1 .. 3 -> {"idle", "loopexit", "mark", "lock",
                                          "held"}]]
    /\ kills \in 0 .. MaxKills

(* Once started, runServer returns 0 only for one of three reasons, two of *)
(* which the comment of server_threaded.c:261 does not know: a killServer  *)
(* got through to its loop, whoever made it and however the calls          *)
(* overlapped; event_add failed for the listening socket (338); or         *)
(* epoll_wait failed (event.c:1631).                                       *)
ReturnsOnlyWhenKilled ==
    main_pc \in {"free", "null"} \/ (main_pc = "returned" /\ status = 0)
        => (kills > 0 /\ gotterm) \/ ~accepting \/ wait_failed

(* jobs_mutex will never be unlocked: a worker has left its loop with it,  *)
(* or it belongs to a thread whose own signal handler waits for it.        *)
Kept ==
    \E t \in Thread :
        /\ jobs_mutex = t
        /\ \/ t \in Worker /\ worker_pc[t] = "gone"
           \/ depth[t] > 0 /\ kill_pc[t][depth[t]] = "lock"

(* The main thread, or a handler that runs on it, waits for it.            *)
NeedsMutex ==
    IF depth["main"] = 0 THEN main_pc \in {"add", "lock"}
    ELSE kill_pc["main"][depth["main"]] = "lock"

(* It is in epoll_wait for a connection that need not come, and the timer  *)
(* was added behind its back.                                              *)
Asleep == main_pc = "wait" /\ forever /\ missed /\ ~Arrived

(* "Kill the server [...] causing runServer() to return" (server_threaded. *)
(* c:356): a killServer that got its timer into the accepting base ends    *)
(* runServer, unless the main thread is asleep or needs a mutex that is    *)
(* kept, however calls on several threads and nested handlers overlap.  In *)
(* particular a signal that interrupts epoll_wait itself is never missed.  *)
KillEndsServer ==
    exit_timer \/ gotterm ~>
        main_pc \in Over \/ Asleep \/ (NeedsMutex /\ Kept)

=============================================================================
