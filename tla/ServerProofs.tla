---------------------------- MODULE ServerProofs ----------------------------
(***************************************************************************)
(* Proofs about the start and stop of the server and about the accounts it *)
(* keeps, for any number of workers, signals, connections and clients.     *)
(***************************************************************************)
EXTENDS MCServer, TLAPS

-----------------------------------------------------------------------------
(* Start and stop                                                          *)

(* Every disjunct of Next by name: the shape of the proofs below.          *)
LEMMA ServerCases ==
    ASSUME [Next]_vars
    PROVE  \/ \E from, to \in Stages \ {"queue"} : run_stage(from, to)
           \/ run_base \/ run_queue \/ undo_mark \/ undo_lock \/ undo_return
           \/ run_event \/ loop_check \/ loop_wait \/ loop_wake \/ loop_fail
           \/ loop_process \/ loop_accept
           \/ add_lock \/ add_unlock \/ run_free \/ run_return
           \/ connect
           \/ \E w \in Worker :
                 worker_lock(w) \/ worker_test(w) \/ worker_resume(w)
           \/ \E t \in Thread :
                 \/ kill_enter(t) \/ kill_loopexit(t) \/ kill_mark(t)
                 \/ kill_lock(t) \/ kill_return(t)
           \/ UNCHANGED vars
  BY DEF Next, main_step, kill_step, run_sockets, Stages

(* The calls of killServer a thread is in are its levels up to depth.      *)
CallsNest ==
    \A t \in Thread : \A d \in 1 .. 3 : d > depth[t] => kill_pc[t][d] = "idle"

(* What killServer leaves on its way through the loop of runServer: its    *)
(* call, the timer it adds to the accepting base, event_gotterm that the   *)
(* timer's callback sets, and the end of the loop that event_gotterm       *)
(* causes.  The loop has two other ends: without an event in the base, and *)
(* after an error of epoll_wait.                                           *)
Ended == gotterm \/ ~accepting \/ wait_failed
KillComesFirst ==
    /\ \A t \in Thread : \A d \in 1 .. 3 : kill_pc[t][d] # "idle" => kills > 0
    /\ exit_timer \/ gotterm => kills > 0
    /\ main_pc \in {"free", "null"} => Ended
    /\ main_pc = "returned" /\ status = 0 => Ended

(* A base is there while the loop runs, and freed only at the end: what a  *)
(* killServer that comes too early or too late does not find               *)
(* (server_threaded.c:317, 343-356).  A connection that on_accept is       *)
(* called for is still there.                                              *)
BaseFollowsMain ==
    /\ main_pc \in Stages \ {"queue"} => evbase = "null"
    /\ main_pc = "null" => evbase = "freed"
    /\ evbase = "freed" => main_pc \in {"null", "exited"}
    /\ main_pc \notin Stages \cup Over \cup {"null"} \/ main_pc = "queue" =>
          evbase = "live"
    /\ main_pc = "accept" => backlog > 0

(* The part of its own code in which a thread has jobs_mutex, without the  *)
(* calls of killServer that interrupt it.                                  *)
Section(t) ==
    \/ t = "main" /\ main_pc \in {"added", "locked"}
    \/ t \in Worker /\ worker_pc[t] \in {"critical", "gone"}

(* Who has jobs_mutex: the thread that is in such a part, or inside        *)
(* workqueue_shutdown at one level of its calls, and nobody else; a thread *)
(* never twice.  workqueue_init sets the mutex to unlocked though a        *)
(* killServer may have it (workqueue.c:67-68): nothing holds after that.   *)
MutexHeld ==
    torn \/
    \A t \in Thread :
        /\ jobs_mutex = t <=> Section(t) \/ \E d \in 1 .. 3 : kill_pc[t][d] = "held"
        /\ \A d \in 1 .. 3 : kill_pc[t][d] = "held" =>
              /\ ~Section(t)
              /\ \A e \in 1 .. 3 : kill_pc[t][e] = "held" => e = d

(* There are no workers before workqueue_init.                             *)
WorkersFollow == main_pc \in Stages => \A w \in Worker : worker_pc[w] = "none"

ServerInv ==
    /\ TypeOK /\ CallsNest /\ KillComesFirst /\ BaseFollowsMain
    /\ WorkersFollow /\ MutexHeld

(* The levels of a thread are left in the order they were entered.         *)
LEMMA NestStep ==
    ASSUME TypeOK, CallsNest, [Next]_vars
    PROVE  CallsNest'
<1> USE DEF TypeOK, CallsNest, Stages, Over, Levels
<1>1. ASSUME NEW from \in Stages \ {"queue"}, NEW to \in Stages \ {"queue"},
             run_stage(from, to)
      PROVE  CallsNest'
  BY <1>1 DEF run_stage, Runs, loopVars, baseVars, timerVars, mutexVars,
     workVars, killVars
<1>2. CASE run_base
  BY <1>2 DEF run_base, Runs, loopVars, timerVars, mutexVars, workVars,
     killVars
<1>3. CASE run_queue
  BY <1>3 DEF run_queue, Runs, loopVars, baseVars, timerVars, killVars
<1>4. CASE undo_mark
  BY <1>4 DEF undo_mark, Runs, loopVars, baseVars, timerVars, mutexVars,
     killVars
<1>5. CASE undo_lock
  BY <1>5 DEF undo_lock, Runs, loopVars, baseVars, timerVars, workVars,
     killVars
<1>6. CASE undo_return
  BY <1>6 DEF undo_return, Runs, loopVars, baseVars, timerVars, workVars,
     killVars
<1>7. CASE run_event
  BY <1>7 DEF run_event, Runs, loopVars, timerVars, mutexVars, workVars,
     killVars
<1>8. CASE loop_check
  BY <1>8 DEF loop_check, Runs, baseVars, timerVars, mutexVars, workVars,
     killVars
<1>9. CASE loop_wait
  BY <1>9 DEF loop_wait, Runs, loopVars, baseVars, timerVars, mutexVars,
     workVars, killVars
<1>10. CASE loop_wake
  BY <1>10 DEF loop_wake, Runs, loopVars, baseVars, timerVars, mutexVars,
     workVars, killVars
<1>11. CASE loop_fail
  BY <1>11 DEF loop_fail, Runs, baseVars, timerVars, mutexVars, workVars,
     killVars
<1>12. CASE loop_process
  BY <1>12 DEF loop_process, loop_timers, Runs, baseVars, mutexVars,
     workVars, killVars
<1>13. CASE loop_accept
  BY <1>13 DEF loop_accept, loop_timers, Runs, baseVars, mutexVars, workVars,
     killVars
<1>14. CASE add_lock
  BY <1>14 DEF add_lock, Runs, loopVars, baseVars, timerVars, workVars,
     killVars
<1>15. CASE add_unlock
  BY <1>15 DEF add_unlock, Runs, loopVars, baseVars, timerVars, workVars,
     killVars
<1>16. CASE run_free
  BY <1>16 DEF run_free, Runs, loopVars, timerVars, mutexVars, workVars,
     killVars
<1>17. CASE run_return
  BY <1>17 DEF run_return, Runs, loopVars, timerVars, mutexVars, workVars,
     killVars
<1>18. CASE connect
  BY <1>18 DEF connect, loopVars, baseVars, timerVars, mutexVars, workVars,
     killVars
<1>19. ASSUME NEW w \in Worker, worker_lock(w)
       PROVE  CallsNest'
  BY <1>19 DEF worker_lock, Runs, loopVars, baseVars, timerVars, killVars
<1>20. ASSUME NEW w \in Worker, worker_test(w)
       PROVE  CallsNest'
  BY <1>20 DEF worker_test, Runs, loopVars, baseVars, timerVars, killVars
<1>21. ASSUME NEW w \in Worker, worker_resume(w)
       PROVE  CallsNest'
  BY <1>21 DEF worker_resume, Runs, loopVars, baseVars, timerVars, mutexVars,
     killVars
<1>22. ASSUME NEW t \in Thread, kill_enter(t)
       PROVE  CallsNest'
  BY <1>22 DEF kill_enter, loopVars, baseVars, timerVars, mutexVars, workVars
<1>23. ASSUME NEW t \in Thread, kill_loopexit(t)
       PROVE  CallsNest'
  BY <1>23 DEF kill_loopexit, Inside, Goes, loopVars, baseVars, timerVars,
     mutexVars, workVars
<1>24. ASSUME NEW t \in Thread, kill_mark(t)
       PROVE  CallsNest'
  BY <1>24 DEF kill_mark, Inside, Goes, loopVars, baseVars, timerVars,
     mutexVars
<1>25. ASSUME NEW t \in Thread, kill_lock(t)
       PROVE  CallsNest'
  BY <1>25 DEF kill_lock, Inside, Goes, loopVars, baseVars, timerVars,
     workVars
<1>26. ASSUME NEW t \in Thread, kill_return(t)
       PROVE  CallsNest'
  BY <1>26 DEF kill_return, Inside, Goes, loopVars, baseVars, timerVars,
     workVars
<1>27. CASE UNCHANGED vars
  BY <1>27 DEF vars, loopVars, baseVars, timerVars, mutexVars, workVars,
     killVars
<1>28. QED
  BY <1>1, <1>2, <1>3, <1>4, <1>5, <1>6, <1>7, <1>8, <1>9, <1>10, <1>11,
     <1>12, <1>13, <1>14, <1>15, <1>16, <1>17, <1>18, <1>19, <1>20, <1>21,
     <1>22, <1>23, <1>24, <1>25, <1>26, <1>27, ServerCases

(* The first call of killServer precedes the timer, the timer              *)
(* event_gotterm, and that, an empty base or an error the end of the loop. *)
LEMMA KillStep ==
    ASSUME TypeOK, KillComesFirst, [Next]_vars
    PROVE  KillComesFirst'
<1> USE DEF TypeOK, KillComesFirst, Ended, Stages, Over, Levels
<1>1. ASSUME NEW from \in Stages \ {"queue"}, NEW to \in Stages \ {"queue"},
             run_stage(from, to)
      PROVE  KillComesFirst'
  BY <1>1 DEF run_stage, Runs, loopVars, baseVars, timerVars, mutexVars,
     workVars, killVars
<1>2. CASE run_base
  BY <1>2 DEF run_base, Runs, loopVars, timerVars, mutexVars, workVars,
     killVars
<1>3. CASE run_queue
  BY <1>3 DEF run_queue, Runs, loopVars, baseVars, timerVars, killVars
<1>4. CASE undo_mark
  BY <1>4 DEF undo_mark, Runs, loopVars, baseVars, timerVars, mutexVars,
     killVars
<1>5. CASE undo_lock
  BY <1>5 DEF undo_lock, Runs, loopVars, baseVars, timerVars, workVars,
     killVars
<1>6. CASE undo_return
  BY <1>6 DEF undo_return, Runs, loopVars, baseVars, timerVars, workVars,
     killVars
<1>7. CASE run_event
  BY <1>7 DEF run_event, Runs, loopVars, timerVars, mutexVars, workVars,
     killVars
<1>8. CASE loop_check
  BY <1>8 DEF loop_check, Runs, baseVars, timerVars, mutexVars, workVars,
     killVars
<1>9. CASE loop_wait
  BY <1>9 DEF loop_wait, Runs, loopVars, baseVars, timerVars, mutexVars,
     workVars, killVars
<1>10. CASE loop_wake
  BY <1>10 DEF loop_wake, Runs, loopVars, baseVars, timerVars, mutexVars,
     workVars, killVars
<1>11. CASE loop_fail
  BY <1>11 DEF loop_fail, Runs, baseVars, timerVars, mutexVars, workVars,
     killVars
<1>12. CASE loop_process
  BY <1>12 DEF loop_process, loop_timers, Runs, baseVars, mutexVars,
     workVars, killVars
<1>13. CASE loop_accept
  BY <1>13 DEF loop_accept, loop_timers, Runs, baseVars, mutexVars, workVars,
     killVars
<1>14. CASE add_lock
  BY <1>14 DEF add_lock, Runs, loopVars, baseVars, timerVars, workVars,
     killVars
<1>15. CASE add_unlock
  BY <1>15 DEF add_unlock, Runs, loopVars, baseVars, timerVars, workVars,
     killVars
<1>16. CASE run_free
  BY <1>16 DEF run_free, Runs, loopVars, timerVars, mutexVars, workVars,
     killVars
<1>17. CASE run_return
  BY <1>17 DEF run_return, Runs, loopVars, timerVars, mutexVars, workVars,
     killVars
<1>18. CASE connect
  BY <1>18 DEF connect, loopVars, baseVars, timerVars, mutexVars, workVars,
     killVars
<1>19. ASSUME NEW w \in Worker, worker_lock(w)
       PROVE  KillComesFirst'
  BY <1>19 DEF worker_lock, Runs, loopVars, baseVars, timerVars, killVars
<1>20. ASSUME NEW w \in Worker, worker_test(w)
       PROVE  KillComesFirst'
  BY <1>20 DEF worker_test, Runs, loopVars, baseVars, timerVars, killVars
<1>21. ASSUME NEW w \in Worker, worker_resume(w)
       PROVE  KillComesFirst'
  BY <1>21 DEF worker_resume, Runs, loopVars, baseVars, timerVars, mutexVars,
     killVars
<1>22. ASSUME NEW t \in Thread, kill_enter(t)
       PROVE  KillComesFirst'
  BY <1>22 DEF kill_enter, loopVars, baseVars, timerVars, mutexVars, workVars
<1>23. ASSUME NEW t \in Thread, kill_loopexit(t)
       PROVE  KillComesFirst'
  BY <1>23 DEF kill_loopexit, Inside, Goes, loopVars, baseVars, timerVars,
     mutexVars, workVars
<1>24. ASSUME NEW t \in Thread, kill_mark(t)
       PROVE  KillComesFirst'
  BY <1>24 DEF kill_mark, Inside, Goes, loopVars, baseVars, timerVars,
     mutexVars
<1>25. ASSUME NEW t \in Thread, kill_lock(t)
       PROVE  KillComesFirst'
  BY <1>25 DEF kill_lock, Inside, Goes, loopVars, baseVars, timerVars,
     workVars
<1>26. ASSUME NEW t \in Thread, kill_return(t)
       PROVE  KillComesFirst'
  BY <1>26 DEF kill_return, Inside, Goes, loopVars, baseVars, timerVars,
     workVars
<1>27. CASE UNCHANGED vars
  BY <1>27 DEF vars, loopVars, baseVars, timerVars, mutexVars, workVars,
     killVars
<1>28. QED
  BY <1>1, <1>2, <1>3, <1>4, <1>5, <1>6, <1>7, <1>8, <1>9, <1>10, <1>11,
     <1>12, <1>13, <1>14, <1>15, <1>16, <1>17, <1>18, <1>19, <1>20, <1>21,
     <1>22, <1>23, <1>24, <1>25, <1>26, <1>27, ServerCases

(* BaseFollowsMain is inductive with the types.                            *)
LEMMA BaseStep ==
    ASSUME TypeOK, BaseFollowsMain, [Next]_vars
    PROVE  BaseFollowsMain'
<1> USE DEF TypeOK, BaseFollowsMain, Stages, Over
<1>1. ASSUME NEW from \in Stages \ {"queue"}, NEW to \in Stages \ {"queue"},
             run_stage(from, to)
      PROVE  BaseFollowsMain'
  BY <1>1 DEF run_stage, Runs, loopVars, baseVars, timerVars, mutexVars,
     workVars, killVars
<1>2. CASE run_base
  BY <1>2 DEF run_base, Runs, loopVars, timerVars, mutexVars, workVars,
     killVars
<1>3. CASE run_queue
  BY <1>3 DEF run_queue, Runs, loopVars, baseVars, timerVars, killVars
<1>4. CASE undo_mark
  BY <1>4 DEF undo_mark, Runs, loopVars, baseVars, timerVars, mutexVars,
     killVars
<1>5. CASE undo_lock
  BY <1>5 DEF undo_lock, Runs, loopVars, baseVars, timerVars, workVars,
     killVars
<1>6. CASE undo_return
  BY <1>6 DEF undo_return, Runs, loopVars, baseVars, timerVars, workVars,
     killVars
<1>7. CASE run_event
  BY <1>7 DEF run_event, Runs, loopVars, timerVars, mutexVars, workVars,
     killVars
<1>8. CASE loop_check
  BY <1>8 DEF loop_check, Runs, baseVars, timerVars, mutexVars, workVars,
     killVars
<1>9. CASE loop_wait
  BY <1>9 DEF loop_wait, Runs, loopVars, baseVars, timerVars, mutexVars,
     workVars, killVars
<1>10. CASE loop_wake
  BY <1>10 DEF loop_wake, Arrived, Runs, loopVars, baseVars, timerVars, mutexVars,
     workVars, killVars
<1>11. CASE loop_fail
  BY <1>11 DEF loop_fail, Runs, baseVars, timerVars, mutexVars, workVars,
     killVars
<1>12. CASE loop_process
  BY <1>12 DEF loop_process, loop_timers, Runs, baseVars, mutexVars,
     workVars, killVars
<1>13. CASE loop_accept
  BY <1>13 DEF loop_accept, loop_timers, Runs, baseVars, mutexVars, workVars,
     killVars
<1>14. CASE add_lock
  BY <1>14 DEF add_lock, Runs, loopVars, baseVars, timerVars, workVars,
     killVars
<1>15. CASE add_unlock
  BY <1>15 DEF add_unlock, Runs, loopVars, baseVars, timerVars, workVars,
     killVars
<1>16. CASE run_free
  BY <1>16 DEF run_free, Runs, loopVars, timerVars, mutexVars, workVars,
     killVars
<1>17. CASE run_return
  BY <1>17 DEF run_return, Runs, loopVars, timerVars, mutexVars, workVars,
     killVars
<1>18. CASE connect
  BY <1>18 DEF connect, loopVars, baseVars, timerVars, mutexVars, workVars,
     killVars
<1>19. ASSUME NEW w \in Worker, worker_lock(w)
       PROVE  BaseFollowsMain'
  BY <1>19 DEF worker_lock, Runs, loopVars, baseVars, timerVars, killVars
<1>20. ASSUME NEW w \in Worker, worker_test(w)
       PROVE  BaseFollowsMain'
  BY <1>20 DEF worker_test, Runs, loopVars, baseVars, timerVars, killVars
<1>21. ASSUME NEW w \in Worker, worker_resume(w)
       PROVE  BaseFollowsMain'
  BY <1>21 DEF worker_resume, Runs, loopVars, baseVars, timerVars, mutexVars,
     killVars
<1>22. ASSUME NEW t \in Thread, kill_enter(t)
       PROVE  BaseFollowsMain'
  BY <1>22 DEF kill_enter, loopVars, baseVars, timerVars, mutexVars, workVars
<1>23. ASSUME NEW t \in Thread, kill_loopexit(t)
       PROVE  BaseFollowsMain'
  BY <1>23 DEF kill_loopexit, Inside, Goes, loopVars, baseVars, timerVars,
     mutexVars, workVars
<1>24. ASSUME NEW t \in Thread, kill_mark(t)
       PROVE  BaseFollowsMain'
  BY <1>24 DEF kill_mark, Inside, Goes, loopVars, baseVars, timerVars,
     mutexVars
<1>25. ASSUME NEW t \in Thread, kill_lock(t)
       PROVE  BaseFollowsMain'
  BY <1>25 DEF kill_lock, Inside, Goes, loopVars, baseVars, timerVars,
     workVars
<1>26. ASSUME NEW t \in Thread, kill_return(t)
       PROVE  BaseFollowsMain'
  BY <1>26 DEF kill_return, Inside, Goes, loopVars, baseVars, timerVars,
     workVars
<1>27. CASE UNCHANGED vars
  BY <1>27 DEF vars, loopVars, baseVars, timerVars, mutexVars, workVars,
     killVars
<1>28. QED
  BY <1>1, <1>2, <1>3, <1>4, <1>5, <1>6, <1>7, <1>8, <1>9, <1>10, <1>11,
     <1>12, <1>13, <1>14, <1>15, <1>16, <1>17, <1>18, <1>19, <1>20, <1>21,
     <1>22, <1>23, <1>24, <1>25, <1>26, <1>27, ServerCases

(* WorkersFollow is inductive with the types.                              *)
LEMMA WorkersStep ==
    ASSUME TypeOK, WorkersFollow, [Next]_vars
    PROVE  WorkersFollow'
<1> USE DEF TypeOK, WorkersFollow, Stages, Over
<1>1. ASSUME NEW from \in Stages \ {"queue"}, NEW to \in Stages \ {"queue"},
             run_stage(from, to)
      PROVE  WorkersFollow'
  BY <1>1 DEF run_stage, Runs, loopVars, baseVars, timerVars, mutexVars,
     workVars, killVars
<1>2. CASE run_base
  BY <1>2 DEF run_base, Runs, loopVars, timerVars, mutexVars, workVars,
     killVars
<1>3. CASE run_queue
  BY <1>3 DEF run_queue, Runs, loopVars, baseVars, timerVars, killVars
<1>4. CASE undo_mark
  BY <1>4 DEF undo_mark, Runs, loopVars, baseVars, timerVars, mutexVars,
     killVars
<1>5. CASE undo_lock
  BY <1>5 DEF undo_lock, Runs, loopVars, baseVars, timerVars, workVars,
     killVars
<1>6. CASE undo_return
  BY <1>6 DEF undo_return, Runs, loopVars, baseVars, timerVars, workVars,
     killVars
<1>7. CASE run_event
  BY <1>7 DEF run_event, Runs, loopVars, timerVars, mutexVars, workVars,
     killVars
<1>8. CASE loop_check
  BY <1>8 DEF loop_check, Runs, baseVars, timerVars, mutexVars, workVars,
     killVars
<1>9. CASE loop_wait
  BY <1>9 DEF loop_wait, Runs, loopVars, baseVars, timerVars, mutexVars,
     workVars, killVars
<1>10. CASE loop_wake
  BY <1>10 DEF loop_wake, Runs, loopVars, baseVars, timerVars, mutexVars,
     workVars, killVars
<1>11. CASE loop_fail
  BY <1>11 DEF loop_fail, Runs, baseVars, timerVars, mutexVars, workVars,
     killVars
<1>12. CASE loop_process
  BY <1>12 DEF loop_process, loop_timers, Runs, baseVars, mutexVars,
     workVars, killVars
<1>13. CASE loop_accept
  BY <1>13 DEF loop_accept, loop_timers, Runs, baseVars, mutexVars, workVars,
     killVars
<1>14. CASE add_lock
  BY <1>14 DEF add_lock, Runs, loopVars, baseVars, timerVars, workVars,
     killVars
<1>15. CASE add_unlock
  BY <1>15 DEF add_unlock, Runs, loopVars, baseVars, timerVars, workVars,
     killVars
<1>16. CASE run_free
  BY <1>16 DEF run_free, Runs, loopVars, timerVars, mutexVars, workVars,
     killVars
<1>17. CASE run_return
  BY <1>17 DEF run_return, Runs, loopVars, timerVars, mutexVars, workVars,
     killVars
<1>18. CASE connect
  BY <1>18 DEF connect, loopVars, baseVars, timerVars, mutexVars, workVars,
     killVars
<1>19. ASSUME NEW w \in Worker, worker_lock(w)
       PROVE  WorkersFollow'
  BY <1>19 DEF worker_lock, Runs, loopVars, baseVars, timerVars, killVars
<1>20. ASSUME NEW w \in Worker, worker_test(w)
       PROVE  WorkersFollow'
  BY <1>20 DEF worker_test, Runs, loopVars, baseVars, timerVars, killVars
<1>21. ASSUME NEW w \in Worker, worker_resume(w)
       PROVE  WorkersFollow'
  BY <1>21 DEF worker_resume, Runs, loopVars, baseVars, timerVars, mutexVars,
     killVars
<1>22. ASSUME NEW t \in Thread, kill_enter(t)
       PROVE  WorkersFollow'
  BY <1>22 DEF kill_enter, loopVars, baseVars, timerVars, mutexVars, workVars
<1>23. ASSUME NEW t \in Thread, kill_loopexit(t)
       PROVE  WorkersFollow'
  BY <1>23 DEF kill_loopexit, Inside, Goes, loopVars, baseVars, timerVars,
     mutexVars, workVars
<1>24. ASSUME NEW t \in Thread, kill_mark(t)
       PROVE  WorkersFollow'
  BY <1>24 DEF kill_mark, Inside, Goes, loopVars, baseVars, timerVars,
     mutexVars
<1>25. ASSUME NEW t \in Thread, kill_lock(t)
       PROVE  WorkersFollow'
  BY <1>25 DEF kill_lock, Inside, Goes, loopVars, baseVars, timerVars,
     workVars
<1>26. ASSUME NEW t \in Thread, kill_return(t)
       PROVE  WorkersFollow'
  BY <1>26 DEF kill_return, Inside, Goes, loopVars, baseVars, timerVars,
     workVars
<1>27. CASE UNCHANGED vars
  BY <1>27 DEF vars, loopVars, baseVars, timerVars, mutexVars, workVars,
     killVars
<1>28. QED
  BY <1>1, <1>2, <1>3, <1>4, <1>5, <1>6, <1>7, <1>8, <1>9, <1>10, <1>11,
     <1>12, <1>13, <1>14, <1>15, <1>16, <1>17, <1>18, <1>19, <1>20, <1>21,
     <1>22, <1>23, <1>24, <1>25, <1>26, <1>27, ServerCases

(* A step that leaves the mutex and who is in which part alone.            *)
LEMMA SameHolders ==
    ASSUME MutexHeld, jobs_mutex' = jobs_mutex, torn' = torn,
           \A t \in Thread : Section(t)' <=> Section(t),
           \A t \in Thread : \A d \in 1 .. 3 :
              kill_pc'[t][d] = "held" <=> kill_pc[t][d] = "held"
    PROVE  MutexHeld'
<1> SUFFICES ASSUME ~torn, NEW t \in Thread
             PROVE  /\ jobs_mutex' = t <=>
                          Section(t)' \/ \E d \in 1 .. 3 : kill_pc'[t][d] = "held"
                    /\ \A d \in 1 .. 3 : kill_pc'[t][d] = "held" =>
                          /\ ~Section(t)'
                          /\ \A e \in 1 .. 3 : kill_pc'[t][e] = "held" => e = d
  BY DEF MutexHeld
<1>1. /\ jobs_mutex = t <=> Section(t) \/ \E d \in 1 .. 3 : kill_pc[t][d] = "held"
      /\ \A d \in 1 .. 3 : kill_pc[t][d] = "held" =>
            /\ ~Section(t)
            /\ \A e \in 1 .. 3 : kill_pc[t][e] = "held" => e = d
  BY DEF MutexHeld
<1> HIDE DEF Section
<1>2. QED
  BY <1>1

(* jobs_mutex changes hands as MutexHeld says.                             *)
LEMMA MutexStep ==
    ASSUME TypeOK, CallsNest, BaseFollowsMain, WorkersFollow, MutexHeld,
           [Next]_vars
    PROVE  MutexHeld'
<1> USE DEF TypeOK, MutexHeld, Section, Stages, Over, Levels, Thread
<1>1. ASSUME NEW from \in Stages \ {"queue"}, NEW to \in Stages \ {"queue"},
             run_stage(from, to)
      PROVE  MutexHeld'
  BY <1>1, WorkerAssumption DEF run_stage, Runs, loopVars, baseVars,
     timerVars, mutexVars, workVars, killVars
<1>2. CASE run_base
  BY <1>2, WorkerAssumption DEF run_base, Runs, loopVars, timerVars,
     mutexVars, workVars, killVars
<1>3. CASE run_queue
  <2>1. SUFFICES ASSUME ~torn' PROVE MutexHeld'
    BY DEF MutexHeld
  <2>2. /\ ~torn /\ jobs_mutex = NONE /\ jobs_mutex' = NONE
        /\ main_pc' \in {"event", "mark"} /\ kill_pc' = kill_pc
    BY <1>3, <2>1 DEF run_queue, killVars
  <2>3. \A w \in Worker : worker_pc'[w] \in {"none", "lock"}
    BY <1>3 DEF run_queue
  <2>4. ASSUME NEW t \in Thread
        PROVE  jobs_mutex' # t /\ ~Section(t)' /\ \A d \in 1 .. 3 : kill_pc'[t][d] # "held"
    <3>1. jobs_mutex # t
      BY <2>2, WorkerAssumption
    <3>2. ~Section(t)'
      BY <2>2, <2>3
    <3>3. QED
      BY <2>2, <3>1, <3>2 DEF MutexHeld
  <2> HIDE DEF Section, Thread
  <2>5. QED
    BY <2>4 DEF MutexHeld
<1>4. CASE undo_mark
  BY <1>4, WorkerAssumption DEF undo_mark, Runs, loopVars, baseVars,
     timerVars, mutexVars, killVars
<1>5. CASE undo_lock
  BY <1>5, WorkerAssumption DEF undo_lock, Runs, loopVars, baseVars,
     timerVars, workVars, killVars
<1>6. CASE undo_return
  BY <1>6, WorkerAssumption DEF undo_return, Runs, loopVars, baseVars,
     timerVars, workVars, killVars
<1>7. CASE run_event
  BY <1>7, WorkerAssumption DEF run_event, Runs, loopVars, timerVars,
     mutexVars, workVars, killVars
<1>8. CASE loop_check
  BY <1>8, WorkerAssumption DEF loop_check, Runs, baseVars, timerVars,
     mutexVars, workVars, killVars
<1>9. CASE loop_wait
  BY <1>9, WorkerAssumption DEF loop_wait, Runs, loopVars, baseVars,
     timerVars, mutexVars, workVars, killVars
<1>10. CASE loop_wake
  BY <1>10, WorkerAssumption DEF loop_wake, Runs, loopVars, baseVars,
     timerVars, mutexVars, workVars, killVars
<1>11. CASE loop_fail
  BY <1>11, WorkerAssumption DEF loop_fail, Runs, baseVars, timerVars,
     mutexVars, workVars, killVars
<1>12. CASE loop_process
  BY <1>12, WorkerAssumption DEF loop_process, loop_timers, Runs, baseVars,
     mutexVars, workVars, killVars
<1>13. CASE loop_accept
  BY <1>13, WorkerAssumption DEF loop_accept, loop_timers, Runs, baseVars,
     mutexVars, workVars, killVars
<1>14. CASE add_lock
  BY <1>14, WorkerAssumption DEF add_lock, Runs, loopVars, baseVars,
     timerVars, workVars, killVars
<1>15. CASE add_unlock
  BY <1>15, WorkerAssumption DEF add_unlock, Runs, loopVars, baseVars,
     timerVars, workVars, killVars
<1>16. CASE run_free
  BY <1>16, WorkerAssumption DEF run_free, Runs, loopVars, timerVars,
     mutexVars, workVars, killVars
<1>17. CASE run_return
  BY <1>17, WorkerAssumption DEF run_return, Runs, loopVars, timerVars,
     mutexVars, workVars, killVars
<1>18. CASE connect
  BY <1>18, WorkerAssumption DEF connect, loopVars, baseVars, timerVars,
     mutexVars, workVars, killVars
<1>19. ASSUME NEW w \in Worker, worker_lock(w)
       PROVE  MutexHeld'
  BY <1>19, WorkerAssumption DEF worker_lock, Runs, loopVars, baseVars,
     timerVars, killVars
<1>20. ASSUME NEW w \in Worker, worker_test(w)
       PROVE  MutexHeld'
  <2>1. /\ torn' = torn /\ main_pc' = main_pc /\ kill_pc' = kill_pc
        /\ worker_pc[w] = "critical" /\ w # "main"
    BY <1>20, WorkerAssumption DEF worker_test, killVars
  <2>2. CASE terminate[w]
    <3>1. /\ jobs_mutex' = jobs_mutex
          /\ worker_pc' = [worker_pc EXCEPT ![w] = "gone"]
      BY <1>20, <2>2 DEF worker_test
    <3>2. \A u \in Thread : Section(u)' <=> Section(u)
      BY <2>1, <3>1
    <3>3. QED
      BY <2>1, <3>1, <3>2, SameHolders
  <2>3. CASE ~terminate[w]
    <3>1. /\ jobs_mutex' = NONE
          /\ worker_pc' = [worker_pc EXCEPT ![w] = "away"]
      BY <1>20, <2>3 DEF worker_test
    <3>2. SUFFICES ASSUME ~torn PROVE MutexHeld'
      BY <2>1 DEF MutexHeld
    <3>3. jobs_mutex = w /\ Section(w)
      BY <2>1, <3>2
    <3>4. ASSUME NEW u \in Thread
          PROVE  ~Section(u)' /\ \A d \in 1 .. 3 : kill_pc'[u][d] # "held"
      <4>1. CASE u = w
        BY <2>1, <3>1, <3>2, <3>3, <4>1
      <4>2. CASE u # w
        BY <2>1, <3>1, <3>2, <3>3, <4>2
      <4>3. QED
        BY <4>1, <4>2
    <3>5. \A u \in Thread : jobs_mutex' # u
      BY <3>1, WorkerAssumption
    <3>6. QED
      BY <3>4, <3>5
  <2>4. QED
    BY <2>2, <2>3
<1>21. ASSUME NEW w \in Worker, worker_resume(w)
       PROVE  MutexHeld'
  BY <1>21, WorkerAssumption DEF worker_resume, Runs, loopVars, baseVars,
     timerVars, mutexVars, killVars
<1>22. ASSUME NEW t \in Thread, kill_enter(t)
       PROVE  MutexHeld'
  <2>1. jobs_mutex' = jobs_mutex /\ torn' = torn
    BY <1>22 DEF kill_enter, mutexVars
  <2>2. \A u \in Thread : Section(u)' <=> Section(u)
    BY <1>22 DEF kill_enter, workVars
  <2>3. \A u \in Thread : \A d \in 1 .. 3 :
           kill_pc'[u][d] = "held" <=> kill_pc[u][d] = "held"
    BY <1>22 DEF kill_enter, CallsNest
  <2>4. QED
    BY <2>1, <2>2, <2>3, SameHolders
<1>23. ASSUME NEW t \in Thread, kill_loopexit(t)
       PROVE  MutexHeld'
  <2>1. jobs_mutex' = jobs_mutex /\ torn' = torn
    BY <1>23 DEF kill_loopexit, mutexVars
  <2>2. \A u \in Thread : Section(u)' <=> Section(u)
    BY <1>23 DEF kill_loopexit, BaseFollowsMain, Inside, workVars
  <2>3. \A u \in Thread : \A d \in 1 .. 3 :
           kill_pc'[u][d] = "held" <=> kill_pc[u][d] = "held"
    BY <1>23 DEF kill_loopexit, Inside, Goes, CallsNest
  <2>4. QED
    BY <2>1, <2>2, <2>3, SameHolders
<1>24. ASSUME NEW t \in Thread, kill_mark(t)
       PROVE  MutexHeld'
  <2>1. jobs_mutex' = jobs_mutex /\ torn' = torn
    BY <1>24 DEF kill_mark, mutexVars
  <2>2. \A u \in Thread : Section(u)' <=> Section(u)
    BY <1>24 DEF kill_mark, workVars
  <2>3. \A u \in Thread : \A d \in 1 .. 3 :
           kill_pc'[u][d] = "held" <=> kill_pc[u][d] = "held"
    BY <1>24 DEF kill_mark, Inside, Goes, CallsNest
  <2>4. QED
    BY <2>1, <2>2, <2>3, SameHolders
<1>25. ASSUME NEW t \in Thread, kill_lock(t)
       PROVE  MutexHeld'
  <2>1. /\ jobs_mutex = NONE /\ jobs_mutex' = t /\ torn' = torn
        /\ main_pc' = main_pc /\ worker_pc' = worker_pc /\ depth[t] \in 1 .. 3
        /\ kill_pc' = [kill_pc EXCEPT ![t][depth[t]] = "held"]
    BY <1>25 DEF kill_lock, Inside, Goes, workVars
  <2>2. SUFFICES ASSUME ~torn PROVE MutexHeld'
    BY <2>1 DEF MutexHeld
  <2>3. ASSUME NEW u \in Thread
        PROVE  ~Section(u)' /\ \A d \in 1 .. 3 : kill_pc[u][d] # "held"
    <3>1. jobs_mutex # u
      BY <2>1, WorkerAssumption
    <3>2. ~Section(u) /\ \A d \in 1 .. 3 : kill_pc[u][d] # "held"
      BY <2>2, <3>1 DEF MutexHeld
    <3>3. QED
      BY <2>1, <3>2
  <2>4. \A u \in Thread : \A d \in 1 .. 3 :
           kill_pc'[u][d] = "held" <=> u = t /\ d = depth[t]
    BY <2>1, <2>3
  <2> HIDE DEF Section
  <2>5. QED
    BY <2>1, <2>3, <2>4 DEF MutexHeld
<1>26. ASSUME NEW t \in Thread, kill_return(t)
       PROVE  MutexHeld'
  <2>1. /\ jobs_mutex' = NONE /\ torn' = torn /\ worker_pc' = worker_pc
        /\ depth[t] \in 1 .. 3 /\ kill_pc[t][depth[t]] = "held"
        /\ kill_pc' = [kill_pc EXCEPT ![t][depth[t]] = "idle"]
    BY <1>26 DEF kill_return, Inside, Goes, workVars
  <2>2. main_pc' = main_pc \/ (main_pc = "wait" /\ main_pc' = "process")
    BY <1>26 DEF kill_return
  <2>3. SUFFICES ASSUME ~torn PROVE MutexHeld'
    BY <2>1 DEF MutexHeld
  <2>4. \A u \in Thread : Section(u)' <=> Section(u)
    BY <2>1, <2>2
  <2>5. /\ jobs_mutex = t /\ ~Section(t)
        /\ \A d \in 1 .. 3 : kill_pc[t][d] = "held" => d = depth[t]
    BY <2>1, <2>3 DEF MutexHeld
  <2>6. ASSUME NEW u \in Thread, u # t
        PROVE  ~Section(u) /\ \A d \in 1 .. 3 : kill_pc[u][d] # "held"
    BY <2>3, <2>5, <2>6 DEF MutexHeld
  <2>7. \A u \in Thread : \A d \in 1 .. 3 : kill_pc'[u][d] # "held"
    BY <2>1, <2>5, <2>6
  <2>8. \A u \in Thread : jobs_mutex' # u
    BY <2>1, WorkerAssumption
  <2> HIDE DEF Section
  <2>9. QED
    BY <2>4, <2>5, <2>6, <2>7, <2>8 DEF MutexHeld
<1>27. CASE UNCHANGED vars
  BY <1>27, WorkerAssumption DEF vars, loopVars, baseVars, timerVars,
     mutexVars, workVars, killVars
<1> HIDE DEF TypeOK, MutexHeld, Section, Stages, Over, Levels, Thread
<1>28. QED
  BY <1>1, <1>2, <1>3, <1>4, <1>5, <1>6, <1>7, <1>8, <1>9, <1>10, <1>11,
     <1>12, <1>13, <1>14, <1>15, <1>16, <1>17, <1>18, <1>19, <1>20, <1>21,
     <1>22, <1>23, <1>24, <1>25, <1>26, <1>27, ServerCases

(* Types.                                                                  *)
LEMMA TypeStep ==
    ASSUME TypeOK, BaseFollowsMain, [Next]_vars
    PROVE  TypeOK'
<1> USE DEF TypeOK, Stages, Over, Levels, Thread
<1>0. Marked \in [Worker -> BOOLEAN]
  BY DEF Marked
<1>1. ASSUME NEW from \in Stages \ {"queue"}, NEW to \in Stages \ {"queue"},
             run_stage(from, to)
      PROVE  TypeOK'
  BY <1>1, BoundAssumption DEF run_stage, Runs, loopVars, baseVars,
     timerVars, mutexVars, workVars, killVars
<1>2. CASE run_base
  BY <1>2, BoundAssumption DEF run_base, Runs, loopVars, timerVars,
     mutexVars, workVars, killVars
<1>3. CASE run_queue
  BY <1>3, BoundAssumption DEF run_queue, Runs, loopVars, baseVars,
     timerVars, killVars
<1>4. CASE undo_mark
  BY <1>0, <1>4, BoundAssumption DEF undo_mark, Runs, loopVars, baseVars,
     timerVars, mutexVars, killVars
<1>5. CASE undo_lock
  BY <1>5, BoundAssumption DEF undo_lock, Runs, loopVars, baseVars,
     timerVars, workVars, killVars
<1>6. CASE undo_return
  BY <1>6, BoundAssumption DEF undo_return, Runs, loopVars, baseVars,
     timerVars, workVars, killVars
<1>7. CASE run_event
  BY <1>7, BoundAssumption DEF run_event, Runs, loopVars, timerVars,
     mutexVars, workVars, killVars
<1>8. CASE loop_check
  BY <1>8, BoundAssumption DEF loop_check, Runs, baseVars, timerVars,
     mutexVars, workVars, killVars
<1>9. CASE loop_wait
  BY <1>9, BoundAssumption DEF loop_wait, Runs, loopVars, baseVars,
     timerVars, mutexVars, workVars, killVars
<1>10. CASE loop_wake
  BY <1>10, BoundAssumption DEF loop_wake, Runs, loopVars, baseVars,
     timerVars, mutexVars, workVars, killVars
<1>11. CASE loop_fail
  BY <1>11, BoundAssumption DEF loop_fail, Runs, baseVars, timerVars,
     mutexVars, workVars, killVars
<1>12. CASE loop_process
  BY <1>12, BoundAssumption DEF loop_process, loop_timers, Runs, baseVars,
     mutexVars, workVars, killVars
<1>13. CASE loop_accept
  <2>1. backlog > 0
    BY <1>13 DEF loop_accept, BaseFollowsMain
  <2>2. backlog' \in 0 .. CONNECTION_BACKLOG
    BY <1>13, <2>1, BoundAssumption DEF loop_accept
  <2>3. /\ main_pc' \in {"check", "add"} /\ gotterm' \in BOOLEAN
        /\ exit_timer' = FALSE /\ missed' = FALSE
    BY <1>13 DEF loop_accept, loop_timers
  <2>4. QED
    BY <1>13, <2>2, <2>3 DEF loop_accept, baseVars, mutexVars, workVars, killVars
<1>14. CASE add_lock
  BY <1>14, BoundAssumption DEF add_lock, Runs, loopVars, baseVars,
     timerVars, workVars, killVars
<1>15. CASE add_unlock
  BY <1>15, BoundAssumption DEF add_unlock, Runs, loopVars, baseVars,
     timerVars, workVars, killVars
<1>16. CASE run_free
  BY <1>16, BoundAssumption DEF run_free, Runs, loopVars, timerVars,
     mutexVars, workVars, killVars
<1>17. CASE run_return
  BY <1>17, BoundAssumption DEF run_return, Runs, loopVars, timerVars,
     mutexVars, workVars, killVars
<1>18. CASE connect
  BY <1>18, BoundAssumption DEF connect, loopVars, baseVars, timerVars,
     mutexVars, workVars, killVars
<1>19. ASSUME NEW w \in Worker, worker_lock(w)
       PROVE  TypeOK'
  BY <1>19, BoundAssumption DEF worker_lock, Runs, loopVars, baseVars,
     timerVars, killVars
<1>20. ASSUME NEW w \in Worker, worker_test(w)
       PROVE  TypeOK'
  BY <1>20, BoundAssumption DEF worker_test, Runs, loopVars, baseVars,
     timerVars, killVars
<1>21. ASSUME NEW w \in Worker, worker_resume(w)
       PROVE  TypeOK'
  BY <1>21, BoundAssumption DEF worker_resume, Runs, loopVars, baseVars,
     timerVars, mutexVars, killVars
<1>22. ASSUME NEW t \in Thread, kill_enter(t)
       PROVE  TypeOK'
  BY <1>22, BoundAssumption DEF kill_enter, loopVars, baseVars, timerVars,
     mutexVars, workVars
<1>23. ASSUME NEW t \in Thread, kill_loopexit(t)
       PROVE  TypeOK'
  BY <1>23, BoundAssumption DEF kill_loopexit, Inside, Goes, loopVars,
     baseVars, timerVars, mutexVars, workVars
<1>24. ASSUME NEW t \in Thread, kill_mark(t)
       PROVE  TypeOK'
  BY <1>0, <1>24, BoundAssumption DEF kill_mark, Inside, Goes, loopVars, baseVars,
     timerVars, mutexVars
<1>25. ASSUME NEW t \in Thread, kill_lock(t)
       PROVE  TypeOK'
  BY <1>25, BoundAssumption DEF kill_lock, Inside, Goes, loopVars, baseVars,
     timerVars, workVars
<1>26. ASSUME NEW t \in Thread, kill_return(t)
       PROVE  TypeOK'
  BY <1>26, BoundAssumption DEF kill_return, Inside, Goes, loopVars,
     baseVars, timerVars, workVars
<1>27. CASE UNCHANGED vars
  BY <1>27, BoundAssumption DEF vars, loopVars, baseVars, timerVars,
     mutexVars, workVars, killVars
<1>28. QED
  BY <1>1, <1>2, <1>3, <1>4, <1>5, <1>6, <1>7, <1>8, <1>9, <1>10, <1>11,
     <1>12, <1>13, <1>14, <1>15, <1>16, <1>17, <1>18, <1>19, <1>20, <1>21,
     <1>22, <1>23, <1>24, <1>25, <1>26, <1>27, ServerCases

(* ServerInv is an invariant of Server.                                    *)
THEOREM ServerInvariance == Spec => []ServerInv
<1>1. Init => ServerInv
  <2> SUFFICES ASSUME Init PROVE ServerInv
    OBVIOUS
  <2> USE DEF Init, Stages, Over
  <2>1. TypeOK
    <3>1. {forever, accepting, wait_failed, exit_timer, missed, gotterm, torn}
             \subseteq BOOLEAN
      OBVIOUS
    <3>2. terminate \in [Worker -> BOOLEAN]
      OBVIOUS
    <3>3. backlog \in 0 .. CONNECTION_BACKLOG /\ kills \in 0 .. MaxKills
      BY BoundAssumption
    <3>4. worker_pc \in [Worker -> {"none", "lock", "critical", "away", "gone"}]
      OBVIOUS
    <3>5. /\ depth \in [Thread -> 0 .. 3] /\ \A t \in Thread : depth[t] <= Levels(t)
          /\ kill_pc \in [Thread -> [1 .. 3 -> {"idle", "loopexit", "mark", "lock",
                                               "held"}]]
      BY DEF Levels
    <3>6. QED
      BY <3>1, <3>2, <3>3, <3>4, <3>5 DEF TypeOK
  <2>2. CallsNest /\ KillComesFirst /\ BaseFollowsMain /\ WorkersFollow
    BY DEF CallsNest, KillComesFirst, BaseFollowsMain, WorkersFollow
  <2>3. MutexHeld
    BY WorkerAssumption DEF MutexHeld, Section, Thread
  <2>4. QED
    BY <2>1, <2>2, <2>3 DEF ServerInv
<1>2. ServerInv /\ [Next]_vars => ServerInv'
  BY TypeStep, NestStep, KillStep, BaseStep, WorkersStep, MutexStep DEF ServerInv
<1>3. QED
  BY <1>1, <1>2, PTL DEF Spec

(* runServer returns 0 only after a killServer got through to its loop, or *)
(* since event_add failed for the listening socket or epoll_wait failed    *)
(* (server_threaded.c:338-377, event.c:1617-1636), for any number of       *)
(* signals, on any threads and nested in any way.                          *)
THEOREM ReturnsWhenKilled == Spec => []ReturnsOnlyWhenKilled
<1>1. ServerInv => ReturnsOnlyWhenKilled
  BY DEF ServerInv, KillComesFirst, Ended, ReturnsOnlyWhenKilled
<1>2. QED
  BY <1>1, ServerInvariance, PTL

(* jobs_mutex excludes: one thread at most has it, which is inside         *)
(* workqueue_add_job, or inside one workqueue_shutdown, of runServer's     *)
(* failure path or of a handler, or is a worker that has locked it or has  *)
(* ended with it (workqueue.c:32-58, 89-112), unless workqueue_init        *)
(* cleared it while a killServer had it.                                   *)
THEOREM MutexExcludes == Spec => []MutexHeld
<1>1. ServerInv => MutexHeld
  BY DEF ServerInv
<1>2. QED
  BY <1>1, ServerInvariance, PTL

-----------------------------------------------------------------------------
(* The accounts                                                            *)

(* Who is answered 0 to a registration, or will be unless the process      *)
(* ends, has its row; with the unique key a login has one row.             *)
Stored ==
    /\ unique => \A u, v \in jt_users : u[1] = v[1] => u = v
    /\ \A c \in Client :
          request[c].f = "register" /\ (pc[c] = "inserted" \/ reply[c] = "0")
             => Table!Row(request[c]) \in jt_users

TableInv == Table!TypeOK /\ Stored

(* A step of a connection, or an end of the process, keeps the rows.       *)
LEMMA StoredStep ==
    ASSUME TableInv, [Table!Next]_Table!vars
    PROVE  Stored'
<1> USE DEF TableInv, Stored, Table!TypeOK
<1>1. ASSUME NEW c \in Client, Table!send(c) PROVE Stored'
  BY <1>1 DEF Table!send
<1>2. ASSUME NEW c \in Client, Table!read_junk(c) PROVE Stored'
  BY <1>2 DEF Table!read_junk, Table!Answer
<1>3. ASSUME NEW c \in Client, Table!read_call(c) PROVE Stored'
  BY <1>3 DEF Table!read_call
<1>4. ASSUME NEW c \in Client, Table!call_other(c) PROVE Stored'
  BY <1>4 DEF Table!call_other, Table!Answer
<1>5. ASSUME NEW c \in Client, Table!register_insert(c) PROVE Stored'
  <2>1. jt_users' = jt_users \cup {Table!Row(request[c])}
    BY <1>5 DEF Table!register_insert
  <2>2. Table!Row(request[c])[1] = Table!Value(request[c].login)
    BY DEF Table!Row
  <2>3. unique' => \A u, v \in jt_users' : u[1] = v[1] => u = v
    BY <1>5, <2>1, <2>2 DEF Table!register_insert
  <2>4. \A d \in Client :
           request'[d].f = "register" /\ (pc'[d] = "inserted" \/ reply'[d] = "0")
             => Table!Row(request'[d]) \in jt_users'
    BY <1>5, <2>1 DEF Table!register_insert
  <2>5. QED
    BY <2>3, <2>4
<1>6. ASSUME NEW c \in Client, Table!register_ok(c) PROVE Stored'
  BY <1>6 DEF Table!register_ok, Table!Answer
<1>7. ASSUME NEW c \in Client, Table!register_fail(c) PROVE Stored'
  BY <1>7 DEF Table!register_fail, Table!Answer
<1>8. ASSUME NEW c \in Client, Table!login_ok(c) PROVE Stored'
  BY <1>8 DEF Table!login_ok, Table!Answer
<1>9. ASSUME NEW c \in Client, Table!login_fail(c) PROVE Stored'
  BY <1>9 DEF Table!login_fail, Table!Answer
<1>10. CASE Table!process_exit
  BY <1>10 DEF Table!process_exit
<1>11. CASE UNCHANGED Table!vars
  BY <1>11 DEF Table!vars
<1>12. QED
  BY <1>1, <1>2, <1>3, <1>4, <1>5, <1>6, <1>7, <1>8, <1>9, <1>10, <1>11
     DEF Table!Next, Table!serve

(* The types of the accounts, for any texts and clients.                   *)
LEMMA TableTypeStep ==
    ASSUME Table!TypeOK, [Table!Next]_Table!vars
    PROVE  Table!TypeOK'
<1> USE DEF Table!TypeOK
<1>1. ASSUME NEW c \in Client, Table!send(c) PROVE Table!TypeOK'
  <2>1. sends' \in 0 .. MaxSends
    BY <1>1, AccountsAssumption DEF Table!send, Table!BoundAssumption
  <2>2. request' \in [Client -> Table!Request \cup {Table!NoRequest}]
    BY <1>1 DEF Table!send
  <2>3. /\ reply' \in [Client -> {"none", "lost", "null", "0", "-11", "-111",
                               "-121"}]
        /\ pc' \in [Client -> {"idle", "read", "query", "inserted"}]
    BY <1>1 DEF Table!send
  <2>4. QED
    BY <1>1, <2>1, <2>2, <2>3 DEF Table!send
<1>2. ASSUME NEW c \in Client, Table!read_junk(c) PROVE Table!TypeOK'
  BY <1>2 DEF Table!read_junk, Table!Answer
<1>3. ASSUME NEW c \in Client, Table!read_call(c) PROVE Table!TypeOK'
  BY <1>3 DEF Table!read_call
<1>4. ASSUME NEW c \in Client, Table!call_other(c) PROVE Table!TypeOK'
  BY <1>4 DEF Table!call_other, Table!Answer
<1>5. ASSUME NEW c \in Client, Table!register_insert(c) PROVE Table!TypeOK'
  <2>1. Table!Row(request[c]) \in Nat \X Nat
    BY DEF Table!Row, Table!Value, Table!PassValue
  <2>2. jt_users' \subseteq Nat \X Nat
    BY <1>5, <2>1 DEF Table!register_insert
  <2>3. QED
    BY <1>5, <2>2 DEF Table!register_insert
<1>6. ASSUME NEW c \in Client, Table!register_ok(c) PROVE Table!TypeOK'
  BY <1>6 DEF Table!register_ok, Table!Answer
<1>7. ASSUME NEW c \in Client, Table!register_fail(c) PROVE Table!TypeOK'
  BY <1>7 DEF Table!register_fail, Table!Answer
<1>8. ASSUME NEW c \in Client, Table!login_ok(c) PROVE Table!TypeOK'
  BY <1>8 DEF Table!login_ok, Table!Answer
<1>9. ASSUME NEW c \in Client, Table!login_fail(c) PROVE Table!TypeOK'
  BY <1>9 DEF Table!login_fail, Table!Answer
<1>10. CASE Table!process_exit
  <2>1. exits' \in 0 .. MaxExits
    BY <1>10, AccountsAssumption DEF Table!process_exit, Table!BoundAssumption
  <2>2. reply' \in [Client -> {"none", "lost", "null", "0", "-11", "-111",
                               "-121"}]
    BY <1>10 DEF Table!process_exit
  <2>3. QED
    BY <1>10, <2>1, <2>2 DEF Table!process_exit
<1>11. CASE UNCHANGED Table!vars
  BY <1>11 DEF Table!vars
<1>12. QED
  BY <1>1, <1>2, <1>3, <1>4, <1>5, <1>6, <1>7, <1>8, <1>9, <1>10, <1>11
     DEF Table!Next, Table!serve

(* A behaviour of the two parts is one of each: the other one stutters.    *)
LEMMA Parts == MCSpec => Spec /\ Table!Spec
<1>1. MCInit => Init /\ Table!Init
  BY DEF MCInit
<1>2. [MCNext]_allVars => [Next]_vars /\ [Table!Next]_Table!vars
  BY DEF MCNext, allVars, tableVars, Table!vars
<1>3. QED
  BY <1>1, <1>2, PTL DEF MCSpec, Spec, Table!Spec

(* TableInv is an invariant of the accounts.                               *)
THEOREM TableInvariance == Table!Spec => []TableInv
<1>1. Table!Init => TableInv
  <2> SUFFICES ASSUME Table!Init PROVE TableInv
    OBVIOUS
  <2> USE DEF Table!Init
  <2>1. sends \in 0 .. MaxSends /\ exits \in 0 .. MaxExits
    BY AccountsAssumption DEF Table!BoundAssumption
  <2>2. request \in [Client -> Table!Request \cup {Table!NoRequest}]
    OBVIOUS
  <2>3. Table!TypeOK
    BY <2>1, <2>2 DEF Table!TypeOK
  <2>4. Stored
    BY DEF Stored, Table!NoRequest
  <2>5. QED
    BY <2>3, <2>4 DEF TableInv
<1>2. TableInv /\ [Table!Next]_Table!vars => TableInv'
  BY TableTypeStep, StoredStep DEF TableInv
<1>3. QED
  BY <1>1, <1>2, PTL DEF Table!Spec

(* Every variable of the server and of the accounts has its type.          *)
THEOREM TypesCorrect == MCSpec => []TypesOK
<1>1. ServerInv /\ TableInv => TypesOK
  BY DEF ServerInv, TableInv, TypesOK
<1>2. QED
  BY <1>1, Parts, ServerInvariance, TableInvariance, PTL

(* Who was answered 0 to a registration finds the account again with the   *)
(* same texts, whatever they are as expressions, whoever else registers    *)
(* and however often the process ends, with a unique key and without; with *)
(* one a login has one password (server_threaded.c:79-90,                  *)
(* dbmanager.cpp:84-127).                                                  *)
THEOREM AccountsKept == MCSpec => []RegistrationsKept
<1>1. TableInv => RegistrationsKept
  <2> SUFFICES ASSUME TableInv PROVE Table!RegistrationsKept
    BY DEF RegistrationsKept
  <2>1. ASSUME NEW c \in Client, request[c].f = "register", reply[c] = "0"
        PROVE  \E u \in jt_users : Table!Selected(request[c], u)
    <3>1. Table!Row(request[c]) \in jt_users
      BY <2>1 DEF TableInv, Stored
    <3>2. Table!Selected(request[c], Table!Row(request[c]))
      BY DEF Table!Selected, Table!Row
    <3>3. QED
      BY <3>1, <3>2
  <2>2. QED
    BY <2>1 DEF Table!RegistrationsKept, TableInv, Stored
<1>2. QED
  BY <1>1, Parts, TableInvariance, PTL

=============================================================================
