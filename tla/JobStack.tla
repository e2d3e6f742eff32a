------------------------------ MODULE JobStack ------------------------------
(***************************************************************************)
(* What workqueue.h promises to its callers, with no threads, mutex or     *)
(* condition variable in it: a job handed to workqueue_add_job is run at   *)
(* most once, at most Slots jobs run at a time, and a job that waits is    *)
(* either started or dropped by workqueue_shutdown.  The waiting jobs form *)
(* a stack, because LL_ADD pushes at the head of the list and the workers  *)
(* pop the head (workqueue.c:13-24, 43-46, 109).                           *)
(***************************************************************************)
EXTENDS Naturals, Sequences, FiniteSets, TLAPS

CONSTANTS Job,     \* the jobs callers may submit
          Slots    \* the number of workers

VARIABLES stack,     \* waiting jobs, the newest first
          running,   \* jobs being executed
          finished,  \* jobs whose function has returned
          dropped    \* jobs abandoned by a shutdown

jsvars == <<stack, running, finished, dropped>>

Elements(s) == {s[i] : i \in DOMAIN s}
Distinct(s) == \A i, k \in DOMAIN s : s[i] = s[k] => i = k

Stacked == Elements(stack)

JSInit ==
    /\ stack = <<>>
    /\ running = {}
    /\ finished = {}
    /\ dropped = {}

(* A job is submitted once: the caller allocates a new job_t every time.   *)
Submit(j) ==
    /\ j \notin Stacked \cup running \cup finished \cup dropped
    /\ stack' = <<j>> \o stack
    /\ UNCHANGED <<running, finished, dropped>>

(* The newest waiting job starts, if a worker is free to run it.           *)
Start ==
    /\ stack # <<>>
    /\ Cardinality(running) < Slots
    /\ running' = running \cup {Head(stack)}
    /\ stack' = Tail(stack)
    /\ UNCHANGED <<finished, dropped>>

Finish(j) ==
    /\ j \in running
    /\ running' = running \ {j}
    /\ finished' = finished \cup {j}
    /\ UNCHANGED <<stack, dropped>>

(* A shutdown abandons every waiting job; the ones running are not         *)
(* disturbed.                                                              *)
DropAll ==
    /\ dropped' = dropped \cup Stacked
    /\ stack' = <<>>
    /\ UNCHANGED <<running, finished>>

JSNext ==
    \/ \E j \in Job : Submit(j) \/ Finish(j)
    \/ Start
    \/ DropAll

JSSpec == JSInit /\ [][JSNext]_jsvars

-----------------------------------------------------------------------------
(* What the proofs of those that use or implement the stack need: its      *)
(* elements and their being distinct, under a push and a pop.              *)

(* Pushing at the head of a sequence, as LL_ADD does: its elements are the *)
(* new one and the old ones.                                               *)
LEMMA PushProperties ==
    ASSUME NEW S, NEW e \in S, NEW s \in Seq(S)
    PROVE  /\ <<e>> \o s \in Seq(S)
           /\ Len(<<e>> \o s) = Len(s) + 1
           /\ (<<e>> \o s)[1] = e
           /\ \A i \in 1 .. Len(s) : (<<e>> \o s)[i + 1] = s[i]
  OBVIOUS

(* The same for the set of its elements, and for their being distinct.     *)
LEMMA PushElements ==
    ASSUME NEW S, NEW e \in S, NEW s \in Seq(S), NEW t, t = <<e>> \o s
    PROVE  /\ Elements(t) = Elements(s) \cup {e}
           /\ e \notin Elements(s) /\ Distinct(s) => Distinct(t)
<1>1. /\ Len(s) \in Nat
      /\ DOMAIN s = 1 .. Len(s)
      /\ DOMAIN t = 1 .. Len(s) + 1
      /\ t[1] = e
      /\ \A i \in 1 .. Len(s) : t[i + 1] = s[i]
  BY PushProperties
<1>2. \A k \in DOMAIN t :
        k = 1 \/ (k - 1 \in DOMAIN s /\ t[k] = s[k - 1])
  <2>1. SUFFICES ASSUME NEW k \in DOMAIN t, k # 1
                 PROVE  k - 1 \in DOMAIN s /\ t[k] = s[k - 1]
    OBVIOUS
  <2>2. k - 1 \in 1 .. Len(s) /\ (k - 1) + 1 = k
    BY <1>1, <2>1
  <2>3. QED
    BY <1>1, <2>2
<1>3. \A i \in DOMAIN s : i + 1 \in DOMAIN t /\ t[i + 1] = s[i]
  BY <1>1
<1>4. 1 \in DOMAIN t /\ DOMAIN t \subseteq Nat
  BY <1>1
<1>5. Elements(t) = Elements(s) \cup {e}
  <2>1. ASSUME NEW x, x \in Elements(t)
        PROVE  x \in Elements(s) \cup {e}
    <3>1. PICK k \in DOMAIN t : x = t[k]
      BY <2>1 DEF Elements
    <3>2. CASE k = 1
      BY <1>1, <3>1, <3>2
    <3>3. CASE k # 1
      BY <1>2, <3>1, <3>3 DEF Elements
    <3>4. QED
      BY <3>2, <3>3
  <2>2. ASSUME NEW x, x \in Elements(s) \cup {e}
        PROVE  x \in Elements(t)
    BY <1>1, <1>3, <1>4, <2>2 DEF Elements
  <2>3. QED
    BY <2>1, <2>2
<1>6. ASSUME e \notin Elements(s), Distinct(s) PROVE Distinct(t)
  BY <1>1, <1>2, <1>4, <1>6 DEF Elements, Distinct
<1>7. QED
  BY <1>5, <1>6

(* Removing the head, as LL_REMOVE does when a worker takes a job.         *)
LEMMA PopElements ==
    ASSUME NEW S, NEW s \in Seq(S), s # <<>>, NEW t, t = Tail(s)
    PROVE  /\ Head(s) \in S /\ t \in Seq(S)
           /\ Elements(s) = Elements(t) \cup {Head(s)}
           /\ Distinct(s)
              => /\ Distinct(t)
                 /\ Head(s) \notin Elements(t)
<1>1. /\ Len(s) \in Nat /\ Len(s) >= 1
      /\ DOMAIN s = 1 .. Len(s)
      /\ DOMAIN t = 1 .. Len(s) - 1
      /\ s[1] = Head(s) /\ Head(s) \in S /\ t \in Seq(S)
      /\ \A i \in 1 .. Len(s) - 1 : t[i] = s[i + 1]
  OBVIOUS
<1>2. \A k \in DOMAIN s :
        k = 1 \/ (k - 1 \in DOMAIN t /\ s[k] = t[k - 1])
  <2>1. SUFFICES ASSUME NEW k \in DOMAIN s, k # 1
                 PROVE  k - 1 \in DOMAIN t /\ s[k] = t[k - 1]
    OBVIOUS
  <2>2. k - 1 \in 1 .. Len(s) - 1 /\ (k - 1) + 1 = k
    BY <1>1, <2>1
  <2>3. QED
    BY <1>1, <2>2
<1>3. \A i \in DOMAIN t : i + 1 \in DOMAIN s /\ i + 1 # 1 /\ s[i + 1] = t[i]
  BY <1>1
<1>4. 1 \in DOMAIN s /\ DOMAIN t \subseteq Nat
  BY <1>1
<1>5. Elements(s) = Elements(t) \cup {Head(s)}
  <2>1. ASSUME NEW x, x \in Elements(s)
        PROVE  x \in Elements(t) \cup {Head(s)}
    <3>1. PICK k \in DOMAIN s : x = s[k]
      BY <2>1 DEF Elements
    <3>2. CASE k = 1
      BY <1>1, <3>1, <3>2
    <3>3. CASE k # 1
      BY <1>2, <3>1, <3>3 DEF Elements
    <3>4. QED
      BY <3>2, <3>3
  <2>2. ASSUME NEW x, x \in Elements(t) \cup {Head(s)}
        PROVE  x \in Elements(s)
    BY <1>1, <1>3, <1>4, <2>2 DEF Elements
  <2>3. QED
    BY <2>1, <2>2
<1>6. ASSUME Distinct(s)
      PROVE  /\ Distinct(t)
             /\ Head(s) \notin Elements(t)
  BY <1>1, <1>3, <1>4, <1>6 DEF Elements, Distinct
<1>7. QED
  BY <1>1, <1>5, <1>6

=============================================================================
