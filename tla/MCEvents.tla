------------------------------ MODULE MCEvents ------------------------------
(***************************************************************************)
(* libevent's event loop, its descriptor map, its signals and a client of  *)
(* its timers and deferred callbacks, evdns_getaddrinfo, for TLC: each     *)
(* instance below is a part, and a behaviour is one of a single part.      *)
(* Names that the parts share are one variable here.  A part that has      *)
(* proofs is an instance of their module, so that its theorems are about   *)
(* this specification too (MCEventsProofs); for TLC the theorems are       *)
(* nothing.                                                                *)
(***************************************************************************)
EXTENDS Integers, Sequences, FiniteSets, TLC

CONSTANTS io, t1, t2, CTL, EXIT,            \* events of the loop
          r1, r2, w1, d1, d2, f1, f2, f3,   \* events, descriptors and files
          e1, e2, e3, p1, s1, s2, None  \* signal events, bases, signals

VARIABLES part, base, pc, at, clock, ops, asked, b, k,
          glob, handler, active, running, left, called, asserted, raised, calls,
          r, op

allVars == <<part, base, pc, at, clock, ops, asked, b, k,
             glob, handler, active, running, left, called, asserted, raised, calls,
             r, op>>

Deferred == {}
MaxDeferred == 1
Delay == {1}

(* A persistent I/O event and a timer, with two priorities.                *)
Queues == INSTANCE EventBase
    WITH Ev <- {io, t1}, Kind <- (io :> "io") @@ (t1 :> "timer"), Persist <- {io},
         NPri <- 2, CommonDelay <- {}, MonotonicClock <- TRUE, MaxTime <- 3,
         MaxOps <- 4

(* Two timers with a common timeout, one of them persistent; the clock of  *)
(* the system may be set back.                                             *)
Common == INSTANCE EventBase
    WITH Ev <- {t1, t2}, Kind <- [e \in {t1, t2} |-> "timer"], Persist <- {t2},
         NPri <- 1, CommonDelay <- {2}, MonotonicClock <- FALSE, MaxTime <- 3,
         MaxOps <- 4

Reading == {r1, r2, w1}
Directions == [e \in Reading |-> CASE e = r1 -> {"read"} [] e = w1 -> {"write"}
                                   [] OTHER -> {"read", "write"}]

(* Three events on a descriptor, whose changes are batched.                *)
Batched == INSTANCE EvmapProofs
    WITH Ev <- Reading, Fd <- {d1}, File <- {f1, f2}, FdOf <- [e \in Reading |-> d1],
         KindOf <- Directions, Persist <- {r1}, MaxCount <- 2, Refused <- {},
         Changelist <- TRUE, Clones <- FALSE,
         CloseFirst <- FALSE, MaxOps <- 8

(* Two descriptors and a file that epoll refuses, without a changelist.    *)
Direct == INSTANCE EvmapProofs
    WITH Ev <- Reading, Fd <- {d1, d2}, File <- {f1, f2},
         FdOf <- [e \in Reading |-> IF e = r2 THEN d2 ELSE d1],
         KindOf <- Directions, Persist <- {r1, w1}, MaxCount <- 2, Refused <- {f2},
         Changelist <- FALSE, Clones <- FALSE,
         CloseFirst <- FALSE, MaxOps <- 6

(* An application that duplicates descriptors.                             *)
Cloned == INSTANCE EvmapProofs
    WITH Ev <- Reading, Fd <- {d1}, File <- {f1, f2, f3},
         FdOf <- [e \in Reading |-> d1], KindOf <- Directions,
         Persist <- {r2}, MaxCount <- 1, Refused <- {},
         Changelist <- FALSE, Clones <- TRUE, CloseFirst <- FALSE, MaxOps <- 6

(* One base with two events of one signal and one of another.              *)
Signals == INSTANCE EvSignalProofs
    WITH Base <- {p1}, Sig <- {s1, s2}, Ev <- {e1, e2, e3},
         BaseOf <- [e \in {e1, e2, e3} |-> p1],
         SigOf <- [e \in {e1, e2, e3} |-> IF e = e3 THEN s2 ELSE s1],
         Room <- 2, MaxRaise <- 3, MaxCalls <- 6

(* One evdns_getaddrinfo, for either family or both.                       *)
Addrinfo == INSTANCE EvdnsGetaddrinfoProofs WITH Families <- {{4}, {6}, {4, 6}}

ASSUME PartAssumptions ==
    /\ Queues!EvAssumption /\ Queues!KindAssumption /\ Queues!BoundAssumption
    /\ Common!EvAssumption /\ Common!KindAssumption /\ Common!BoundAssumption
    /\ Batched!EvAssumption /\ Batched!KindAssumption
    /\ Batched!FileAssumption /\ Batched!BoundAssumption
    /\ Direct!EvAssumption /\ Direct!KindAssumption
    /\ Direct!FileAssumption /\ Direct!BoundAssumption
    /\ Cloned!EvAssumption /\ Cloned!KindAssumption
    /\ Cloned!FileAssumption /\ Cloned!BoundAssumption
    /\ Signals!EvAssumption /\ Signals!NoneAssumption /\ Signals!BoundAssumption

Idle(v) == v = <<>>
NoLoop == Idle(at) /\ Idle(clock) /\ Idle(asked)
NoMap == Idle(b) /\ Idle(k)
NoSignals == /\ Idle(glob) /\ Idle(handler) /\ Idle(called) /\ Idle(asserted)
             /\ Idle(active) /\ Idle(running) /\ Idle(left)
             /\ Idle(raised) /\ Idle(calls)
NoInfo == Idle(r) /\ Idle(op)

Init ==
    \/ part = "queues" /\ Queues!Init /\ NoMap /\ NoSignals /\ NoInfo
    \/ part = "common" /\ Common!Init /\ NoMap /\ NoSignals /\ NoInfo
    \/ part = "batched" /\ Batched!Init /\ NoLoop /\ NoSignals /\ Idle(base) /\ NoInfo
    \/ part = "direct" /\ Direct!Init /\ NoLoop /\ NoSignals /\ Idle(base) /\ NoInfo
    \/ part = "cloned" /\ Cloned!Init /\ NoLoop /\ NoSignals /\ Idle(base) /\ NoInfo
    \/ part = "signals" /\ Signals!Init /\ NoLoop /\ NoMap /\ Idle(pc) /\ Idle(ops) /\ NoInfo
    \/ /\ part = "addrinfo" /\ Addrinfo!Init /\ NoLoop /\ NoMap /\ NoSignals
       /\ Idle(base) /\ Idle(pc) /\ Idle(ops)

signalVars == <<glob, handler, active, running, left, called, asserted, raised, calls>>

OnlyLoop == UNCHANGED <<part, b, k, r, op>> /\ UNCHANGED signalVars
OnlyMap == UNCHANGED <<part, base, at, clock, asked, r, op>> /\ UNCHANGED signalVars
OnlySignals == UNCHANGED <<part, pc, at, clock, ops, asked, b, k, r, op>>
OnlyInfo == /\ UNCHANGED <<part, base, pc, at, clock, ops, asked, b, k>>
            /\ UNCHANGED signalVars

Next ==
    \/ part = "queues" /\ Queues!Next /\ OnlyLoop
    \/ part = "common" /\ Common!Next /\ OnlyLoop
    \/ part = "batched" /\ Batched!Next /\ OnlyMap
    \/ part = "direct" /\ Direct!Next /\ OnlyMap
    \/ part = "cloned" /\ Cloned!Next /\ OnlyMap
    \/ part = "signals" /\ Signals!Next /\ OnlySignals
    \/ part = "addrinfo" /\ Addrinfo!Next /\ OnlyInfo

Spec == Init /\ [][Next]_allVars

-----------------------------------------------------------------------------
(* The properties of the parts, which state them.                          *)

(* Counters, flags and queues of the event base agree (event.c:2546-2657). *)
QueuesAgree == /\ part = "queues" => Queues!QueuesAgree
               /\ part = "common" => Common!QueuesAgree

(* The checks of event.c itself never fail (event.c:2551, 2627).           *)
ChecksHold == /\ part = "queues" => Queues!ChecksHold
              /\ part = "common" => Common!ChecksHold

(* The timer of the common list is set for its head (event.c:1142-1177).   *)
CommonHeadScheduled == part = "common" => Common!CommonHeadScheduled

(* Lower priorities are processed first (event.c:1422).                    *)
LowerFirst == [][part = "queues" => Queues!LowerFirst]_allVars

(* A deleted event is not called (event.c:2240-2311).                      *)
DeletedNotCalled == [][part = "queues" => Queues!DeletedNotCalled]_allVars

(* A loop that ends by itself leaves nothing behind (event.c:1608-1613).   *)
EndsEmpty == [][part = "queues" => Queues!EndsEmpty]_allVars

(* The kernel watches for what is wanted (evmap.c:264-389, epoll.c).       *)
WaitsForWanted == /\ part = "batched" => Batched!WaitsForWanted
                  /\ part = "direct" => Direct!WaitsForWanted
                  /\ part = "cloned" => Cloned!WaitsForWanted

(* Lists, counts and the changelist agree (evmap.c:264-389, 517-741).      *)
MapAgrees == /\ part = "batched" => Batched!MapAgrees
             /\ part = "direct" => Direct!MapAgrees
             /\ part = "cloned" => Cloned!MapAgrees

(* No list holds an event that was freed (event.c:1760-1773).              *)
FreedNotListed == /\ part = "batched" => Batched!FreedNotListed
                  /\ part = "direct" => Direct!FreedNotListed
                  /\ part = "cloned" => Cloned!FreedNotListed

(* The kernel reports a number for the file it stands for (epoll.c).       *)
NoStaleItem == /\ part = "batched" => Batched!NoStaleItem
               /\ part = "direct" => Direct!NoStaleItem
               /\ part = "cloned" => Cloned!NoStaleItem

(* libevent's handler is in place while a signal has events (signal.c).    *)
HandlerFollowsEvents == part = "signals" => Signals!HandlerFollowsEvents

(* The base with signals is the one that is informed (signal.c:98-105).    *)
SomebodyInformed == part = "signals" => Signals!SomebodyInformed

(* A signal that evsig_cb reads has a list (evmap.c:475-487).              *)
SlotsFound == part = "signals" => Signals!SlotsFound

(* A deleted event is not called again (event.c:1048-1077, 2262-2270).     *)
CallsAdded == part = "signals" => Signals!CallsAdded

(* A signal that was caught is due until a call of its event starts        *)
(* (signal.c:130-166, event.c:1048-1077, 2330-2377).                       *)
Delivered == [][part = "signals" => Signals!Delivered]_allVars

(* evdns_getaddrinfo calls the user and frees its request once, and keeps  *)
(* no timer without a need (evdns.c:4235-4285, 4301-4475).                 *)
OnceAndForAll == part = "addrinfo" => Addrinfo!OnceAndForAll

(* What it reports is what had arrived, A before AAAA (evdns.c:4392-4475). *)
AddressesInOrder == [][part = "addrinfo" => Addrinfo!TellsInOrder]_allVars

-----------------------------------------------------------------------------
(* What the run checks besides, by what it is about.                       *)

(* The event base of event.c stays sound: its queues, flags and counters   *)
(* agree, its own checks never fail, and the timer of a common list is set *)
(* for its head.                                                           *)
LoopSound ==
    /\ QueuesAgree /\ ChecksHold /\ CommonHeadScheduled

(* The descriptor map of evmap.c and epoll.c stays sound: the kernel       *)
(* watches for what is wanted and reports no file that is gone, lists and  *)
(* counts agree, and nothing that was freed is listed.                     *)
MapSound ==
    /\ WaitsForWanted /\ MapAgrees /\ FreedNotListed /\ NoStaleItem

(* The handler of signal.c is in place while a signal has events, it       *)
(* informs the base that has them, what the base reads has a list, and a   *)
(* deleted event is not called.                                            *)
SignalsSound ==
    /\ HandlerFollowsEvents /\ SomebodyInformed /\ SlotsFound /\ CallsAdded

(* What a step of the loop (event.c, signal.c) may never do: call a        *)
(* deleted event or one of less priority first, end with work left, lose   *)
(* all calls of a signal that was caught.                                  *)
EventSteps ==
    /\ LowerFirst /\ DeletedNotCalled /\ EndsEmpty /\ Delivered

=============================================================================
