------------------------------- MODULE MCLive -------------------------------
(***************************************************************************)
(* What must happen in the end in libevent, for TLC: each instance below   *)
(* is a part, and a behaviour is one of a single part.  Names that the     *)
(* parts share are one variable here.  The fairness of a part is a         *)
(* condition of its property and not of Spec, where TLC would multiply the *)
(* parts' conditions with each other.                                      *)
(***************************************************************************)
EXTENDS Integers, Sequences, FiniteSets, TLC

CONSTANTS sig, t1, d1, d2, CTL, EXIT, bev1, bev2, g1, Nothing

VARIABLES part, base, pc, at, clock, ops, asked,    \* event.c
          d, r, p, op,                              \* evdns.c
          h, sent,                                  \* http.c
          now, bevs, groups,                        \* bufferevent_ratelim.c
          f, u, io                                  \* bufferevent_filter.c

loopVars == <<base, pc, at, clock, ops, asked>>
webVars == <<h, sent>>
rateVars == <<now, bevs, groups>>
filterVars == <<f, u, io>>
allVars == <<part, loopVars, d, r, p, op, webVars, rateVars, filterVars>>

(* A signal event with a timer and two deferred callbacks, of which one    *)
(* runs in a turn of the loop.                                             *)
Loop == INSTANCE EventBase
    WITH Ev <- {sig, t1}, Kind <- (sig :> "signal") @@ (t1 :> "timer"),
         Persist <- {sig}, NPri <- 1, Deferred <- {d1, d2}, MaxDeferred <- 1,
         Delay <- {1}, CommonDelay <- {}, MonotonicClock <- TRUE, MaxTime <- 2,
         MaxOps <- 3

(* Two requests, of which one may be in flight.                            *)
Dns == INSTANCE Evdns
    WITH Servers <- {"A"}, MaxInflight <- 1, MaxReissues <- 1, MaxRetransmits <- 1,
         MaxTimeouts <- 0, Domains <- 0, Handles <- {1, 2}, MaxAsked <- 2,
         Results <- {"ok"}, Does <- {"resolve", "timeout", "reply", "socket", "writable"}

Addresses == INSTANCE EvdnsGetaddrinfo WITH Families <- {{4}, {6}, {4, 6}}

Port == INSTANCE EvdnsServer
    WITH Requests <- {1, 2, 3}, Plans <- {"later", "respond", "drop", "close"}

(* A client that is retried once; the server keeps or closes.              *)
Client == INSTANCE HttpClient
    WITH Ids <- {1, 2}, MaxHeaders <- 9, MaxBody <- 3, RetryMax <- 1, IntBits <- 3,
         Allowed <- {"GET"}, Outcomes <- {"pending", "error"}, Does <- {},
         OwnIn <- {"done"}, Faults <- {}, Answers <- {1, 4}

Server == INSTANCE HttpServer
    WITH Ids <- {1, 2, 3}, MaxHeaders <- 9, MaxBody <- 1, RetryMax <- 0, IntBits <- 3,
         Allowed <- {"GET", "POST", "HEAD"}, MaxSent <- 1, Requests <- {1, 2, 5, 9},
         Codes <- {200}, Bodies <- {1}, Streams <- TRUE, MaxOut <- 4, MaxWire <- 12

(* Two members of a group, and one bufferevent with limits of its own.     *)
Rate == INSTANCE RateLimit
    WITH None <- Nothing, Bevs <- {bev1, bev2}, Groups <- {g1}, Dirs <- {"read"}, Rates <- {2}, Bursts <- {3},
         TickLens <- {1}, Shares <- {1}, GroupCfg <- [rate |-> 2, max |-> 3, mpt |-> 1],
         Default <- 4, MaxEver <- 4, MaxIO <- 4, MaxDecr <- 1, Debt <- 0, MaxLimit <- 3,
         TickMod <- 8, Clock <- 16, MaxNow <- 16
Own == INSTANCE RateLimit
    WITH None <- Nothing, Bevs <- {bev1}, Groups <- {}, Dirs <- {"read", "write"}, Rates <- {1, 2},
         Bursts <- {3}, TickLens <- {1}, Shares <- {1},
         GroupCfg <- [rate |-> 2, max |-> 3, mpt |-> 1], Default <- 1, MaxEver <- 4,
         MaxIO <- 4, MaxDecr <- 1, Debt <- 0, MaxLimit <- 3, TickMod <- 8, Clock <- 8,
         MaxNow <- 8

(* A filter that moves pairs of bytes, on a bufferevent with a watermark.  *)
Filter == INSTANCE BuffereventFilter
    WITH Filter <- "pairs", Close <- FALSE, ReadHigh <- 0, WriteHigh <- 2,
         MaxIn <- 3, MaxOut <- 6

ASSUME PartAssumptions ==
    /\ Loop!EvAssumption /\ Loop!KindAssumption /\ Loop!BoundAssumption
    /\ Client!HttpAssumption /\ Server!HttpAssumption
    /\ Rate!TimesAssumption /\ Own!TimesAssumption
    /\ Filter!WatermarksAssumption

Idle(v) == v = <<>>
NoLoop == Idle(base) /\ Idle(pc) /\ Idle(at) /\ Idle(clock) /\ Idle(ops) /\ Idle(asked)
NoDns == Idle(d) /\ Idle(r) /\ Idle(p) /\ Idle(op)
NoWeb == Idle(h) /\ Idle(sent)
NoRate == Idle(now) /\ Idle(bevs) /\ Idle(groups)
NoFilter == Idle(f) /\ Idle(u) /\ Idle(io)

Init ==
    \/ part = "loop" /\ Loop!Init /\ NoDns /\ NoWeb /\ NoRate /\ NoFilter
    \/ part = "dns" /\ Dns!Init /\ Idle(r) /\ Idle(p) /\ NoLoop /\ NoWeb /\ NoRate /\ NoFilter
    \/ part = "addresses" /\ Addresses!Init /\ Idle(d) /\ Idle(p)
          /\ NoLoop /\ NoWeb /\ NoRate /\ NoFilter
    \/ part = "port" /\ Port!Init /\ Idle(d) /\ Idle(r) /\ NoLoop /\ NoWeb /\ NoRate /\ NoFilter
    \/ part = "client" /\ Client!Init /\ Idle(sent) /\ NoLoop /\ NoDns /\ NoRate /\ NoFilter
    \/ part = "server" /\ Server!Init /\ NoLoop /\ NoDns /\ NoRate /\ NoFilter
    \/ part = "rate" /\ Rate!Init /\ NoLoop /\ NoDns /\ NoWeb /\ NoFilter
    \/ part = "own" /\ Own!Init /\ NoLoop /\ NoDns /\ NoWeb /\ NoFilter
    \/ part = "filter" /\ Filter!Init /\ NoLoop /\ NoDns /\ NoWeb /\ NoRate

OnlyLoop == UNCHANGED <<part, d, r, p, op, webVars, rateVars, filterVars>>
OnlyDns == UNCHANGED <<part, loopVars, r, p, webVars, rateVars, filterVars>>
OnlyAddresses == UNCHANGED <<part, loopVars, d, p, webVars, rateVars, filterVars>>
OnlyPort == UNCHANGED <<part, loopVars, d, r, webVars, rateVars, filterVars>>
OnlyWeb == UNCHANGED <<part, loopVars, d, r, p, op, rateVars, filterVars>>
OnlyRate == UNCHANGED <<part, loopVars, d, r, p, op, webVars, filterVars>>
OnlyFilter == UNCHANGED <<part, loopVars, d, r, p, op, webVars, rateVars>>

Next ==
    \/ part = "loop" /\ Loop!Next /\ OnlyLoop
    \/ part = "dns" /\ Dns!Next /\ OnlyDns
    \/ part = "addresses" /\ Addresses!Next /\ OnlyAddresses
    \/ part = "port" /\ Port!Next /\ OnlyPort
    \/ part = "client" /\ Client!Next /\ UNCHANGED sent /\ OnlyWeb
    \/ part = "server" /\ Server!Next /\ OnlyWeb
    \/ part = "rate" /\ (Rate!Traffic \/ Rate!Membership) /\ Rate!Prompt /\ OnlyRate
    \/ part = "own" /\ (Own!Traffic \/ Own!FirstLimit) /\ Own!Prompt /\ OnlyRate
    \/ part = "filter" /\ (Filter!NetNext \/ Filter!UserNext) /\ OnlyFilter

Spec == Init /\ [][Next]_allVars

-----------------------------------------------------------------------------
(* The loop runs on, callbacks return, and time passes even if descriptors *)
(* are ready all the time.                                                 *)
LoopFairness == /\ WF_loopVars(part = "loop" /\ Loop!Loop)
                /\ SF_loopVars(part = "loop" /\ Loop!tick)

(* In a running loop a timer whose time comes leaves the heap, in whatever *)
(* order events and callbacks come (event.c:2519-2541).                    *)
TimersFire ==
    LoopFairness =>
        (part = "loop" /\ t1 \in base.timeheap /\ base.timeout[t1].tv <= 2 /\ pc # "idle")
            ~> (part = "loop" => pc \in {"idle", "freed"} \/ t1 \notin base.timeheap)

(* A deferred callback that was scheduled is run or cancelled, or the loop *)
(* ends; the others cannot keep it waiting (event.c:1397-1419).            *)
DeferredRun ==
    LoopFairness =>
        (part = "loop" /\ (\E i \in DOMAIN base.defer_queue : base.defer_queue[i] = d1) /\ pc # "idle")
            ~> (part = "loop" => pc \in {"idle", "freed"} \/ \A i \in DOMAIN base.defer_queue : base.defer_queue[i] # d1)

(* Timers run out, callbacks run, a full socket drains in the end.         *)
DnsFairness ==
    /\ WF_<<d, op>>(part = "dns" /\ Dns!reply_run_callback)
    /\ \A n \in {1, 2} : WF_<<d, op>>(part = "dns" /\ Dns!RequestTimeout(n))
    /\ WF_<<d, op>>(part = "dns" /\ Dns!SocketState("A", "ok"))
    /\ SF_<<d, op>>(part = "dns" /\ Dns!Writable("A"))

(* Whoever looks a name up is answered in the end, though requests wait    *)
(* for each other, servers say nothing and sockets are full                *)
(* (evdns.c:774-850, 2216-2264).                                           *)
Completed ==
    DnsFairness =>
        \A n \in {1, 2} :
            (part = "dns" /\ d.h[n].kind = "user") ~> (part = "dns" => d.told[n] > 0 \/ d.srv = <<>>)

(* The loop runs callbacks and timers, and a lookup ends.                  *)
AddressFairness ==
    /\ WF_<<r, op>>(part = "addresses" /\ Addresses!Callback)
    /\ WF_<<r, op>>(part = "addresses" /\ Addresses!Skew)
    /\ \A i \in {4, 6} :
          WF_<<r, op>>(part = "addresses" /\ \E a \in {"ok", "timeout"} : Addresses!Answer(i, a))

(* A request for addresses ends, with whatever the two lookups bring and   *)
(* whenever it is cancelled (evdns.c:4301-4475).                           *)
AddressesEnd ==
    AddressFairness => ((part = "addresses") ~> (part = "addresses" => Len(r.told) = 1 /\ r.freed = 1))

(* A socket that was full is writable in the end.                          *)
PortFairness == /\ SF_<<p, op>>(part = "port" /\ Port!WriteReady)
                /\ WF_<<p, op>>(part = "port" /\ Port!SocketState("ok"))

(* A reply that waits for the socket is sent or given up                   *)
(* (evdns.c:1992-2015).                                                    *)
Flushed == PortFairness => (part = "port" /\ p.req[1] = "pending") ~> (part = "port" => p.req[1] = "gone")

(* Callbacks return, the loop delivers what is ready, timers run out, a    *)
(* socket that is written to drains or fails, and connecting fails or is   *)
(* retried.                                                                *)
ClientFairness ==
    /\ WF_h(part = "client" /\ Client!Frames) /\ WF_h(part = "client" /\ Client!Flush)
    /\ WF_h(part = "client" /\ Client!WriteFails) /\ WF_h(part = "client" /\ Client!Deliver)
    /\ WF_h(part = "client" /\ Client!DeferredRead) /\ WF_h(part = "client" /\ Client!ReadTimeout)
    /\ WF_h(part = "client" /\ Client!Retry) /\ WF_h(part = "client" /\ Client!ConnectFails)

(* Every request of a client that waits is answered or fails               *)
(* (http.c:594-702, 2115-2160).                                            *)
RequestsEnd ==
    ClientFairness =>
        (part = "client" /\ h.req[1].live = "live" /\ h.req[1].con)
            ~> (part = "client" => h.req[1].told # 0 \/ h.gone \/ h.err # "none")

(* The loop delivers what is ready, a socket that is written to fails in   *)
(* the end, and the user finishes the replies that he begins.              *)
ServerFairness ==
    /\ WF_webVars(part = "server" /\ (Server!Deliver \/ Server!DeferredRead) /\ UNCHANGED sent)
    /\ WF_webVars(part = "server" /\ Server!Eof /\ UNCHANGED sent)
    /\ WF_webVars(part = "server" /\ Server!WriteFails /\ UNCHANGED sent)
    /\ WF_webVars(part = "server" /\ Server!Return /\ UNCHANGED sent)
    /\ WF_webVars(part = "server" /\ (Server!SendReply \/ Server!ReplyEnd) /\ UNCHANGED sent)

(* A server's connection that the client has closed ends                   *)
(* (http.c:1161-1236).                                                     *)
ConnectionsEnd ==
    ServerFairness =>
        (part = "server" /\ h.peer = "closed") ~> (part = "server" => h.gone \/ h.err # "none")

(* The clock runs, due timers run before the loop looks at the clock       *)
(* again, and who holds the lock of a bufferevent lets go of it, so that a *)
(* timer that waits for the lock gets it in the end.                       *)
RateFairness ==
    /\ WF_rateVars(part = "rate" /\ Rate!Tick /\ Rate!Prompt)
    /\ \A b \in {bev1, bev2} :
          /\ SF_rateVars(part = "rate" /\ Rate!RefillTimer(b))
          /\ WF_rateVars(part = "rate" /\ Rate!Added(b))
          /\ WF_rateVars(part = "rate" /\ \E n \in 0 .. 4 : Rate!Moved(b, n))
    /\ WF_rateVars(part = "rate" /\ Rate!GroupTimer(g1))
OwnFairness ==
    /\ WF_rateVars(part = "own" /\ Own!Tick /\ Own!Prompt)
    /\ SF_rateVars(part = "own" /\ Own!RefillTimer(bev1))
    /\ WF_rateVars(part = "own" /\ \E n \in 0 .. 4 : Own!Moved(bev1, n))

(* A member of a group that is suspended for lack of tokens is resumed,    *)
(* while the program takes no tokens by hand (bufferevent_ratelim.c).      *)
MembersResume ==
    RateFairness =>
        (part = "rate" /\ bevs[bev1].suspended["read"] # {}) ~> (part = "rate" => bevs[bev1].suspended["read"] = {})

(* A direction that its own limit has suspended is resumed, and neither    *)
(* direction holds up the other's timer (bufferevent_ratelim.c).           *)
DirectionsResume ==
    OwnFairness =>
        \A i \in {"read", "write"} :
            (part = "own" /\ bevs[bev1].suspended[i] # {}) ~> (part = "own" => bevs[bev1].suspended[i] = {})

(* The loop serves a socket that is ready, and the user takes what was     *)
(* read.                                                                   *)
FilterFairness ==
    /\ WF_filterVars(part = "filter" /\ Filter!NetRead)
    /\ WF_filterVars(part = "filter" /\ Filter!NetWrite)
    /\ WF_filterVars(part = "filter" /\ Filter!Drain)
    /\ WF_filterVars(part = "filter" /\ Filter!EnableRead)

(* What is written to a filter is sent: at the end at most one byte, of an *)
(* incomplete pair, is left (bufferevent_filter.c, event2/bufferevent.h).  *)
WrittenIsSent ==
    FilterFairness =>
        <>[](part = "filter" /\ f.ref > 0 => f.output < 2 /\ u.output = 0)

-----------------------------------------------------------------------------
(* What the runs check: the properties above by what they are about. *)

(* In a running loop timers fire and deferred callbacks run (event.c). *)
EventsRun ==
    /\ TimersFire /\ DeferredRun

(* Who asks is answered, and who is answered or has closed is done with:   *)
(* lookups, requests for addresses, replies that wait, requests of a       *)
(* client and connections of a server end (evdns.c, http.c).               *)
AllAnswered ==
    /\ Completed /\ AddressesEnd /\ Flushed /\ RequestsEnd /\ ConnectionsEnd

(* Data flows again: what a rate limit has suspended is resumed, and what  *)
(* is written to a filter is sent (bufferevent_ratelim.c,                  *)
(* bufferevent_filter.c).                                                  *)
DataFlows ==
    /\ MembersResume /\ DirectionsResume /\ WrittenIsSent

=============================================================================
