----------------------------- MODULE MCBuffers ------------------------------
(***************************************************************************)
(* The buffers and the bufferevents of libevent for TLC: each instance     *)
(* below is a part, and a behaviour is one of a single part.  Names that   *)
(* the parts share are one variable here.                                  *)
(***************************************************************************)
EXTENDS Integers, Sequences, FiniteSets, TLC

CONSTANTS inbuf, outbuf, r1, r2,     \* evbuffers, references and files
          bev1, bev2, g1, None     \* limited bufferevents and their group

VARIABLES part, bufs, calls, op, ops, w, f, u, io, now, bevs, groups

allVars == <<part, bufs, calls, op, ops, w, f, u, io, now, bevs, groups>>

(* An evbuffer that is added to at both ends, that takes chains by         *)
(* reference, and that is added to in every way and read into.  The sizes  *)
(* of buffer.c are scaled down.                                            *)
AddSide == {"add", "prepend", "drain", "pullup", "prepend_buffer", "remove_buffer"}
ReferenceSide == {"reference", "sendfile", "mmap", "drain", "pullup", "write", "add_buffer",
                  "prepend_buffer", "freeze"}
MixedSide == {"add", "remove_buffer", "reference", "read", "commit", "printf", "expand",
              "add_buffer", "drain", "pullup"}

Byte == 3
MIN_BUFFER_SIZE == 3
EVBUFFER_CHAIN_SIZE == 1
EVBUFFER_CHAIN_MAX_AUTO_SIZE == 4
MAX_TO_REALIGN_IN_EXPAND == 1
NUM_WRITE_IOVEC == 2

Chains == INSTANCE EvBuffer WITH Buf <- {inbuf, outbuf}, Ref <- {r1, r2}, MaxLen <- 3,
              MaxOps <- 4, Sides <- {AddSide, ReferenceSide, MixedSide}

(* The bufferevent of a socket: as the server uses it, as a client that    *)
(* connects, and with timeouts.                                            *)
ServerSide == {"ready", "read event", "write event", "deferred", "write", "read", "enable",
               "disable", "watermark", "free", "plan", "setfd", "limit"}
ClientSide == {"ready", "read event", "write event", "deferred", "write", "read", "enable",
               "disable hard", "free", "plan", "lookup", "connect"}
SlowSide == {"ready", "due", "read event", "write event", "write", "enable", "timeouts",
             "free", "setfd"}

Serving == INSTANCE BuffereventSock WITH CloseOnFree <- TRUE, Deferred <- FALSE,
               Does <- ServerSide, Marks <- {0, 1, 2}, MaxLen <- 2
Connecting == INSTANCE BuffereventSock WITH CloseOnFree <- TRUE, Deferred <- TRUE,
                  Does <- ClientSide, Marks <- {0}, MaxLen <- 1
Slow == INSTANCE BuffereventSock WITH CloseOnFree <- FALSE, Deferred <- FALSE,
            Does <- SlowSide, Marks <- {0}, MaxLen <- 1

(* Two paired bufferevents: with watermarks, with timeouts, and finishing. *)
Talk == {"deferred", "write", "read", "enable", "flush", "watermark"}
Timers == {"write", "enable", "disable", "timeouts", "timeout", "flush normally"}
Finish == {"deferred", "write", "enable", "finish", "free"}

Talking == INSTANCE BuffereventPair WITH Does <- Talk, Marks <- {0, 1},
               MaxLen <- 2, MaxRef <- 2
Timed == INSTANCE BuffereventPair WITH Does <- Timers, Marks <- {0},
             MaxLen <- 1, MaxRef <- 2
Finishing == INSTANCE BuffereventPair WITH Does <- Finish, Marks <- {0},
                 MaxLen <- 1, MaxRef <- 2

(* A filter that moves pairs of bytes, with watermarks, and one that       *)
(* closes what it filters.                                                 *)
Filtering == INSTANCE BuffereventFilter WITH Filter <- "pairs", Close <- FALSE,
                 ReadHigh <- 3, WriteHigh <- 2, MaxIn <- 4, MaxOut <- 3
Closing == INSTANCE BuffereventFilter WITH Filter <- "pairs", Close <- TRUE,
               ReadHigh <- 0, WriteHigh <- 0, MaxIn <- 2, MaxOut <- 2

(* Rate limits: of one bufferevent in both directions, of two in a group,  *)
(* and of two that read at the same time.                                  *)
TickLens == {1}
TickMod == 8
Clock == 8
MaxDecr == 1
SmallCfg == [rate |-> 2, max |-> 3, mpt |-> 1]

Own == INSTANCE RateLimit WITH Bevs <- {bev1}, Groups <- {}, Dirs <- {"read", "write"},
           Rates <- {1, 2}, Bursts <- {3}, Shares <- {1}, GroupCfg <- SmallCfg,
           Default <- 1, MaxEver <- 4, MaxIO <- 4, Debt <- 1, MaxLimit <- 3, MaxNow <- 3
Group == INSTANCE RateLimit WITH Bevs <- {bev1, bev2}, Groups <- {g1}, Dirs <- {"read"},
             Rates <- {1}, Bursts <- {1, 2}, Shares <- {1, 2}, GroupCfg <- SmallCfg,
             Default <- 1, MaxEver <- 2, MaxIO <- 2, Debt <- 0, MaxLimit <- 1, MaxNow <- 2
Metered == INSTANCE RateLimit WITH Bevs <- {bev1, bev2}, Groups <- {g1}, Dirs <- {"read"},
               Rates <- {1}, Bursts <- {2}, Shares <- {1}, GroupCfg <- SmallCfg,
               Default <- 2, MaxEver <- 4, MaxIO <- 2, Debt <- 0, MaxLimit <- 3, MaxNow <- 2

ASSUME PartAssumptions ==
    /\ Filtering!WatermarksAssumption /\ Closing!WatermarksAssumption
    /\ Own!TimesAssumption /\ Group!TimesAssumption /\ Metered!TimesAssumption

Idle(v) == v = <<>>
NoBuffer == Idle(bufs) /\ Idle(calls) /\ Idle(ops)
NoFilter == Idle(f) /\ Idle(u) /\ Idle(io)
NoLimit == Idle(now) /\ Idle(bevs) /\ Idle(groups)
BufferOnly == Idle(w) /\ NoFilter /\ NoLimit
EventOnly == NoBuffer /\ NoFilter /\ NoLimit
FilterOnly == NoBuffer /\ Idle(op) /\ Idle(w) /\ NoLimit
LimitOnly == NoBuffer /\ Idle(op) /\ Idle(w) /\ NoFilter

Init ==
    \/ part = "chains" /\ Chains!Init /\ BufferOnly
    \/ part = "serving" /\ Serving!Init /\ EventOnly
    \/ part = "connecting" /\ Connecting!Init /\ EventOnly
    \/ part = "slow" /\ Slow!Init /\ EventOnly
    \/ part = "talking" /\ Talking!Init /\ EventOnly
    \/ part = "timed" /\ Timed!Init /\ EventOnly
    \/ part = "finishing" /\ Finishing!Init /\ EventOnly
    \/ part = "filtering" /\ Filtering!Init /\ FilterOnly
    \/ part = "closing" /\ Closing!Init /\ FilterOnly
    \/ part = "own" /\ Own!Init /\ LimitOnly
    \/ part = "group" /\ Group!Init /\ LimitOnly
    \/ part = "metered" /\ Metered!Init /\ LimitOnly

InBuffer == UNCHANGED <<part, w, f, u, io, now, bevs, groups>>
InEvent == UNCHANGED <<part, bufs, calls, ops, f, u, io, now, bevs, groups>>
InFilter == UNCHANGED <<part, bufs, calls, op, ops, w, now, bevs, groups>>
InLimit == UNCHANGED <<part, bufs, calls, op, ops, w, f, u, io>>

Next ==
    \/ part = "chains" /\ Chains!Next /\ InBuffer
    \/ part = "serving" /\ Serving!Next /\ InEvent
    \/ part = "connecting" /\ Connecting!Next /\ InEvent
    \/ part = "slow" /\ Slow!Next /\ InEvent
    \/ part = "talking" /\ Talking!Next /\ InEvent
    \/ part = "timed" /\ Timed!Next /\ InEvent
    \/ part = "finishing" /\ Finishing!Next /\ InEvent
    \/ part = "filtering" /\ Filtering!WritingNext /\ InFilter
    \/ part = "closing" /\ Closing!Next /\ InFilter
    \/ part = "own" /\ Own!OwnNext /\ InLimit
    \/ part = "group" /\ Group!GroupNext /\ InLimit
    \/ part = "metered" /\ Metered!MeteredNext /\ InLimit

Spec == Init /\ [][Next]_allVars

(* Buffers are like each other, and so are references.                     *)
Alike == Permutations({inbuf, outbuf}) \cup Permutations({r1, r2})

-----------------------------------------------------------------------------
(* The properties of the parts, which state them.                          *)

(* A filter counts its bytes (bufferevent_filter.c).                      *)
BytesCounted == part = "filtering" => Filtering!TypeOK

(* Limits and buckets have the values they may have.                       *)
BucketsTyped == /\ part = "own" => Own!TypeOK
                /\ part = "group" => Group!TypeOK

(* Lengths, chains and the assertions of buffer.c agree.                   *)
ChainsAgree == part = "chains" => Chains!ChainsAgree

(* last_with_datap leads to the last chain with data, unless an addition   *)
(* met an empty chain (buffer.c:306-310, 1561).                            *)
LastWithData == part = "chains" => Chains!LastWithData

(* What an application added by reference is cleaned up once (buffer.c).   *)
CleanedOnce == part = "chains" => Chains!CleanedOnce

(* Buffer callbacks are told by how much the buffer changed (buffer.c:474),*)
(* unless a prepended chain was counted wrongly (buffer.c:1708).           *)
CallbacksTold == part = "chains" => Chains!CallbacksTold

(* An evbuffer implements a queue of bytes, until an addition meets an     *)
(* empty chain (buffer.c:306-310, 1561): see ByteQueue and EvBuffer.       *)
IsQueue == [][part = "chains" => Chains!QueueStep]_allVars

(* What a socket's bufferevent is to do has an event that will do it.      *)
NothingForgotten == /\ part = "serving" => Serving!NothingForgotten
                    /\ part = "connecting" => Connecting!NothingForgotten
                    /\ part = "slow" => Slow!NothingForgotten

(* Disabled or suspended, it neither reads nor writes (bufferevent.c).     *)
OnlyWhenWilling == part = "serving" => Serving!OnlyWhenWilling

(* A buffer at its high-water mark is not read into (bufferevent_sock.c).  *)
FullStops == part = "serving" => Serving!FullStops

(* A read does not go beyond the mark (bufferevent_sock.c:144-152).        *)
WithinMark == [][/\ part = "serving" => Serving!WithinMark
                 /\ part = "talking" => Talking!WithinMark]_allVars

(* References are counted and the last one frees (bufferevent.c:605-662).  *)
References == /\ part = "serving" => Serving!References
              /\ part = "connecting" => Connecting!References
              /\ part = "slow" => Slow!References
              /\ part = "finishing" => Finishing!References

(* Nothing is heard after bufferevent_free (bufferevent.c:671-677).        *)
SilentAfterFree == [][part = "connecting" => Connecting!SilentAfterFree]_allVars

(* The end of the stream comes after its data (bufferevent.c:135-163).     *)
DataBeforeEnd == [][part = "connecting" => Connecting!DataBeforeEnd]_allVars

(* What one of a pair wrote and the other wants is handed over.            *)
NothingStuck == /\ part = "talking" => Talking!NothingStuck
                /\ part = "timed" => Timed!NothingStuck

(* Filter and underlying bufferevent hold each other as long as needed.    *)
Detached == /\ part = "filtering" => Filtering!Detached
            /\ part = "closing" => Closing!Detached

(* A filter does not overfill the buffers (bufferevent_filter.c).          *)
WatermarksKept == part = "filtering" => Filtering!WatermarksKept

(* A filter forgets no output it could move (bufferevent_filter.c).        *)
NoForgottenOutput == part = "filtering" => Filtering!NoForgottenOutput

(* Filtered input is announced (bufferevent_filter.c).                     *)
ReadcbRuns == part = "filtering" => Filtering!ReadcbRuns

(* A direction without tokens has a timer (bufferevent_ratelim.c).         *)
OwnWakes == part = "own" => Own!OwnWakes

(* An empty bucket stops its direction (bufferevent_ratelim.c).            *)
EmptyStops == part = "own" => Own!EmptyStops

(* The refill timer brings its bucket up to date (bufferevent_ratelim.c).  *)
RefillRefills == [][part = "own" => Own!RefillRefills]_allVars

(* A bucket gains its rate for each tick, up to the burst.                 *)
UpdateAsMeant == [][part = "own" => Own!UpdateAsMeant]_allVars

(* A group knows that members wait for it (bufferevent_ratelim.c).         *)
GroupWakes == part = "group" => Group!GroupWakes

(* No bucket holds more than its burst, whatever it was before.            *)
BurstKept == part = "group" => Group!BurstKept

(* A read that is started asks for at least one byte.                      *)
NeverAsksNothing == part = "metered" => Metered!NeverAsksNothing

(* A group overdraws its bucket by less than a share of each member.       *)
OverdraftBounded == part = "metered" => Metered!OverdraftBounded

-----------------------------------------------------------------------------
(* What the runs check: the properties above by what they are about. *)

(* The chains of buffer.c stay sound until an addition meets an empty      *)
(* chain: lengths, chains and the last chain with data agree; callbacks    *)
(* are told what changed until a prepend miscounts; and references are     *)
(* cleaned up once.                                                        *)
ChainsSound ==
    /\ CleanedOnce /\ ChainsAgree /\ LastWithData /\ CallbacksTold

(* A bufferevent of a socket or a pair forgets nothing that it is to do,   *)
(* does nothing else, and lives as long as it is referred to               *)
(* (bufferevent.c, bufferevent_sock.c, bufferevent_pair.c).                *)
BuffereventSound ==
    /\ NothingForgotten /\ OnlyWhenWilling /\ FullStops /\ References
    /\ NothingStuck

(* A filter keeps to the watermarks, forgets no output, announces its      *)
(* input and holds what it filters (bufferevent_filter.c).                 *)
FilterSound ==
    /\ BytesCounted /\ Detached /\ WatermarksKept /\ NoForgottenOutput
    /\ ReadcbRuns

(* Rate limits hold and are lifted: who has no tokens is stopped and waits *)
(* for a timer, no bucket holds more than its burst, and a group is        *)
(* overdrawn by less than its members may (bufferevent_ratelim.c).         *)
LimitsSound ==
    /\ BucketsTyped /\ OwnWakes /\ EmptyStops /\ GroupWakes /\ BurstKept
    /\ NeverAsksNothing /\ OverdraftBounded

(* What a step of a bufferevent may never do: read beyond the mark, call   *)
(* after the free, tell the end before the data, or refill a bucket by     *)
(* more or less than its rate.                                             *)
BufferSteps ==
    /\ WithinMark /\ SilentAfterFree /\ DataBeforeEnd /\ RefillRefills
    /\ UpdateAsMeant

=============================================================================
