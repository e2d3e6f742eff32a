--------------------------- MODULE MCEventsProofs ---------------------------
(***************************************************************************)
(* What is proved of evdns_getaddrinfo, of the signals and of the map from *)
(* descriptors to events, carried over to the specification that composes  *)
(* them with the event loop.                                               *)
(***************************************************************************)
EXTENDS MCEvents, TLAPS

InfoInv == part = "addrinfo" => Addrinfo!Inv

(* A step of the part is one of evdns_getaddrinfo that changes no other    *)
(* variable.                                                               *)
LEMMA StepOfPart ==
    Next => /\ part' = part
            /\ part = "addrinfo" =>
                  Addrinfo!Next /\ (UNCHANGED Addrinfo!vars => UNCHANGED allVars)
  BY DEF Next, allVars, OnlyLoop, OnlyMap, OnlySignals, OnlyInfo, signalVars,
     Addrinfo!vars

(* The invariant of evdns_getaddrinfo holds in its part.                   *)
LEMMA InfoInvariance == Spec => []InfoInv
<1>1. Init => InfoInv
  BY Addrinfo!InitGood DEF Init, InfoInv, Addrinfo!Inv
<1>2. InfoInv /\ [Next]_allVars => InfoInv'
  <2>1. CASE Next
    BY <2>1, StepOfPart, Addrinfo!InvKept DEF InfoInv
  <2>2. CASE UNCHANGED allVars
    <3>1. UNCHANGED Addrinfo!vars /\ part' = part
      BY <2>2 DEF allVars, Addrinfo!vars
    <3>2. QED
      BY <3>1, Addrinfo!InvKept DEF InfoInv
  <2>3. QED
    BY <2>1, <2>2
<1>3. QED
  BY <1>1, <1>2, PTL DEF Spec

(* The user of evdns_getaddrinfo is called once and its request freed once *)
(* (evdns.c:4235-4285, 4301-4475).                                         *)
THEOREM OnceAndForAllHolds == Spec => []OnceAndForAll
<1>1. InfoInv => OnceAndForAll
  BY Addrinfo!InvSuffices DEF InfoInv, OnceAndForAll
<1>2. QED
  BY <1>1, InfoInvariance, PTL

(* The user gets the addresses that had arrived, A before AAAA, and all of *)
(* them when nobody cancelled or lost patience (evdns.c:4392-4475).        *)
THEOREM AddressesAreInOrder == Spec => AddressesInOrder
<1>1. InfoInv /\ [Next]_allVars => [part = "addrinfo" => Addrinfo!TellsInOrder]_allVars
  BY StepOfPart, Addrinfo!EveryStepTells DEF InfoInv
<1>2. QED
  BY <1>1, InfoInvariance, PTL DEF Spec, AddressesInOrder

-----------------------------------------------------------------------------
(* The instance has one base, as EvSignalProofs wants it.                  *)
LEMMA SignalAssumptions == Signals!EvAssumption /\ Signals!NoneAssumption /\ Signals!OneBase
  BY PartAssumptions
     DEF Signals!EvAssumption, Signals!NoneAssumption, Signals!OneBase

SignalInv == part = "signals" => Signals!Inv

LEMMA SignalStepOfPart ==
    Next => /\ part' = part
            /\ part = "signals" => Signals!Next
  BY DEF Next, OnlyLoop, OnlyMap, OnlySignals, OnlyInfo, signalVars

(* A step that changes nothing is also one of the signals.                 *)
LEMMA SignalStep ==
    [Next]_allVars => part' = part /\ (part = "signals" => [Signals!Next]_(Signals!vars))
  BY SignalStepOfPart DEF allVars, Signals!vars

LEMMA SignalInvariance == Spec => []SignalInv
<1>1. Init => SignalInv
  BY SignalAssumptions, Signals!InitGood DEF Init, SignalInv
<1>2. SignalInv /\ [Next]_allVars => SignalInv'
  BY SignalStep, SignalAssumptions, Signals!InvKept DEF SignalInv
<1>3. QED
  BY <1>1, <1>2, PTL DEF Spec

(* While a signal has events its handler is libevent's and the base that   *)
(* has them is informed, else the handler is the one from before; what the *)
(* base reads from its pair has a list, and no deleted event is called     *)
(* (signal.c:98-105, 178-321; event.c:1048-1077, 2262-2286).               *)
THEOREM SignalsAreSound == Spec => []SignalsSound
<1>1. SignalInv => SignalsSound
  BY Signals!InvSuffices, SignalAssumptions
     DEF SignalInv, SignalsSound, HandlerFollowsEvents, SomebodyInformed,
         SlotsFound, CallsAdded
<1>2. QED
  BY <1>1, SignalInvariance, PTL

(* A signal that reached the socket pair is not lost: an event that stays  *)
(* added is due until a call of it starts (signal.c:130-166,               *)
(* event.c:1048-1077, 2330-2377).                                          *)
THEOREM SignalsAreDelivered == Spec => Delivered
<1>1. SignalInv /\ [Next]_allVars => [part = "signals" => Signals!Delivered]_allVars
  BY SignalStep, SignalAssumptions, Signals!StepDelivers DEF SignalInv
<1>2. QED
  BY <1>1, SignalInvariance, PTL DEF Spec, Delivered

-----------------------------------------------------------------------------
(* The three maps of MCEvents are of an application that deletes before it *)
(* closes; the batched one has neither clones nor a file that is refused.  *)
LEMMA MapAssumptions ==
    /\ Batched!EvAssumption /\ Batched!KindAssumption /\ Batched!FileAssumption
    /\ Direct!EvAssumption /\ Direct!KindAssumption /\ Direct!FileAssumption
    /\ Cloned!EvAssumption /\ Cloned!KindAssumption /\ Cloned!FileAssumption
    /\ Batched!NumbersKept /\ Direct!NumbersKept /\ Cloned!NumbersKept
    /\ Batched!AllTaken /\ Direct!AllTaken /\ Cloned!AllTaken
  BY PartAssumptions
     DEF Batched!NumbersKept, Direct!NumbersKept, Cloned!NumbersKept,
         Batched!AllTaken, Direct!AllTaken, Cloned!AllTaken

MapInv == /\ part = "batched" => Batched!Inv
          /\ part = "direct" => Direct!Inv
          /\ part = "cloned" => Cloned!Inv

LEMMA MapStep ==
    [Next]_allVars =>
        /\ part' = part
        /\ part = "batched" => [Batched!Next]_(Batched!vars)
        /\ part = "direct" => [Direct!Next]_(Direct!vars)
        /\ part = "cloned" => [Cloned!Next]_(Cloned!vars)
  BY DEF Next, allVars, OnlyLoop, OnlyMap, OnlySignals, OnlyInfo, signalVars,
     Batched!vars, Direct!vars, Cloned!vars

LEMMA MapInvariance == Spec => []MapInv
<1>1. Init => MapInv
  BY MapAssumptions, Batched!InitGood, Direct!InitGood, Cloned!InitGood
     DEF Init, MapInv
<1>2. MapInv /\ [Next]_allVars => MapInv'
  <2>1. SUFFICES ASSUME MapInv, [Next]_allVars PROVE MapInv'
    OBVIOUS
  <2>2. part = "batched" => Batched!Inv'
    BY <2>1, MapStep, MapAssumptions, Batched!InvKept DEF MapInv
  <2>3. part = "direct" => Direct!Inv'
    BY <2>1, MapStep, MapAssumptions, Direct!InvKept DEF MapInv
  <2>4. part = "cloned" => Cloned!Inv'
    BY <2>1, MapStep, MapAssumptions, Cloned!InvKept DEF MapInv
  <2>5. QED
    BY <2>1, <2>2, <2>3, <2>4, MapStep DEF MapInv
<1>3. QED
  BY <1>1, <1>2, PTL DEF Spec

(* The kernel watches for what is wanted and reports no file that is gone, *)
(* lists, counts and changelist agree, and no list holds a freed event     *)
(* (evmap.c:264-389, 517-741; epoll.c:174-442).                            *)
THEOREM MapIsSound == Spec => []MapSound
<1>1. MapInv => MapSound
  <2>1. SUFFICES ASSUME MapInv PROVE MapSound
    OBVIOUS
  <2>2. part = "batched" => /\ Batched!MapAgrees /\ Batched!FreedNotListed
                            /\ Batched!NoStaleItem /\ Batched!WaitsForWanted
    BY <2>1, MapAssumptions, Batched!InvSuffices DEF MapInv
  <2>3. part = "direct" => /\ Direct!MapAgrees /\ Direct!FreedNotListed
                           /\ Direct!NoStaleItem /\ Direct!WaitsForWanted
    BY <2>1, MapAssumptions, Direct!InvSuffices DEF MapInv
  <2>4. part = "cloned" => /\ Cloned!MapAgrees /\ Cloned!FreedNotListed
                           /\ Cloned!NoStaleItem /\ Cloned!WaitsForWanted
    BY <2>1, MapAssumptions, Cloned!InvSuffices DEF MapInv
  <2>5. QED
    BY <2>2, <2>3, <2>4
       DEF MapSound, WaitsForWanted, MapAgrees, FreedNotListed, NoStaleItem
<1>2. QED
  BY <1>1, MapInvariance, PTL

=============================================================================
