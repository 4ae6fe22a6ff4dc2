------------------------------ MODULE MCReadings ------------------------------
(* Model checking of the three services that read over D-Bus. They share no    *)
(* state, so that each behaviour is one of the three on its own: subject says   *)
(* whose the variables are.                                                    *)
EXTENDS Battery

CONSTANTS Connections, AccessPoints, LastName, MaxProcesses, ChainEvents, PlayerEvents

\* What names an object of the daemon is none of the words that stand for no object, or
\* for one that is always there.
ASSUME ReadingsAssumption ==
    /\ ChainEvents \in Nat /\ PlayerEvents \in Nat /\ MaxProcesses \in Nat /\ LastName \in Nat
    /\ (Connections \cup AccessPoints) \cap {"none", "manager", "device"} = {}

VARIABLE subject

N == INSTANCE Network WITH MaxEvents <- ChainEvents
M == INSTANCE Media WITH MaxEvents <- PlayerEvents

readingVars == <<daemon, inbox, service, bounds, subject>>

EachInit ==
    \/ subject = "battery" /\ Init
    \/ subject = "network" /\ N!Init
    \/ subject = "media" /\ M!Init

OfBattery == subject = "battery" /\ Next /\ UNCHANGED subject
OfNetwork == subject = "network" /\ N!Next /\ UNCHANGED subject
OfMedia == subject = "media" /\ M!Next /\ UNCHANGED subject

EachNext == OfBattery \/ OfNetwork \/ OfMedia

\* The event loop takes what is next in the inbox, the bus answers the call that is next:
\* EventLoop and the answers of each of the three, by what they alone do to the queues.
Takes == inbox # <<>> /\ inbox' = Tail(inbox)
Answers == service.calls # <<>> /\ service' = [service EXCEPT !.calls = Tail(@)]

EachFairSpec ==
    EachInit /\ [][EachNext]_readingVars /\ WF_inbox(Takes) /\ WF_service(Answers)

\* Each service's objects are well formed, and never draw what belongs to two sources as
\* one reading. They hold changes back for a read whose answer is on its way, but for the
\* battery's, which may do so for a read of a walk that another has overtaken.
EachWellFormed ==
    /\ subject = "battery" => WellFormed
    /\ subject = "network" => N!WellFormed
    /\ subject = "media" => M!WellFormed

\* When everything has arrived, each service shows what its daemon says now.
EachInStep ==
    /\ subject = "battery" => InStep
    /\ subject = "network" => N!InStep
    /\ subject = "media" => M!InStep

\* Each service's questions come to an end, roams, refreshes and invalidations included:
\* what is asked is asked in order to show it, and nothing keeps asking.
EachSettles == <>[](inbox = <<>> /\ service.calls = <<>>)
=============================================================================
