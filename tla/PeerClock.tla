----------------------------- MODULE PeerClock -----------------------------
(***************************************************************************)
(* The time stamps of lamport.c, ricart.c and singhal.c.  A request is     *)
(* stamped with CLOCK_REALTIME minus the start of the experiment, which    *)
(* the supervisor announced in its SYNCRO message; peer_msg_add_timestamp  *)
(* subtracts seconds and nanoseconds apart and truncates each to uint32,   *)
(* without a borrow from the seconds.                                      *)
(*                                                                         *)
(* All nodes read one clock (they share a host, or are synchronised).      *)
(* Physical time is counted in instants; now is the earliest instant the   *)
(* clock can still show.  A request is stamped at now or, when time has    *)
(* passed, at a later one of Instants; the next one may carry an equal     *)
(* reading, but a request is received later than the instant it was        *)
(* stamped at.                                                             *)
(***************************************************************************)
EXTENDS Peer

CONSTANTS
    NsecPerSec,     \* instants in a second, 10^9 in the code
    Uint32,         \* values of a uint32, 2^32 in the code
    SyncroInstant,  \* instant the supervisor starts the experiment at
    Instants,       \* instants at which requests may be stamped
    LongestPause,   \* bound on how far the clock moves on before a stamp
    DistinctReadings \* TRUE: no two requests ever carry the same reading

ASSUME ClockAssumption ==
    /\ NsecPerSec \in Nat \ {0}
    /\ Uint32 \in Nat /\ Uint32 > NsecPerSec
    /\ SyncroInstant \in Nat
    /\ Instants \subseteq Nat /\ \A t \in Instants : SyncroInstant <= t
    /\ LongestPause \in Nat
    /\ DistinctReadings \in BOOLEAN

VARIABLES
    now,
    sup_syncro      \* sup_syncro[p]: start of the experiment as p knows it

clockVars == <<now, sup_syncro>>

Timespec == [sec : Nat, nsec : Nat]

ClockTypeOK ==
    /\ now \in Nat
    /\ sup_syncro \in [Proc -> Timespec]

ClockInit ==
    /\ now = SyncroInstant
    /\ sup_syncro = [p \in Proc |-> [sec |-> 0, nsec |-> 0]]

(* clock_gettime at instant t. *)
Reading(t) == [sec |-> t \div NsecPerSec, nsec |-> t % NsecPerSec]

(* When clock_gettime may return, from instant t on, for a request. *)
StampInstants(t) == {u \in t .. t + LongestPause : u \in Instants}

(* (uint32)(a - b) *)
MinusUint32(a, b) == (a + Uint32 - (b % Uint32)) % Uint32

Stamp(p, t) ==
    [sec  |-> MinusUint32(Reading(t).sec, sup_syncro[p].sec),
     nsec |-> MinusUint32(Reading(t).nsec, sup_syncro[p].nsec)]

(* Stamps are compared by seconds, then nanoseconds. *)
Earlier(a, b) == a.sec < b.sec \/ (a.sec = b.sec /\ a.nsec < b.nsec)

(* The stamp a peer that knows when the experiment started takes at t. *)
EpochStamp(t) ==
    [sec  |-> MinusUint32(Reading(t).sec, Reading(SyncroInstant).sec),
     nsec |-> MinusUint32(Reading(t).nsec, Reading(SyncroInstant).nsec)]

(***************************************************************************)
(* Requests stamped later carry later stamps.  lamport.c and ricart.c rely *)
(* on it, and the missing borrow breaks it for some starts.                *)
(***************************************************************************)
StampsIncrease ==
    \A t, u \in Instants : t < u => Earlier(EpochStamp(t), EpochStamp(u))

REQUEST(p, t) == [type |-> "REQUEST", pid |-> p, ts |-> Stamp(p, t), at |-> t]

(* A request is stamped at instant t. *)
StampTaken(t) ==
    /\ now' \in (IF DistinctReadings THEN {t + 1} ELSE {t, t + 1})
    /\ UNCHANGED sup_syncro

ArrivalTime(msg) == LargerOf(now, msg.at + 1)

RequestArrives(msg) == now' = ArrivalTime(msg) /\ UNCHANGED sup_syncro

KeptWhenAsked(p, slot) ==       \* faulty: SYNCRO is dropped in every state
    SupervisorMsgNoted(p, slot) /\ UNCHANGED clockVars

(* A supervisor message that is not a WANT to an idle peer. *)
SupervisorMsgKept(p, slot) ==
    /\ SupervisorMsgNoted(p, slot)
    /\ sup_syncro' = IF IsSyncro(p, slot)
                     THEN [sup_syncro EXCEPT ![p] = Reading(SyncroInstant)]
                     ELSE sup_syncro
    /\ UNCHANGED now

(***************************************************************************)
(* A peer that competes stamps its requests by the epoch of the experiment.*)
(* Its only chance to learn it is to read SYNCRO while it is idle, and the *)
(* WANT it may overlook it for is queued in the same breath.  (It holds    *)
(* as long as packets from one host do not overtake each other.)           *)
(***************************************************************************)
EpochKnown ==
    \A p \in Proc : fsm_state[p] # "PS_IDLE" => sup_syncro[p] = Reading(SyncroInstant)
=============================================================================
