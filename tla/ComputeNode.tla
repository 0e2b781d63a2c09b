---------------------------- MODULE ComputeNode ----------------------------
(***************************************************************************)
(* The client of the compute node EES2 (Caine/network/compute_node.py):    *)
(* heartbeat and reason, each with the one exchange it awaits, and the     *)
(* node they talk to, which is external and may change at any time; and    *)
(* what a subscriber of the event bus learns of it.                        *)
(*                                                                         *)
(* Left out: failure_count, message and last_seen_at, which decide         *)
(* nothing, and the sleep of at most a tenth of a second.                  *)
(***************************************************************************)
EXTENDS EventBus

(* The events that tell of a state; the others are left out.               *)
Events == {"available", "unavailable", "restarted", "shutdown"}

NodeNews == {"available", "unavailable"}

CONSTANTS
  Conditions,         (* what the node can be like; it starts out in any    *)
  ReconnectBackoff,   (* network.reconnect_backoff_seconds                  *)
  MaxBackoff          (* network.max_reconnect_backoff_seconds              *)

(* A node that is "up" answers, though it may be with an HTTP error that   *)
(* refuses the inference; a "garbled" one answers what is no JSON object;  *)
(* one that is "down" refuses a heartbeat too, or cannot be reached.       *)
ASSUME ComputeNodeAssumption ==
  /\ Conditions \subseteq {"up", "garbled", "down"}
  /\ ReconnectBackoff \in Nat
  /\ MaxBackoff \in Nat

VARIABLES
  told,               (* the node news a subscriber heard last              *)
  announced,          (* history: the node news published last              *)
  node,               (* external: the node's condition                     *)
  available,          (* state.available                                    *)
  backoff,            (* _backoff_seconds                                   *)
  session             (* whether an HTTP session is open                    *)

busVars == <<bus, told, announced>>
clientVars == <<available, backoff, session>>

(* One subscriber stands for all.  The client starts out with an           *)
(* unavailable node, and says nothing.                                     *)
BusInit ==
  /\ bus = <<>>
  /\ told = "unavailable"
  /\ announced = "unavailable"

ClientInit ==
  /\ node \in Conditions
  /\ available = FALSE
  /\ backoff = ReconnectBackoff
  /\ session = FALSE

Announce(event) ==
  /\ Publish(event)
  /\ announced' = IF event \in NodeNews THEN event ELSE announced
  /\ told' = told

Hear(event) ==
  /\ told' = IF event \in NodeNews THEN event ELSE told
  /\ announced' = announced

(* Slip: the latest event is dispatched first.                             *)
DispatchLatest ==
  /\ bus # <<>>
  /\ Hear(bus[Len(bus)])
  /\ bus' = SubSeq(bus, 1, Len(bus) - 1)

(* What the handlers raise is logged.                                      *)
Dispatch == Take /\ Hear(Head(bus))

(* Slip: only the loss of the node is worth an event.                      *)
PublishLoss(was) ==
  IF was /\ ~available' THEN Announce("unavailable") ELSE UNCHANGED busVars

PublishChange(was) ==
  IF was = available' THEN UNCHANGED busVars
  ELSE Announce(IF available' THEN "available" ELSE "unavailable")

(* Slip: a node that was given up is not asked again.                      *)
HeartbeatOfKnown ==
  /\ available' = (available /\ node # "down")
  /\ session' = available'
  /\ backoff' = backoff
  /\ PublishChange(available)

(* Slip: the backoff is doubled without end.                               *)
HeartbeatUncapped ==
  /\ available' = (node # "down")
  /\ backoff' = IF node # "down" THEN ReconnectBackoff ELSE 2 * backoff
  /\ session' = (node # "down")
  /\ PublishChange(available)

(* A failure closes the session and doubles the backoff.                   *)
Heartbeat ==
  /\ \/ /\ node # "down"
        /\ available' = TRUE
        /\ backoff' = ReconnectBackoff
        /\ session' = TRUE
     \/ /\ node = "down"
        /\ available' = FALSE
        /\ backoff' = IF 2 * backoff <= MaxBackoff THEN 2 * backoff
                                                   ELSE MaxBackoff
        /\ session' = FALSE
  /\ PublishChange(available)

(* reason: the local model decides when it returns None; what the node     *)
(* says does not matter here.  It raises on an answer it cannot read.  A   *)
(* node that refuses is kept, one that cannot be reached is given up.      *)
ReasonRaises == available /\ node = "garbled"

Reason ==
  /\ ~ReasonRaises
  /\ available' \in IF node = "down" THEN {available, FALSE} ELSE {available}
  /\ session' = (session \/ available)
  /\ UNCHANGED <<backoff, busVars>>

ReasonInVain ==
  /\ ReasonRaises
  /\ session' = TRUE
  /\ UNCHANGED <<available, backoff, busVars>>

CloseSession == session' = FALSE /\ UNCHANGED <<available, backoff>>
=============================================================================
