------------------------------ MODULE EventBus ------------------------------
(***************************************************************************)
(* The queue of the in-process event bus (Caine/core/event_bus.py): an     *)
(* unbounded FIFO that publish fills and drain empties, one event at a     *)
(* time.  Who hears an event is the subject of the modules that use it.    *)
(***************************************************************************)
EXTENDS Naturals, Sequences

VARIABLE
  bus                 (* _queue                                             *)

Publish(event) == bus' = Append(bus, event)

(* One turn of drain's loop takes one event.                               *)
Take == bus # <<>> /\ bus' = Tail(bus)
=============================================================================
