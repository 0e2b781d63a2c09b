------------------------------ MODULE Observer ------------------------------
(***************************************************************************)
(* Caine/core/observer.py: one observation asks the network, the disks and *)
(* the services in turn, each through a connection or a child process that *)
(* answers, cannot be had, or hangs until the observer's patience is over. *)
(*                                                                         *)
(* Left out: the values, which nothing but the planner's choice of a goal  *)
(* depends on, and the figures that psutil reads without a wait.           *)
(***************************************************************************)
EXTENDS Naturals, Sequences

CONSTANTS
  Devices,            (* how many partitions psutil lists                   *)
  Units,              (* observer.systemd_services                          *)
  HostFaults          (* whether psutil, or anything not caught, may raise  *)

ASSUME ObserverAssumption ==
  /\ Devices \in Nat
  /\ Units \in Nat
  /\ HostFaults \in BOOLEAN

VARIABLES
  probe,              (* how many of them have been asked                   *)
  asked               (* whether the answer of one is awaited               *)

observerVars == <<probe, asked>>

(* The internet, smartctl for each device, systemctl for each unit.        *)
Probes == 1 + Devices + Units

ObserverInit ==
  /\ probe = 0
  /\ asked = FALSE

NextProbe ==
  /\ probe' = probe + 1
  /\ asked' = FALSE

(* A connection is begun, or a child is started.                           *)
Ask ==
  /\ probe < Probes
  /\ ~asked
  /\ asked' = TRUE
  /\ probe' = probe

(* It cannot be: OSError is "unknown", inactive or offline.                *)
CannotAsk ==
  /\ probe < Probes
  /\ ~asked
  /\ NextProbe

Answer == asked /\ NextProbe

(* Slip: only the internet is waited for with a timeout.                   *)
GiveUpInternet == asked /\ probe = 0 /\ NextProbe

(* wait_for gives up; the child is left to itself.                         *)
GiveUp == asked /\ NextProbe

Observed == probe = Probes

ResetObserver == probe' = 0 /\ asked' = FALSE
=============================================================================
