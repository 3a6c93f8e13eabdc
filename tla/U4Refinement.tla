---------------------------- MODULE U4Refinement ----------------------------
(***************************************************************************)
(* U4 implements DoorLocks, through faults and restarts: the snapshots on  *)
(* their way are the write operations that core 1 has not transferred yet, *)
(* and health checks and the reads of U3 are the traffic between them.     *)
(***************************************************************************)
EXTENDS U4

\* The closures that are still to be executed, oldest first: a write that core
\* 1 has taken from the queue counts until it changes the register.
Transit == IF core1 = "write" THEN <<task>> \o queue ELSE queue

Snapshot(x) == IF IsWrite(x) THEN {heap[x].outputs \cap Relays} ELSE {}

Pipe == [i \in DOMAIN Transit |-> Snapshot(Transit[i])]

Broken == faults > 0 \/ "restart" \in syserr

Locks == INSTANCE DoorLocks WITH
           wanted <- outputs \cap Relays,
           pipe <- Pipe,
           actual <- device \cap Relays,
           reported <- announced,
           broken <- Broken

\* Every behaviour of the relays, the ISR and core 1 is one of DoorLocks: the
\* device only ever shows relay states that were asked for, in that order, it
\* catches up whatever faults came between, and without faults the events sent
\* follow it.
ImplementsDoorLocks == Locks!Spec
=============================================================================
