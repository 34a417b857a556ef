-------------------------- MODULE PrefixDiscovery --------------------------
(***************************************************************************)
(* What the start-up scan of the DTU promises: the slots of the register   *)
(* map are taken one after the other from the first, each adds its         *)
(* (serial, port number) pair to the inventory, and the scan closes for    *)
(* good at the first slot that is not taken.                               *)
(***************************************************************************)
EXTENDS Integers

CONSTANTS Serials,      \* serial numbers as the client decodes them
          PortNumbers,  \* port numbers as the registers give them
          NumSlots      \* slots of the register map

VARIABLES slots,        \* the (serial, port number) pair of each slot that holds a port
          taken,        \* how many slots have been taken
          pairs,        \* the pairs in the inventory
          open          \* no slot has been refused yet

vars == <<slots, taken, pairs, open>>

Init ==
  /\ \E holding \in SUBSET (0 .. NumSlots - 1) : slots \in [holding -> Serials \X PortNumbers]
  /\ taken = 0 /\ pairs = {} /\ open = TRUE

\* The next slot holds a port: its pair enters the inventory.
Take == /\ open
        /\ taken \in DOMAIN slots
        /\ taken' = taken + 1
        /\ pairs' = pairs \cup {slots[taken]}
        /\ UNCHANGED <<slots, open>>

\* A slot that does not answer, or holds no port, ends the inventory.
Close == open /\ open' = FALSE /\ UNCHANGED <<slots, taken, pairs>>

Next == Take \/ Close

Spec == Init /\ [][Next]_vars
=============================================================================
