---------------------------- MODULE Reservations ----------------------------
(***************************************************************************)
(* What the scheduler promises of the resources it gives to sessions: a    *)
(* reservation takes its share of every selected node in one step, and     *)
(* only if each of them has that much CPU left; it is given back whole,    *)
(* and only if it was taken.  There are no calls, session ids or locks.    *)
(***************************************************************************)
EXTENDS Integers

CONSTANTS
  Nodes, SelectedNodes,
  CpuPerNode, RamPerNode, VramPerNode,  \* the share of one reservation
  CpuLimit

VARIABLES
  held,           \* how many reservations there are
  cpu, ram, vram  \* what is reserved on each node

vars == <<held, cpu, ram, vram>>

Init ==
  /\ held = 0
  /\ \A load \in {cpu, ram, vram} : load = [n \in Nodes |-> 0]

Shifted(load, share) ==
  [n \in Nodes |-> IF n \in SelectedNodes THEN load[n] + share ELSE load[n]]

Reserve ==
  /\ \A n \in SelectedNodes : cpu[n] + CpuPerNode <= CpuLimit
  /\ held' = held + 1
  /\ cpu' = Shifted(cpu, CpuPerNode)
  /\ ram' = Shifted(ram, RamPerNode)
  /\ vram' = Shifted(vram, VramPerNode)

Release ==
  /\ held > 0
  /\ held' = held - 1
  /\ cpu' = Shifted(cpu, -CpuPerNode)
  /\ ram' = Shifted(ram, -RamPerNode)
  /\ vram' = Shifted(vram, -VramPerNode)

Next == Reserve \/ Release

Spec == Init /\ [][Next]_vars
=============================================================================
