-------------------------- MODULE VolumeAssignment --------------------------
(***************************************************************************)
(* What volume disks promise to an operator who runs one command at a time *)
(* (design/v1/Kompox-ProviderDriver.ja.md, VolumeDisk...): each volume has a *)
(* set of disks and, among them, the assigned ones.  Assignments move only *)
(* while a switch to a chosen disk is under way, and only towards it; a    *)
(* switch that completes leaves the chosen disk as the only assigned one;  *)
(* an assigned disk cannot be removed.                                     *)
(***************************************************************************)
CONSTANTS Volumes, Names, None

VARIABLES
  disks,     \* [Volumes -> SUBSET Names]
  assigned,  \* [Volumes -> SUBSET Names]
  goal,      \* [Volumes -> Names \cup {None}]: disk a switch is moving to
  settled    \* volumes whose last switch has just been reported complete

vars == <<disks, assigned, goal, settled>>

Init ==
  /\ disks = [v \in Volumes |-> {}]
  /\ assigned = [v \in Volumes |-> {}]
  /\ goal = [v \in Volumes |-> None]
  /\ settled = {}

\* A volume's first disk may be assigned with its creation.
Add(v, n) ==
  /\ n \notin disks[v]
  /\ disks' = [disks EXCEPT ![v] = @ \cup {n}]
  /\ \/ UNCHANGED assigned
     \/ disks[v] = {} /\ assigned' = [assigned EXCEPT ![v] = {n}]
  /\ UNCHANGED <<goal, settled>>

Remove(v, n) ==
  /\ n \notin assigned[v]
  /\ disks' = [disks EXCEPT ![v] = @ \ {n}]
  /\ UNCHANGED <<assigned, goal, settled>>

Choose(v, n) ==
  /\ goal[v] = None
  /\ n \in disks[v]
  /\ goal' = [goal EXCEPT ![v] = n]
  /\ UNCHANGED <<disks, assigned, settled>>

\* One flag changes towards the goal; a switch abandoned meanwhile ends here.
Move(v) ==
  /\ goal[v] # None
  /\ v \notin settled
  /\ \/ assigned' = [assigned EXCEPT ![v] = @ \cup {goal[v]}]
     \/ \E n \in assigned[v] \ {goal[v]} :
          assigned' = [assigned EXCEPT ![v] = @ \ {n}]
  /\ goal' \in {goal, [goal EXCEPT ![v] = None]}
  /\ UNCHANGED <<disks, settled>>

Complete(v) ==
  /\ goal[v] # None
  /\ assigned[v] = {goal[v]}
  /\ settled' = settled \cup {v}
  /\ UNCHANGED <<disks, assigned, goal>>

\* The switch is given up, or its report is history.
Leave(v) ==
  /\ goal[v] # None
  /\ goal' = [goal EXCEPT ![v] = None]
  /\ settled' = settled \ {v}
  /\ UNCHANGED <<disks, assigned>>

Next == \E v \in Volumes :
  \/ \E n \in Names : Add(v, n) \/ Remove(v, n) \/ Choose(v, n)
  \/ Move(v) \/ Complete(v) \/ Leave(v)

Spec == Init /\ [][Next]_vars
=============================================================================
