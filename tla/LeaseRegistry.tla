--------------------------- MODULE LeaseRegistry ----------------------------
(***************************************************************************)
(* What the coordinator promises of its registry of nodes: an entry is a   *)
(* lease.  It is granted once under an id of its own, renewed by its node, *)
(* put under suspicion and taken back only when it has not been renewed    *)
(* for long enough, and never kept much longer than that.  There are no    *)
(* calls, agents, locks or monitor, and only one clock.                    *)
(***************************************************************************)
EXTENDS Integers

CONSTANTS
  SuspectAfter,  \* when a lease may be suspected
  RemoveAfter,   \* when it may be taken back
  Grace,         \* how much later that has been done at the latest
  MaxStamp       \* how old a lease can be when it is granted

VARIABLES
  leases,   \* id -> [status, age since the lease was renewed]
  granted,  \* the ids granted so far are 1..granted
  running   \* a registry that stops loses its leases

vars == <<leases, granted, running>>

Init ==
  /\ leases = [id \in {} |-> 0]
  /\ granted = 0
  /\ running = TRUE

\* Every grant is a lease of its own.
Grant ==
  /\ running
  /\ granted' = granted + 1
  /\ \E age \in 0..MaxStamp :
       leases' = [id \in DOMAIN leases \cup {granted'} |->
                    IF id = granted' THEN [status |-> "Healthy", age |-> age]
                                     ELSE leases[id]]
  /\ UNCHANGED running

Renew(id) ==
  /\ running /\ id \in DOMAIN leases
  /\ leases' = [leases EXCEPT ![id] = [status |-> "Healthy", age |-> 0]]
  /\ UNCHANGED <<granted, running>>

Silent(limit) == {id \in DOMAIN leases : leases[id].age > limit}

\* Some silent leases are suspected, and some are taken back.
Sweep ==
  /\ running
  /\ \E suspected \in SUBSET Silent(SuspectAfter), removed \in SUBSET Silent(RemoveAfter) :
       leases' = [id \in DOMAIN leases \ removed |->
                    IF id \in suspected
                    THEN [leases[id] EXCEPT !.status = "Suspect"] ELSE leases[id]]
  /\ UNCHANGED <<granted, running>>

Stop == running /\ running' = FALSE /\ leases' = [id \in {} |-> 0] /\ UNCHANGED granted

Start == ~running /\ running' = TRUE /\ UNCHANGED <<leases, granted>>

\* Time waits for a lease that has to be suspected or taken back.
Pass ==
  /\ \A id \in DOMAIN leases :
       /\ leases[id].age < RemoveAfter + Grace
       /\ leases[id].status = "Healthy" => leases[id].age < SuspectAfter + Grace
  /\ leases' = [id \in DOMAIN leases |-> [leases[id] EXCEPT !.age = @ + 1]]
  /\ UNCHANGED <<granted, running>>

Next ==
  \/ Grant \/ (\E id \in DOMAIN leases : Renew(id)) \/ Sweep
  \/ Stop \/ Start \/ Pass

Spec == Init /\ [][Next]_vars
=============================================================================
