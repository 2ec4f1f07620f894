------------------------------ MODULE Delivery ------------------------------
(***************************************************************************)
(* What the outbox owes its user, whoever runs it: a message goes to the   *)
(* phone only on a permit.  Composing it grants one, so does every command *)
(* that puts it back in the queue, and so does an attempt that failed as   *)
(* far as the program could tell.  A permit is used once; it may lapse.    *)
(***************************************************************************)
EXTENDS Naturals

CONSTANT Ids

VARIABLES
  permits,  \* permits outstanding
  handed,   \* times the phone accepted the message
  granted   \* permits ever granted

vars == <<permits, handed, granted>>

Init ==
  /\ permits = [i \in Ids |-> 0]
  /\ handed = [i \in Ids |-> 0]
  /\ granted = [i \in Ids |-> 0]

\* A new permit may fall together with one that is outstanding.
Grant(i) ==
  /\ granted' = [granted EXCEPT ![i] = @ + 1]
  /\ permits' \in {permits, [permits EXCEPT ![i] = @ + 1]}
  /\ UNCHANGED handed

HandOver(i) ==
  /\ permits[i] > 0
  /\ permits' = [permits EXCEPT ![i] = @ - 1]
  /\ handed' = [handed EXCEPT ![i] = @ + 1]
  /\ UNCHANGED granted

\* The phone took the message and the program was told it failed.
HandOverUnheard(i) ==
  /\ permits[i] > 0
  /\ permits' \in {permits, [permits EXCEPT ![i] = @ - 1]}
  /\ handed' = [handed EXCEPT ![i] = @ + 1]
  /\ granted' = [granted EXCEPT ![i] = @ + 1]

Lapse ==
  /\ permits' \in [Ids -> Nat]
  /\ \A i \in Ids : permits'[i] <= permits[i]
  /\ UNCHANGED <<handed, granted>>

Next ==
  \/ \E i \in Ids : Grant(i) \/ HandOver(i) \/ HandOverUnheard(i)
  \/ Lapse

Spec == Init /\ [][Next]_vars
=============================================================================
