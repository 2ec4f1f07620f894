------------------------------ MODULE MCOutbox ------------------------------
(* Instances of Outbox for TLC.  Each definition of Allowed names the outside *)
(* events a run lets happen, and how often. *)
EXTENDS Outbox, TLC

\* The user steps in, a process restarts or opens the file, an answer is lost.
Disturbed == [command |-> 1, lostAnswer |-> 1, sqlError |-> 0, restart |-> 1, outage |-> 0]

\* Nobody touches the queue; statements fail and processes come and go.
Unattended == [command |-> 0, lostAnswer |-> 0, sqlError |-> 1, restart |-> 1, outage |-> 0]

\* The daemon works on its own; the phone comes and goes.
Steady == [command |-> 0, lostAnswer |-> 1, sqlError |-> 0, restart |-> 0, outage |-> 1]

\* Passes overlap and nothing else happens.
Calm == [e \in Events |-> 0]

\* A restart, nothing else.
Restarted == [Calm EXCEPT !["restart"] = 1]

\* One command of the user, nothing else.
Commanded == [Calm EXCEPT !["command"] = 1]

Symmetry == Permutations(TuiPasses)
=============================================================================
