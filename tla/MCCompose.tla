----------------------------- MODULE MCCompose -----------------------------
(* Instances of Compose for TLC. *)
EXTENDS Compose, TLC

\* What may happen from outside: conversations opened, texts typed, presses of
\* send, commands that fill the composer, troubles.
Budget(open, type, send, command, trouble) ==
  [e \in Events |-> CASE e = "open" -> open [] e = "type" -> type [] e = "send" -> send
                      [] e = "command" -> command [] e = "trouble" -> trouble]

\* Switching conversations during a send; a retry, a quotation or an edited
\* outbox entry; editing while a message is under way. Each with a trouble.
Writing == {Budget(2, 1, 2, 0, 1), Budget(1, 1, 2, 1, 1), Budget(2, 2, 1, 0, 1)}

\* A failed message, a retry, and a change of mind.
Retrying == {Budget(1, 2, 2, 1, 0)}

\* A draft, a quit and another start.
Reopening == {Budget(1, 1, 1, 0, 1)}

\* Texts are interchangeable. No property of a run that uses this is a
\* liveness property.
Symmetry == Permutations(Texts)
=============================================================================
