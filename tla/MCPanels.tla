------------------------------ MODULE MCPanels -------------------------------
\* Values for the constants of Panels, and the starts that are told apart.
EXTENDS Panels

BoundKeys ==
  [history |-> 2, search |-> 3, either |-> 3, writing |-> 5, attach |-> 6, media |-> 5,
   contacts |-> 4, reply |-> 5]
BoundLoads == [history |-> 3, search |-> 2, either |-> 3, contacts |-> 2]
BoundFaults ==
  [history |-> 1, search |-> 0, either |-> 1, writing |-> 1, attach |-> 1, media |-> 2, contacts |-> 1,
   reply |-> 1, echo |-> 1]

\* Two conversations of 2 and 3 messages, 1 and 3 of them in the table.
TopOf == [t \in Threads |-> IF t = "a" THEN 2 ELSE 3]
CachedOf == [t \in Threads |-> IF t = "a" THEN 1 ELSE 3]

\* Writing help is on, with the cloud provider, and a local one has a model.
Start ==
  [A!Default EXCEPT !.on = TRUE, !.prov = "cl", !.ai = [model |-> "cl", key |-> TRUE],
                    !.profiles["lo"].model = "lo", !.pol = "cloud"]

\* A message of two parts and one of one.
Received == {<<"p", "q">>, <<"r">>}
\* One person has two numbers; their thread has the other one than the address book.
NumberOf == [t \in Chats |-> IF t = "t" THEN "+p" ELSE "q"]
PersonOf == [n \in Numbers |-> IF n = "+p" THEN "p" ELSE n]

\* A component with several starts has one while another runs; the two
\* conversations of writing help are alike.
MCInit ==
  /\ Init
  /\ which # "contacts" => book = {} /\ colour["t"] = None
  /\ selected = "t" /\ (\A u \in Chats \ {"t"} : colour[u] = None) /\ book \in {{}, {"p", "r"}}
  /\ conv = "a"
  /\ which # "attach" => at = "o" /\ able
  /\ which # "reply" => rEditor = 0 /\ app.rev = 0 /\ ~undo

MCSpec == MCInit /\ [][Next]_vars
=============================================================================
