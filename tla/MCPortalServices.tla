-------------------------- MODULE MCPortalServices --------------------------
(* Small instances of PortalServices for TLC.                              *)
EXTENDS PortalServices

\* The handlers of examples/full/main/main.c, and one too many for the registry.
App(uri, method) == [uri |-> uri, method |-> method, by |-> "app"]
ControlAndWs == {App("/control", "POST"), App("/ws", "GET")}
OneTooMany == ControlAndWs \cup {App("/api", "POST")}

\* Names as short and as long as labels and the receive buffer allow, the root;
\* two questions; an OPT record; flags beside the opcode; another opcode.
Names == {<<n>> : n \in 1 .. 63} \cup {<<63, n>> : n \in 1 .. 63} \cup {<< >>, <<3, 7, 3>>}
Question == [labels: {<< >>, <<3, 7, 3>>}, type: {"A", "other"}]
Query(questions, opcode, beside, extra) ==
    [questions |-> questions, opcode |-> opcode, beside |-> beside, extra |-> extra]
SomeQueries ==
    {Query(<<[labels |-> name, type |-> "A"]>>, 0, FALSE, extra) : name \in Names, extra \in {0, 11}}
    \cup {Query(questions, opcode, beside, 0) :
            questions \in {<< >>} \cup {<<q>> : q \in Question} \cup {<<p, q>> : p, q \in Question},
            opcode \in {0, 2}, beside \in BOOLEAN}
=============================================================================
