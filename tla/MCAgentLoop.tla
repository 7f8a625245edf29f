---------------------------- MODULE MCAgentLoop -----------------------------
(***************************************************************************)
(* Instances of AgentLoop for TLC.                                         *)
(***************************************************************************)
EXTENDS AgentLoop

Steer(id) == [id |-> id, kind |-> "Steer"]
Stop(id, action) == [id |-> id, kind |-> action]
Resolve(id, call, answer) == [id |-> id, kind |-> "Resolve", call |-> call, answer |-> answer]

NoCommands == {}

\* Two steers, a refusal and an answer, and a cancel whose id is also the id
\* of an interrupt.
ClientCommands == {Steer("s1"), Steer("s2"), Stop("stop", "Cancel"), Stop("stop", "Interrupt"),
                   Resolve("deny", 2, "Denied"), Resolve("answer", 1, "Answered")}

\* An approval and an interrupt.
StopCommands == {Resolve("approve", 1, "Approved"), Stop("stop", "Interrupt")}

ToolCalls == {<<"read", "write">>, <<"question">>}
WriteCalls == {<<"write">>}

=============================================================================
