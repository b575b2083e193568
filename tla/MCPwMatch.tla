------------------------------ MODULE MCPwMatch ------------------------------
(***************************************************************************)
(* Scopes for checking PwMatch where the whole state space is out of reach. *)
(***************************************************************************)
EXTENDS PwMatch

\* Nobody disconnects, leaves the lobby or sends a message the match ignores,
\* and the handler of the control client keeps up with the match.  What this
\* leaves out is in the runs with two players.
QuietClients ==
    /\ \A i \in DOMAIN event_channel :
        LET e == event_channel[i] IN
        /\ e.content # "disconnected"
        /\ e.content = "message" => e.value \in {"addPlayer", "startGame"}
    /\ Len(ctrl_chan[Ctrl]) <= IF phase = "playing" THEN 2 ELSE 1
=============================================================================
