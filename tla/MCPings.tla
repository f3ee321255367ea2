------------------------------ MODULE MCPings ------------------------------
(***************************************************************************)
(* The pings on a small instance: one ping, an admin and another user, the *)
(* dispatcher and one dashboard handler.                                   *)
(***************************************************************************)
EXTENDS PingActor

CONSTANTS x, mod, viewer, web, named, bad

\* What pings.ron may hold when the bot starts, if it is not empty: a ping with a
\* cooldown of its own, or one whose template is refused today.
InFile(t, c) == [template |-> t, members |-> {viewer}, cooldown |-> c, fire_count |-> 0]
FromTheFile == {InFile(named, 2), InFile(bad, None)}

=============================================================================
