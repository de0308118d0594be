---------------------------- MODULE MCMcpGateway ----------------------------
(***************************************************************************)
(* Instances of the MCP session filter.  Each situation gives room to what  *)
(* it is about and leaves the rest at its smallest, so that all of them     *)
(* together stay small.                                                     *)
(***************************************************************************)
EXTENDS McpSession

CONSTANTS alice, bob    \* the users; bob is in the whitelist

Plain == [upstream |-> "rest", redis |-> TRUE, userLevel |-> FALSE, sessions |-> 1,
          users |-> {}, calls |-> 1, pings |-> 1, outages |-> 0, changes |-> 0, ends |-> 0]

\* Two streams side by side, and a call.
TwoStreams == [Plain EXCEPT !.sessions = 2]
\* One stream with calls, while Redis fails and the configuration is dropped.
Disturbed == [Plain EXCEPT !.calls = 2, !.outages = 1, !.ends = 1]
Streamable == [Plain EXCEPT !.upstream = "streamable"]
NoRedis == [Plain EXCEPT !.redis = FALSE]
UsersWithoutRedis == [NoRedis EXCEPT !.userLevel = TRUE, !.users = {alice}]
\* Servers per user: the configuration changes and Redis fails between the steps of two calls.
PerUser == [Plain EXCEPT !.userLevel = TRUE, !.sessions = 0, !.users = {alice}, !.calls = 2,
                         !.pings = 0, !.outages = 1, !.changes = 1, !.ends = 1]
\* Servers per user whose calls are answered through a stream.
PerUserStream == [Plain EXCEPT !.userLevel = TRUE, !.users = {alice}, !.calls = 2, !.pings = 0]
TwoUsers == [PerUserStream EXCEPT !.users = {alice, bob}, !.sessions = 0]

MCSituations == {TwoStreams, Disturbed, Streamable, NoRedis, UsersWithoutRedis, PerUser,
                 PerUserStream, TwoUsers}
MCWhitelist == {bob}
=============================================================================
