---------------------------- MODULE MCUdpServer ----------------------------
(* UdpServer for TLC, with two workers.  Flow a stays on the first socket,  *)
(* flow b moves to the second when it is bound.                             *)
EXTENDS UdpServer, TLC

CONSTANTS a, b, c

TwoFlows == {a, b}
ThreeFlows == {a, b, c}

\* The threads of one client, and a sender of short datagrams.
OneClient == a :> 0 @@ b :> 1 @@ c :> NoHeader

\* The first threads of two clients.
TwoClients == a :> 0 @@ b :> 0

Spread == a :> <<1, 1>> @@ b :> <<1, 2>> @@ c :> <<1, 1>>
Together == a :> <<1, 2>> @@ b :> <<1, 2>>
=============================================================================
