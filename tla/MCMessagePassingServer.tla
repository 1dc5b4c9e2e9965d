----------------------- MODULE MCMessagePassingServer -----------------------
(* Model-checking instances of MessagePassingServer: which process opens   *)
(* which connection.                                                       *)
EXTENDS MessagePassingServer, TLC

OneClient  == 1 :> "p1"
TwoClients == 1 :> "p1" @@ 2 :> "p2"
Reconnect  == 1 :> "p1" @@ 2 :> "p1"

=============================================================================
