------------------------ MODULE MCWorkspaceUseLeases ------------------------
(* The desktop opens two terminals in workspace 1: its removal of 1 and 2     *)
(* tolerates them, its rename of 1 does not, and neither may the server's.    *)
EXTENDS WorkspaceUseLeases, TLC

CONSTANTS desktop, server, terminal, u1, u2, m1, m2, m3

MCBackendOf == (u1 :> desktop) @@ (u2 :> desktop)
                 @@ (m1 :> desktop) @@ (m2 :> server) @@ (m3 :> desktop)
MCPlaceOf == [u \in Users |-> 1]
MCKindOf == [u \in Users |-> terminal]
MCClaims == [m \in Mutators |-> IF m = m1 THEN {1, 2} ELSE {1}]
MCIgnored == [m \in Mutators |-> [w \in Workspaces |-> IF m = m1 THEN {terminal} ELSE {}]]
=============================================================================
