------------------------- MODULE MCGatewayLifecycle -------------------------
(* Instances of GatewayLifecycle for TLC.                                  *)
EXTENDS GatewayLifecycle

OneWindow == {"window"}
OneRepairer == {"repairer"}
TwoPorts == {1, 2}

Config(on, port, helpers) == [on |-> on, port |-> port, helpers |-> helpers]

\* Stopped; one that can be adopted; one on another port with CLI helpers.
ThreeConfigs == {
    Config(FALSE, 1, {"web"}),
    Config(TRUE, 1, {"web"}),
    Config(TRUE, 2, {"cli"})}
=============================================================================
