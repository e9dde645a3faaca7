--------------------------- MODULE MCDispatchProxy ---------------------------
(* DispatchProxy for TLC: four hubs; all know each other but for one.      *)
EXTENDS DispatchProxy, TLC

CONSTANTS h1, h2, h3, h4

Mesh == h1 :> {h1, h2, h3} @@ h2 :> {h1, h3, h4} @@ h3 :> {h1, h2, h4}
        @@ h4 :> {h2, h3}
=============================================================================
