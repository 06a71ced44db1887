--------------------------- MODULE MCLimitListener ---------------------------
(* LimitListener for TLC: two listeners, three connections.                *)
EXTENDS LimitListener

CONSTANTS http, https, c1, c2, c3

Listeners == {http, https}
Conns     == {c1, c2, c3}

=============================================================================
