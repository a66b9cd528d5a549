------------------------------ MODULE MCSessions ------------------------------
(* One port in two workers, under one configuration and trouble at a time. *)
(* An answer may come from either of two IPs where somebody looks at it:   *)
(* with a pool or a rule that does something with the IP.                  *)
EXTENDS Sessions

CONSTANTS a, b, c, h1, h2, q1, q2

MCIps == {a, b, c}

W(mode, pool, ips, does, retry, besides) ==
  [mode |-> mode, pool |-> pool, ips |-> ips,
   zone |-> IF pool = 0 /\ does = {} THEN {a} ELSE {a, b},
   rule |-> [does |-> does, retry |-> retry], besides |-> besides]

MCWorlds ==
  { W("long", 0, <<>>, {}, "new", {"api"}),
    W("long", 0, <<>>, {"ban"}, "new", {}),
    W("long", 0, <<>>, {}, "port", {"own"}),
    W("long", 1, <<>>, {"reserve"}, "no", {"crash"}),
    W("long", 2, <<a>>, {"reserve"}, "new", {}),
    W("long", 2, <<a, b>>, {"renew"}, "same", {}),
    W("long", 1, <<a>>, {"ban", "reserve"}, "same", {}),
    W("explicit", 1, <<>>, {"reserve", "ban"}, "no", {}),
    W("sticky", 0, <<>>, {}, "new", {}),
    W("sticky", 0, <<>>, {}, "no", {"api"}),
    W("rotate", 2, <<a, b>>, {"ban"}, "new", {}),
    W("rotate", 2, <<a>>, {"reserve"}, "no", {"crash"}) }
=============================================================================
