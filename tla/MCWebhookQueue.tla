--------------------------- MODULE MCWebhookQueue ---------------------------
(* Small instances of WebhookQueue for TLC. *)
EXTENDS WebhookQueue

CONSTANTS e1, e2

\* Two deliveries to one endpoint that settles them undisturbed, in passes of
\* one row; one to either of two endpoints of which one is shaky; and two to
\* them, tried once each, with no operator about, in passes that the shaky
\* endpoint's rows can fill and in passes they cannot.
MCScenes == {[endpoints |-> {e1}, shaky |-> {}, deliveries |-> {1, 2},
              attempts |-> 3, limit |-> 1, managed |-> {e1}],
             [endpoints |-> {e1, e2}, shaky |-> {e2}, deliveries |-> {1},
              attempts |-> 2, limit |-> 1, managed |-> {e1, e2}]}
            \cup
            [endpoints : {{e1, e2}}, shaky : {{e2}}, deliveries : {{1, 2}},
             attempts : {1}, limit : {1, 2}, managed : {{}}]
=============================================================================
