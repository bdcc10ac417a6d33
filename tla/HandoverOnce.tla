---------------------------- MODULE HandoverOnce ----------------------------
(* What the TCP handoff promises to the client of one session: at most one   *)
(* connection to the landing ever takes the session over; the client is      *)
(* served only over that connection; a client that was never served sees a   *)
(* reset, never an orderly end of its stream.                                *)
CONSTANT Attempts

VARIABLES
    claimed,    \* the connections whose handler took the session over
    client      \* what has become of the client's socket

handoverVars == <<claimed, client>>

HandoverInit == claimed = {} /\ client = "open"

Claim(a) == claimed = {} /\ claimed' = {a} /\ UNCHANGED client

Serve(a) == client = "open" /\ claimed = {a} /\ client' = "served" /\ UNCHANGED claimed

Finish == client = "served" /\ client' \in {"fin", "reset"} /\ UNCHANGED claimed

Refuse == client = "open" /\ client' = "reset" /\ UNCHANGED claimed

HandoverNext == (\E a \in Attempts : Claim(a) \/ Serve(a)) \/ Finish \/ Refuse

HandoverSpec == HandoverInit /\ [][HandoverNext]_handoverVars
=============================================================================
