--------------------------- MODULE MCRateLimiter ----------------------------
(***************************************************************************)
(* RateLimiter for TLC: the clocks of the clients.                         *)
(***************************************************************************)
EXTENDS RateLimiter

\* One client's clock is a second ahead.
OneAhead == [c \in Clients |-> IF c = CHOOSE d \in Clients : TRUE THEN 1 ELSE 0]

=============================================================================
