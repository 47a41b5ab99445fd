------------------------------ MODULE MCEngine ------------------------------
(* TLC instance of Engine.                                                 *)
EXTENDS Engine

CONSTANT c1, c2

Msg(t, i, c, s, o, p, q) ==
    [mtype |-> t, id |-> i, client |-> c, side |-> s, otype |-> o, price |-> p,
     quantity |-> q]

\* A bid that an ask can fill in part, a market order that finds too much or too
\* little, an ask and a market order of quantity 0, the cancel and the modify of the
\* first order, and a modify past the ladder.  The last four are not valid.
MCInputs ==
    {Msg("NEW", 0, c1, "BID", "LIMIT", 1, 2),
     Msg("NEW", 0, c2, "ASK", "LIMIT", 1, 1),
     Msg("NEW", 0, c2, "ASK", "LIMIT", 1, 0),
     Msg("NEW", 0, c2, "ASK", "MARKET", 0, 2),
     Msg("NEW", 0, c2, "ASK", "MARKET", 0, 0),
     Msg("CANCEL", 0, c1, "BID", "LIMIT", 0, 0),
     Msg("MODIFY", 0, c1, "BID", "LIMIT", 2, 1),
     Msg("MODIFY", 0, c1, "BID", "LIMIT", 3, 1),
     Msg("NEW", 0, c2, "ASK", "LIMIT", 0, 1),
     Msg("MODIFY", 0, c1, "BID", "LIMIT", 1, 3),
     Msg("NEW", 0, c1, "OTHER", "LIMIT", 1, 1),
     Msg("OTHER", 0, c1, "BID", "LIMIT", 1, 1)}
=============================================================================
