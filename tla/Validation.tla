----------------------------- MODULE Validation -----------------------------
(***************************************************************************)
(* validate_message (exchange/server/include/validation.hpp): what the     *)
(* inbound thread lets through to the engine.  The bytes of a frame are    *)
(* copied into an InboundMessage as they come, so each enumeration may     *)
(* have a value outside its enumerators, here "OTHER".  Of the price the   *)
(* code only asks that a limit price is not 0: MAX_PRICE is not enforced.  *)
(***************************************************************************)
EXTENDS Naturals

CONSTANT MaxQuantity    \* the largest quantity let through

ASSUME MaxQuantityAssumption == MaxQuantity \in Nat

\* Mutant: the price of a limit order is not looked at.
validate_termsNoPrice(m) ==
    /\ m.side \in {"BID", "ASK"}
    /\ m.otype \in {"MARKET", "LIMIT"}
    /\ m.quantity <= MaxQuantity

\* The tests that validate_new and validate_modify share.
validate_terms(m) ==
    /\ m.side \in {"BID", "ASK"}
    /\ m.otype \in {"MARKET", "LIMIT"}
    /\ m.otype = "LIMIT" => m.price # 0
    /\ m.quantity <= MaxQuantity

validate_message(m) ==
    \/ m.mtype \in {"NEW", "MODIFY"} /\ validate_terms(m)
    \/ m.mtype = "CANCEL"
=============================================================================
