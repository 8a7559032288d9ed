------------------------------ MODULE MCPayments ------------------------------
(***************************************************************************)
(* Small instances of Payments for TLC.                                    *)
(***************************************************************************)
EXTENDS Payments, TLC

CONSTANTS c1, c2, e1, e2, e3, e4, e5

Msg(e, p, s) == [event |-> e, payment |-> p, result |-> s]

\* The provider settles both payments, reports a failure of the first under
\* way, and pays the first one back.
TwoPayments == {Msg(e1, c1, "paid"), Msg(e2, c1, "failed"), Msg(e3, c2, "paid"),
                Msg(e4, c1, "processing"), Msg(e5, c1, "refunded")}

==============================================================================
