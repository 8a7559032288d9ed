--------------------------- MODULE MCSubscriptions ---------------------------
(***************************************************************************)
(* Small instances of Subscriptions for TLC: free, basic and pro plans.    *)
(***************************************************************************)
EXTENDS Subscriptions, TLC

CONSTANTS cafe, diner, i1, i2, i3, q1, q2, q3, q4

FirstRows == cafe :> i1
FirstRowsOfBoth == cafe :> i1 @@ diner :> i3

\* By sort_order: free 10, basic 20, pro 30.  Basic starts with a trial.
ThreePlans == {10, 20, 30}
BasicTrial == {20}

\* The owner of the cafe subscribes, does something else, or both.
CafeSubscribes == [biz : {cafe}, what : {"subscribe"}, plan : ThreePlans]
CafeManages == [biz : {cafe}, what : {"cancel_end", "cancel_now", "resume"}, plan : {NoPlan}]
CafeAsks == q1 :> CafeSubscribes @@ q2 :> CafeSubscribes \cup CafeManages @@ q3 :> CafeManages

\* The owner of the cafe schedules the end of one plan and starts another; the
\* owner of the diner upgrades, and wants the smaller plan from the next period.
OneAsk(b, w, p) == {[biz |-> b, what |-> w, plan |-> p]}
TwoOwnersAsk == q1 :> OneAsk(cafe, "cancel_end", NoPlan) @@ q2 :> OneAsk(cafe, "subscribe", 20)
                @@ q3 :> OneAsk(diner, "subscribe", 30) @@ q4 :> OneAsk(diner, "subscribe", 20)
==============================================================================
