--------------------------- MODULE MCNotifications ---------------------------
(***************************************************************************)
(* Small instances of Notifications for TLC: an event dispatched twice, a  *)
(* match found by two evaluations.                                         *)
(***************************************************************************)
EXTENDS Notifications, TLC

CONSTANTS l1, l2, e1, e2

EventAndMatch == l1 :> "event" @@ l2 :> "event" @@ e1 :> "match" @@ e2 :> "match"

\* The two keys share nothing: one of them at a time.  A listener sends outside
\* of transactions, so that the queue makes no difference to it.
OneKey == [queue : {"redis"}, cast : {{l1, l2}, {e1, e2}}]
          \cup [queue : {"database"}, cast : {{e1, e2}}]
==============================================================================
