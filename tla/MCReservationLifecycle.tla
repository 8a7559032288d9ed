----------------------- MODULE MCReservationLifecycle -----------------------
(***************************************************************************)
(* Small instances of ReservationLifecycle for TLC.                        *)
(***************************************************************************)
EXTENDS ReservationLifecycle, TLC

CONSTANTS r1, r2

\* Two slots one after the other.  The hold of the first has just run out when a
\* behaviour starts, the other's does later: in a batch the first row comes
\* first, and what happens to it decides what becomes of the second.
Starts == r1 :> 1 @@ r2 :> 2
Ends   == r1 :> 2 @@ r2 :> 3
Holds  == r1 :> 0 @@ r2 :> 1

=============================================================================
