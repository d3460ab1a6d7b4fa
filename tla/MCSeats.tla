------------------------------- MODULE MCSeats -------------------------------
(* Seat Inventory Service for TLC, in two parts of which a behaviour explores *)
(* one: "selling", two bookings under two keys; "administering", one key and  *)
(* an administrator who changes the seats meanwhile.                          *)
EXTENDS SeatInventory, TLC

CONSTANTS k1, stalls

VARIABLE part   \* the part that moves

Selling == INSTANCE SeatInventory WITH Layouts <- {stalls}, InventoryVersions <- {1}

PartsInit ==
  /\ part \in {"selling", "administering"}
  /\ Init

PartsNext ==
  /\ UNCHANGED part
  /\ \/ part = "selling" /\ Selling!Next
     \/ /\ part = "administering"
        /\ Tick \/ ExpireReservations \/ Command(k1)

Parts == PartsInit /\ [][PartsNext]_<<part, vars>>

\* Bookings, reservations, seats and keys are each interchangeable.
Symmetry == Permutations(BookingIds) \cup Permutations(ReservationIds)
            \cup Permutations(SeatIds) \cup Permutations(Keys)

=============================================================================
