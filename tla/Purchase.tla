------------------------------ MODULE Purchase ------------------------------
(***************************************************************************)
(* What a purchase promises, whatever happens between the services: the    *)
(* order seen by the customer, the seats, the money and the tickets, and   *)
(* which of them may change when.  Seats are sold only against money that  *)
(* was taken, tickets are made only for sold seats, an order is confirmed  *)
(* only with all three, and it fails only when the money is not kept, the  *)
(* seats are not sold and no ticket is valid.                              *)
(***************************************************************************)
VARIABLES
  order,     \* NONE, OPEN, CONFIRMED, CLOSING (being undone), FAILED
  seats,     \* FREE, HELD, SOLD
  money,     \* NONE, UNDECIDED, TAKEN, RETURNED
  tickets    \* NONE, VALID, CANCELLED

vars == <<order, seats, money, tickets>>

Init == order = "NONE" /\ seats = "FREE" /\ money = "NONE" /\ tickets = "NONE"

OpenOrder ==
  /\ order = "NONE" /\ order' = "OPEN"
  /\ UNCHANGED <<seats, money, tickets>>

HoldSeats ==
  /\ order = "OPEN" /\ seats = "FREE" /\ seats' = "HELD"
  /\ UNCHANGED <<order, money, tickets>>

FreeSeats ==
  /\ seats = "HELD" /\ seats' = "FREE"
  /\ UNCHANGED <<order, money, tickets>>

MoveMoney ==
  /\ order # "NONE"
  /\ \/ money = "NONE" /\ money' = "UNDECIDED" /\ order = "OPEN"
     \/ money = "UNDECIDED" /\ money' \in {"TAKEN", "NONE"}
     \/ money = "TAKEN" /\ money' = "RETURNED" /\ order # "CONFIRMED"
  /\ UNCHANGED <<order, seats, tickets>>

SellSeats ==
  /\ seats = "HELD" /\ money = "TAKEN" /\ seats' = "SOLD"
  /\ UNCHANGED <<order, money, tickets>>

IssueTickets ==
  /\ tickets = "NONE" /\ seats = "SOLD"
  /\ tickets' = "VALID"
  /\ UNCHANGED <<order, seats, money>>

CancelTickets ==
  /\ tickets = "VALID" /\ tickets' = "CANCELLED"
  /\ UNCHANGED <<order, seats, money>>

ConfirmOrder ==
  /\ order = "OPEN" /\ seats = "SOLD" /\ money = "TAKEN" /\ tickets = "VALID"
  /\ order' = "CONFIRMED"
  /\ UNCHANGED <<seats, money, tickets>>

CloseOrder ==
  /\ order = "OPEN" /\ order' = "CLOSING"
  /\ UNCHANGED <<seats, money, tickets>>

FailOrder ==
  /\ order \in {"OPEN", "CLOSING"}
  /\ money \in {"NONE", "RETURNED"} /\ seats # "SOLD" /\ tickets # "VALID"
  /\ order' = "FAILED"
  /\ UNCHANGED <<seats, money, tickets>>

Next ==
  \/ OpenOrder \/ HoldSeats \/ FreeSeats \/ MoveMoney \/ SellSeats \/ IssueTickets
  \/ CancelTickets \/ ConfirmOrder \/ CloseOrder \/ FailOrder

Spec == Init /\ [][Next]_vars
=============================================================================
