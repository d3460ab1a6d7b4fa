----------------------------- MODULE UnitOfWork -----------------------------
(***************************************************************************)
(* What a SQLAlchemy session writes when it flushes an object: a column is *)
(* part of the UPDATE only when its value differs from the one the session *)
(* loaded. The Customer and the Event Service read an entity in one        *)
(* transaction and save it in another one, which loads the row again.      *)
(***************************************************************************)

Flushed(row, loaded, entity) ==
    [column \in DOMAIN row |->
        IF entity[column] # loaded[column] THEN entity[column] ELSE row[column]]
=============================================================================
