--------------------------- MODULE ObjectProperties ---------------------------
(* What is known of one object on the bus (src/dbus/DbusProperties): the      *)
(* properties of its last full read with the changes since, and the changes   *)
(* that overtake a read, held back until it ends. An object is a record with  *)
(* the fields fact (property -> value), held and reading, and whatever else   *)
(* the service that follows it keeps; a change is a function on some of the   *)
(* properties.                                                                *)
EXTENDS Naturals, Sequences

BeginRead(o) == [o EXCEPT !.reading = TRUE]

Merged(fact, change) ==
    [property \in DOMAIN fact |->
        IF property \in DOMAIN change THEN change[property] ELSE fact[property]]

\* The changes held back go on last, in the order in which they arrived.
AfterHeld(fact, held) ==
    LET after[n \in 0..Len(held)] ==
            IF n = 0 THEN fact ELSE Merged(after[n - 1], held[n])
    IN  after[Len(held)]

Replayed(o, fact) ==
    [o EXCEPT !.fact = AfterHeld(fact, o.held), !.held = <<>>, !.reading = FALSE]

AdoptAll(o, fact) == Replayed(o, fact)

AbortRead(o) == Replayed(o, o.fact)

ApplyChange(o, change) ==
    IF o.reading THEN [o EXCEPT !.held = Append(@, change)]
    ELSE [o EXCEPT !.fact = Merged(@, change)]
=============================================================================
