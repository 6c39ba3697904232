------------------------------ MODULE ByteFeed ------------------------------
(***************************************************************************)
(* What a reader of a byte stream owes whoever uses it, whatever it reads: *)
(* the records of the bytes in order, each once, decided by the bytes      *)
(* alone and not by the pieces they arrive in; everything in front of an   *)
(* error before the error; the end only after the last record.             *)
(* EventStream and FrameReader implement it.                               *)
(***************************************************************************)
EXTENDS Naturals, Sequences

CONSTANTS
    Byte,
    Decode(_, _),   \* what the bytes begin with, for the first record and later ones
    AtEnd(_, _),    \* the outcome of a stream that ends within these bytes
    Cut             \* outcomes that are not decided by the bytes

\* The results of Decode: more bytes are needed; a record of so many bytes, with
\* what it yields; an error.
Partial == [kind |-> "partial"]
Record(length, yields) == [kind |-> "record", length |-> length, yields |-> yields]
Bad(reason) == [kind |-> "bad", reason |-> reason]

VARIABLES
    pending,    \* bytes received and not yet part of a record
    yielded,    \* what the records have yielded
    outcome     \* "open", then how the stream ended

vars == <<pending, yielded, outcome>>

Init == pending = <<>> /\ yielded = <<>> /\ outcome = "open"

First == Decode(yielded = <<>>, pending)

Arrives ==
    /\ outcome = "open"
    /\ \E b \in Byte : pending' = Append(pending, b)
    /\ UNCHANGED <<yielded, outcome>>

Yields ==
    /\ outcome = "open"
    /\ First.kind = "record"
    /\ pending' = SubSeq(pending, First.length + 1, Len(pending))
    /\ yielded' = yielded \o First.yields
    /\ UNCHANGED outcome

\* The stream ends; what was not yielded is gone.
Over(end) == pending' = <<>> /\ outcome' = end /\ UNCHANGED yielded

Refuses ==
    /\ outcome = "open"
    /\ First.kind = "bad"
    /\ Over(First.reason)

Ends ==
    /\ outcome = "open"
    /\ First.kind = "partial"
    /\ Over(AtEnd(yielded = <<>>, pending))

\* A read error, a deadline, or a user who has left.
IsCut == outcome = "open" /\ \E end \in Cut : Over(end)

Next == Arrives \/ Yields \/ Refuses \/ Ends \/ IsCut

Spec == Init /\ [][Next]_vars
=============================================================================
