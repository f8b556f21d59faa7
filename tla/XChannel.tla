------------------------------- MODULE XChannel -------------------------------
(***************************************************************************)
(* What the event loop is entitled to expect of its X connection: one      *)
(* queue, first in first out.  What the server sends is taken in the order *)
(* it was sent, nothing is skipped, and "no event" is reported only when   *)
(* there is nothing to take or the connection is lost.                     *)
(***************************************************************************)
EXTENDS Sequences

CONSTANT XKinds    (* what can be sent *)

VARIABLES
  chan,    (* sent and not yet taken                      *)
  last,    (* what the last request for an event returned *)
  lost     (* the connection is known to be gone          *)

vars == <<chan, last, lost>>

Init == chan = <<>> /\ last = "empty" /\ lost = FALSE

Send(k) ==
  /\ ~lost
  /\ chan' = Append(chan, k)
  /\ UNCHANGED <<last, lost>>

Take ==
  /\ ~lost /\ chan # <<>>
  /\ last' = Head(chan)
  /\ chan' = Tail(chan)
  /\ UNCHANGED lost

NoEvent ==
  /\ last' = "empty"
  /\ lost' \in {lost, TRUE}
  /\ chan = <<>> \/ lost'
  /\ UNCHANGED chan

Lose == lost' = TRUE /\ UNCHANGED <<chan, last>>

Next == (\E k \in XKinds : Send(k)) \/ Take \/ NoEvent \/ Lose

Spec == Init /\ [][Next]_vars
=============================================================================
