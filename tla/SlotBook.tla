------------------------------ MODULE SlotBook ------------------------------
(***************************************************************************)
(* What the salon's calendar promises about technicians' time, with no     *)
(* handlers, locks or statuses: every visit that takes a technician's time *)
(* holds one span of it, and the spans the calendar vouches for never      *)
(* overlap.  A span forced on the calendar without asking is held too, but *)
(* is not vouched for; giving time back never needs asking.                *)
(***************************************************************************)
EXTENDS Integers

CONSTANTS Visits, Staff, Slots, Nothing

VARIABLES held,   \* visit -> the span it holds, or Nothing
          sure    \* the visits whose span the calendar vouches for

vars == <<held, sure>>

Span == [staff : Staff, start : Slots, end : Slots]

Meets(g, h) == g.staff = h.staff /\ g.start < h.end /\ h.start < g.end

Init == held = [v \in Visits |-> Nothing] /\ sure = {}

\* A span is vouched for only when no other vouched-for span meets it.
Take(v, g) ==
  /\ \A w \in sure \ {v} : ~Meets(held[w], g)
  /\ held' = [held EXCEPT ![v] = g]
  /\ sure' = sure \cup {v}

Impose(v, g) ==
  /\ held' = [held EXCEPT ![v] = g]
  /\ sure' = sure \ {v}

GiveBack(v) ==
  /\ held' = [held EXCEPT ![v] = Nothing]
  /\ sure' = sure \ {v}

Next == \E v \in Visits : GiveBack(v) \/ \E g \in Span : Take(v, g) \/ Impose(v, g)

Spec == Init /\ [][Next]_vars

\* No two vouched-for spans overlap: the promise the handlers are checked against.
SureNeverMeet == \A v, w \in sure : v # w => ~Meets(held[v], held[w])
=============================================================================
