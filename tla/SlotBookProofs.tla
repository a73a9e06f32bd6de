--------------------------- MODULE SlotBookProofs ---------------------------
(***************************************************************************)
(* The abstract calendar keeps its own promise, for any set of visits,     *)
(* technicians and slots.                                                  *)
(***************************************************************************)
EXTENDS SlotBook, TLAPS

\* Every visit holds one span or none, and only visits are vouched for.
Typed == held \in [Visits -> Span \cup {Nothing}] /\ sure \subseteq Visits

LEMMA MeetsBothWays ==
  ASSUME NEW g, NEW h PROVE Meets(g, h) <=> Meets(h, g)
BY DEF Meets

LEMMA TypedStep ==
  ASSUME Typed, [Next]_vars PROVE Typed'
<1>1. CASE UNCHANGED vars
  BY <1>1 DEF Typed, vars
<1>2. ASSUME NEW v \in Visits, NEW g \in Span, Take(v, g) PROVE Typed'
  BY <1>2 DEF Typed, Take
<1>3. ASSUME NEW v \in Visits, NEW g \in Span, Impose(v, g) PROVE Typed'
  BY <1>3 DEF Typed, Impose
<1>4. ASSUME NEW v \in Visits, GiveBack(v) PROVE Typed'
  BY <1>4 DEF Typed, GiveBack
<1> QED BY <1>1, <1>2, <1>3, <1>4 DEF Next

\* A step that takes a span is the only one that adds a vouched-for pair, and
\* Take looks at every span the new one could meet.
LEMMA SureStep ==
  ASSUME Typed, SureNeverMeet, [Next]_vars PROVE SureNeverMeet'
<1>1. CASE UNCHANGED vars
  BY <1>1 DEF SureNeverMeet, vars
<1>2. ASSUME NEW v \in Visits, NEW g \in Span, Take(v, g) PROVE SureNeverMeet'
  <2> SUFFICES ASSUME NEW x \in sure', NEW y \in sure', x # y
               PROVE  ~Meets(held'[x], held'[y])
    BY DEF SureNeverMeet
  <2>1. /\ held'[v] = g
        /\ \A w \in sure \ {v} : held'[w] = held[w] /\ ~Meets(held[w], g)
    BY <1>2 DEF Take, Typed
  <2>2. sure' = sure \cup {v}
    BY <1>2 DEF Take
  <2>3. CASE x # v /\ y # v
    BY <2>1, <2>2, <2>3 DEF SureNeverMeet
  <2>4. CASE x = v
    BY <2>1, <2>2, <2>4, MeetsBothWays
  <2>5. CASE y = v
    BY <2>1, <2>2, <2>5
  <2> QED BY <2>3, <2>4, <2>5
<1>3. ASSUME NEW v \in Visits, sure' = sure \ {v}, \A w \in sure \ {v} : held'[w] = held[w]
      PROVE  SureNeverMeet'
  BY <1>3 DEF SureNeverMeet
<1>4. ASSUME NEW v \in Visits, GiveBack(v) \/ \E g \in Span : Impose(v, g)
      PROVE  SureNeverMeet'
  <2>1. sure' = sure \ {v} /\ \A w \in sure \ {v} : held'[w] = held[w]
    BY <1>4 DEF GiveBack, Impose, Typed
  <2> QED BY <1>3, <2>1
<1> QED BY <1>1, <1>2, <1>4 DEF Next

\* The calendar never vouches for two spans that overlap: what assertNoOverlap
\* under the technician's lock promises the rest of the salon.
THEOREM CalendarSound == Spec => []SureNeverMeet
<1>1. Init => Typed /\ SureNeverMeet
  BY DEF Init, Typed, SureNeverMeet
<1>2. Typed /\ SureNeverMeet /\ [Next]_vars => (Typed /\ SureNeverMeet)'
  BY TypedStep, SureStep
<1> QED BY <1>1, <1>2, PTL DEF Spec
=============================================================================
