------------------------------ MODULE MCParts ------------------------------
(***************************************************************************)
(* Small instances for TLC of the components that share no rows.  A run    *)
(* explores them one at a time: the part chosen at first goes on, the      *)
(* others stay as they began, so that their states add up.                 *)
(***************************************************************************)
EXTENDS Deposits, CardSales, PostQueue, TurnBoard, TLC

CONSTANTS r1, sweeper, k1, x1, x2, fb, ig, t1, t2, p1, a1, a2, s1, s2, h1, h2,
          timer, nobody, d1, d2, keeper, Parts

\* The sweep alone; with people who cancel; with every path the news of a payment
\* takes; with restarts, lost answers, deleted rows and rows too old to be swept.
AllWorlds ==
  {{"checkout"},
   {"checkout", "cancel"},
   {"checkout", "cancel", "return", "webhook", "crash", "lost"},
   {"checkout", "cancel", "return", "webhook", "remove", "forget"}}

\* Refunds and voids of a charge; the network and the queue; the list of charges, a
\* server that restarts, and voids on the bill itself.
AllCardWorlds ==
  {{"giveBack", "list"},
   {"giveBack", "lost"},
   {"offline", "lost"},
   {"offline", "lost", "refuse", "crash"},
   {"list", "lost", "tillVoid"},
   {"giveBack", "list", "tillVoid"}}

\* Nothing fails; the terminal is slow, that is all.
SlowTerminal == {{}}

\* One sweep, networks that fail, people who cancel, move or delete, restarts; two sweeps;
\* the Page lost; people who edit, move and post by hand.
AllPostWorlds ==
  {{"error", "cancel", "reschedule"},
   {"error", "unsure", "cancel", "delete", "restart"},
   {"two", "cancel", "delete"},
   {"error", "unsure", "page"},
   {"error", "now", "save", "cancel", "reschedule"}}

\* Two sweeps, and a network that fails.
DoubleSweep == {{"two", "error"}}

\* Where something must come to an end: what can delay it.
SlowDeposits == {{"checkout", "cancel", "return", "webhook", "crash", "lost"}}
SlowCards    == {{"offline", "lost", "refuse", "crash"}, {"offline", "lost"}}
SlowPosts    == {{"error", "unsure", "page"}, {"two", "cancel"}}

\* One technician is ticked for hands and feet, the other for hands, nobody for the rest.
Ticks  == s1 :> {"HAND", "FOOT"} @@ s2 :> {"HAND"}
Wishes == {<<"HAND", "FOOT">>, <<"OTHER">>}

\* Two visits; with bookings checked in; with breaks; a visit handed about, changed, passed
\* on, pressed on a board that is not up to date; undone, back from the till, restarts.
AllFloorWorlds ==
  {{"others", "pay"},
   {"others", "ask"},
   {"others", "checkIn", "link"},
   {"others", "station", "cancel"},
   {"others", "break"},
   {"others", "late", "queue", "remove"},
   {"assign", "edit", "late"},
   {"skip", "checkIn", "follow"},
   {"skip", "ask"},
   {"checkIn", "follow", "station", "pay", "late", "reactivate", "restart"}}

\* Where every visit comes to an end.
SlowFloor == {{"others", "pay"}, {"others", "ask"}}
OneWish   == {<<"HAND", "FOOT">>}

VARIABLES now, present, visit, rejections, handler, unchecked

\* Technicians who answer late or never, everyone asked to accept: two bookings for the
\* same slot; one that may be cancelled meanwhile.
Silence ==
  INSTANCE BookingSlots WITH
    Appointments <- {a1, a2}, Staff <- {s1, s2}, Requests <- {h1, timer}, Timer <- timer,
    None <- nobody, Horizon <- 1, Gap <- 0, Off <- {}, MustAccept <- TRUE,
    Ops <- {"create", "sweep", "silence", "accept"}, appt <- visit, req <- handler

Called ==
  INSTANCE BookingSlots WITH
    Appointments <- {a1}, Staff <- {s1, s2}, Requests <- {h1, timer}, Timer <- timer,
    None <- nobody, Horizon <- 1, Gap <- 0, Off <- {}, MustAccept <- TRUE,
    Ops <- {"create", "sweep", "silence", "accept", "cancel"}, appt <- visit, req <- handler

\* The public page, the bots and the engine, around time off and rest gaps.
Public ==
  INSTANCE BookingSlots WITH
    Appointments <- {a1, a2}, Staff <- {s1, s2}, Requests <- {h1, h2, timer},
    Timer <- timer, None <- nobody, Horizon <- 3, Gap <- 1, Off <- {<<s1, 2>>},
    MustAccept <- FALSE, Ops <- {"publicCreate", "selfMove", "selfTech", "autoAssign", "assign"},
    appt <- visit, req <- handler

bookVars == <<now, present, visit, rejections, handler, unchecked>>

VARIABLE part

allVars == <<vars, cardVars, postVars, floorVars, bookVars, part>>

\* How the parts that are not explored stay: nobody waits for them to go on.
CalmDeposits == world = (CHOOSE w \in Worlds : TRUE) /\ ~appt.hold
CalmCards    == allowed = CHOOSE w \in CardWorlds : TRUE
CalmPosts    == may = CHOOSE w \in PostWorlds : "two" \in w
CalmFloor    == floorMay = CHOOSE w \in FloorWorlds : TRUE

PartsInit ==
  /\ Init /\ CardInit /\ PostInit /\ FloorInit
  /\ part \in Parts
  /\ IF part = "public" THEN Public!Init ELSE Silence!Init
  /\ part = "deposits" \/ CalmDeposits
  /\ part = "cards" \/ CalmCards
  /\ part = "posts" \/ CalmPosts
  /\ part = "floor" \/ CalmFloor

PartsNext ==
  /\ UNCHANGED part
  /\ \/ part = "deposits" /\ Next /\ UNCHANGED <<cardVars, postVars, floorVars, bookVars>>
     \/ part = "cards" /\ CardNext /\ UNCHANGED <<vars, postVars, floorVars, bookVars>>
     \/ part = "posts" /\ PostNext /\ UNCHANGED <<vars, cardVars, floorVars, bookVars>>
     \/ part = "floor" /\ FloorNext /\ UNCHANGED <<vars, cardVars, postVars, bookVars>>
     \/ /\ UNCHANGED <<vars, cardVars, postVars, floorVars>>
        /\ \/ part = "public" /\ Public!Next
           \/ part = "silence" /\ Silence!Next
           \/ part = "called off" /\ Called!Next

PartsSpec == PartsInit /\ [][PartsNext]_allVars

\* Each part's own fairness, while it is the one explored.
PartsFairness ==
  /\ \A r \in Callers : WF_vars(part = "deposits" /\ Step(r))
  /\ WF_vars(part = "deposits" /\ Round) /\ SF_vars(part = "deposits" /\ SweepAsks)
  /\ \A x \in Syncs : /\ WF_cardVars(part = "cards" /\ SyncStart(x))
                      /\ WF_cardVars(part = "cards" /\ SyncPosts(x))
  /\ WF_postVars(part = "posts" /\ Sweep(Minute))
  /\ \A w \in Timers \cup People : WF_postVars(part = "posts" /\ WorkerStep(w))
  /\ WF_postVars(part = "posts" /\ GrowLate)
  /\ \A h \in {h1, timer} : /\ WF_bookVars(part = "silence" /\ Silence!Continue(h))
                             /\ WF_bookVars(part = "called off" /\ Called!Continue(h))
  /\ WF_bookVars(part = "silence" /\ Silence!BeginSweep(timer))
  /\ WF_bookVars(part = "called off" /\ Called!BeginSweep(timer))
  /\ \A d \in Desks : WF_floorVars(part = "floor" /\ DeskStep(d))
  /\ \A i \in Tickets : WF_floorVars(part = "floor" /\ SeeStale(i))
  /\ WF_floorVars(part = "floor" /\ ParkStale)

PartsFairSpec == PartsSpec /\ PartsFairness

\* BookingSlots: around time off and rest gaps too, a clash or a visit on time off has an
\* unchecked write behind it.
PublicSafe ==
  part = "public" => Public!ClashNeedsUncheckedWrite /\ Public!TimeOffNeedsUncheckedWrite

\* The public page's identifiers: the other parts, where they go on, tell no two of them
\* apart, or use neither.
Symmetric == Permutations({a1, a2}) \cup Permutations({h1, h2})

\* BookingSlots: once a booking is only waited for, its technicians' silence comes to an end.
SilenceEnds == Silence!SilenceEnds
=============================================================================
