# Lumio Booking: a TLA+ development

Lumio Booking runs a salon: an appointment book, a till, gift cards, a turn board,
payment terminals, deposits paid online, posts for the salon's networks, bots that
book by chat and phone. It is a NestJS service over one PostgreSQL database
(`apps/api`) with a Next.js front end (`apps/web`); many requests are in flight at
once, in several processes, beside a few timers, and no table has a row version.
Almost every handler has the same shape:

    read some rows  ->  decide  ->  transaction { lock?  look again?  write by id }

so what can go wrong is what happens between the read and the write. This
directory models that, for the parts where the salon's time, its money and its
public voice are kept, checks it with TLC and proves the main results with TLAPS.

Paths below are relative to `apps/api/src` unless they start with `apps/`.

## 1. Inventory

| Component | State it keeps | Operations | Hard part | Correct when |
|---|---|---|---|---|
| **Appointment book** `bookings/` | appointment rows: times, technician, status, response deadline; rejection log | create (desk, public), assign, move, reschedule, self-service moves, editLines, addServices, accept / reject, status buttons, cancel, delete | reads outside the transaction, advisory lock per technician, writes by id | no technician booked twice, nobody booked on time off, a confirmed visit stays confirmed |
| **Assignment engine** `assignment/`, `reassign` in `bookings/` | none of its own | rank eligible technicians, hand the booking over | runs between two transactions; rejections arrive meanwhile | never asks someone who refused; the chain of technicians ends |
| **Housekeeping** `bookings/housekeeping.service.ts` | a timer | every 5 minutes: expire silent technicians, close missed visits, park and close floor tickets | races the late Accept; stops on the first failure | silence ends, no booking is stripped |
| **Time off** `staff/time-off.ts` | approved blocks | request, approve, salon block | approved over existing bookings | not bookable by anyone |
| **Gift cards** `gift-cards/` | card rows (balance, status), ledger rows | issue, redeem in a checkout, void, adjust | balance written from an old read, relative writes from others | ledger = balance, never overdrawn, a used-up card is empty |
| **Till** `pos/pos.service.ts` | orders, payment mirror, refund rows, stock | checkout, void, refund, delete, test reset | three ways to take a bill back, each deciding on an old status | a bill gives back what it took, once |
| **Card till** `apps/web` payment screen, `payments-hub/` | charge intents, refunds, the device's offline queue | press Pay, charge, poll, recheck, refund, void, sync | slow terminal, lost answers, a restart in the middle of a charge | charged once, recorded once, books = terminal |
| **Payment hub, the rest** `payments-hub/` | agents, devices, jobs | bridge terminals, pairing, credentials | two agents claim one job | a job runs once |
| **Deposits** `payments/`, `public/online-deposit.service.ts` | payment rows of bookings, holds, online intents | start, return, webhook, sweep, settle a cancellation, refund by row | webhook against return page against sweep, no transaction around any of them | money taken is on the booking, refunded once, a lapsed hold keeps none |
| **Trash** `maintenance/` | snapshots | restore booking, customer, bill | the world moved on since the deletion | a restored thing is as if it had not been deleted |
| **Turn board** `walkins/` | tickets, parts ("legs") of a visit, breaks | check-in, assign, pass, done, undo, add and remove services, pay, park, dispatch | one in-memory lock around some of the handlers; the board shows old rows | nobody serves two customers, a part passed on stays passed on, nobody waits beside a free technician |
| **Scheduled posts** `content/social-publish*` | post rows: status, attempts, results by network | save, move, cancel, delete, post now, sweep | two sweeps; a network that took the post and did not answer | up once on each network, and the row knows |
| **Waitlist** `waitlist/` | entries | join, offer, convert | offer races a booking | offered once |
| **Loyalty, referral** | points ledger | earn, redeem, reverse, reward | reward twice | points = ledger |
| **Cash shifts** `pos/cash-shifts.service.ts` | shifts, movements | open, close, move cash | two tills open at once | one open shift, the count matches |
| **Payroll** `payroll/` | runs, clock entries | clock, draft, finalise | a final run freezes bills | frozen bills do not change |
| **Restaurant, tables** | tables, checks | seat, split, pay, merge | two bookings take one table | one party per table |
| **Messenger, hotline, AI** | conversations, drafts | answer, book, move, cancel | slow external model | writes through the book's own handlers |
| **Everything else** | ideas, reviews, campaigns, notifications, reports, auth, tenants, billing, printing, imports, other clients | | | not modelled, see section 8 |

How they meet: bots, public pages, the hotline and the reminder links all end in
the same handlers of `BookingsService`. The till reads a booking, completes it
(and puts it back to ARRIVED when the bill is taken off the books) and closes the
floor ticket; the ticket of a checked-in visit writes its technician back into the
booking (`bookingFollowsFloor`), and a booking that changes hands takes its ticket
along (`followBooking`). A deposit creates the booking as a hold, confirms it when paid, cancels
it when not, and a cancellation asks the deposit for the money. The till calls
`GiftCardsService.redeemInTx` inside its own transaction. The trash writes
rows of the others directly. All share the tables; there are no messages between
components except webhooks and the agents' polling.

The hazards, each at its line, are listed in `PROJECT.json`; those without a
property say why none covers them.

## 2. Modules

    SlotBook            what the calendar promises (abstract)
      ^  refined by
    BookingSlots        the appointment book, its engine and its sweep
      ^ MCBookingSlots  small salons for TLC

    Purse               what gift cards promise about money (abstract)
      ^ refined by
    GiftCards           cards, bills that spend them, their reversals, the trash
      ^ MCGiftCards

    Deposits            money paid online for a booking: hold, settle, refund
    CardSales           one ticket of the card till: charge, sale, offline queue, refunds
    PostQueue           one scheduled post, its sweeps, its networks, its people
    TurnBoard           the floor: tickets, their parts, the dispatcher under its lock
      ^ MCParts         small instances of these four, and of BookingSlots

    SlotBookProofs, BookingSlotsProofs and GiftCardsProofs (their refinements too),
    DepositsProofs, CardSalesProofs, PostQueueProofs, TurnBoardProofs
    Sums                sums over finite sets, for the proofs of deposits, card sales and the floor

Definitions named in a `Mutant:` comment are single-bug variants of the
operator below them. No specification uses them: they are there so that each
property can be shown to depend on the code it is about.

In the four newer modules a behaviour starts with a *world*: the set of operations and
faults that may happen in it (`Worlds`, `CardWorlds`, `PostWorlds`, `FloorWorlds`).
A fault uses itself up where the comment says so ("once"). What a property makes an exception for, it
names as words of the world.

### BookingSlots

| State | Code |
|---|---|
| `appt[b]` | the columns `status`, `assignedStaffId`, `startTime`, `endTime`, `responseDeadline` of `Appointment` |
| `present[b]` | row not created yet, in the table, or in the trash |
| `rejections[b]` | `bookingRejection` rows |
| `req[r]` | the local variables of a handler in flight: what it read, what it checked |
| `now` | the clock, in slots of one business day |
| `unchecked[b]` | history only: which checks ("slot", "off") nobody made for the row's present placement |

One handler is up to four steps: `Begin...` (reads and early returns), `Rank` (the
engine's choice), `Check` (advisory lock, overlap query, time-off query), `Commit...`
(the write). A technician's lock is taken by `Check` and held until the commit:
`SlotLocked`. All other requests run in between. Which handler each action is:

| Action | Handler |
|---|---|
| `BeginCreate`, `CommitCreate`, `Confirm`, `Seat` | `create`, `createForTenant`, `confirmDeskBooking`, `arrivedNow` |
| `BeginAssign`, `BeginMove`, `BeginAutoAssign`, `BeginReject`, `CommitHand` | `assign`, `selfChangeTech`, `move`, `autoAssign`, `reject`, `assignStaff` |
| `BeginReschedule`, `CommitTimes` | `reschedule`, `selfReschedule` |
| `BeginStretch`, `BeginAddServices`, `CommitEnd` | `editLines`, `addServicesToAppointment` |
| `BeginMark`, `Mark` | `accept`, `confirmByToken`, `arrive`, `noShow`, `complete`: the read, then `transition`'s write |
| `BeginSweep`, `SweepNext`, `SweepDone`, `SweepClear`, `Rank`, `GiveUp` | `expireAssigned`, `reassign` |
| `SetStatus`, `Cancel`, `ConfirmBySalon`, `CloseMissed`, `FollowFloor`, `Remove`, `Restore` | `setStatus`, `cancelForTenant`, `confirmBySalon`, `closeMissed`, `bookingFollowsFloor`, `remove`, the trash's `restore` |
| `Tick`, `DeadlinePasses`, `Crash` | time passing; thirty silent minutes; a restart or a rolled back transaction |

What is abstracted: slots instead of minutes; the engine's score (any eligible
technician may come first); the engine's several reads are one step (its
transaction asks the calendar again); `BeginReject` joins its read with its insert,
`FollowFloor` its read with its write; opening hours, skills and shifts, the no-show
policy, self-move limits, tables, extra service lines, prices, notifications.

### GiftCards

| State | Code |
|---|---|
| `card[c]` | `GiftCard.status`, `balanceCents` |
| `posted[c]` | the sum of the card's `GiftCardTransaction` rows |
| `order[o]` | a bill's `status`; the card it spent and how much (`redeemed`: its REDEEM row); `returned`: its ADJUST rows; `in`, `back`: its PAID payment rows above and below zero; `refunded`: its `OrderRefund` rows; `taken`: what it collected besides the card |
| `bin[o]` | `trashItem` snapshots of the bill |
| `req[r]` | a handler in flight, as above |
| `stale` | history only: cards that void or adjust wrote from a balance that had moved on |

| Action | Handler |
|---|---|
| `Issue` | `issue` |
| `CashSale`; `BeginSale`, `SaleReads`, `Redeem` | `createOrder` without and with a card: `redeemableBalance`, then `redeemInTx`'s read, then its conditional decrement and the rest of the sale |
| `BeginVoid`, `CommitVoid` | `voidOrder` |
| `BeginRefund`, `CommitRefund` | `refundOrder`, part or whole |
| `BeginRemove`, `CommitRemove` | `removeOrder` |
| `Recredit`, `OffTheBooksAs` | `recreditGiftCards`; the order and payment updates that void and full refund share |
| `Restore` | the trash's `restore` of a bill |
| `BeginVoidCard`, `CommitVoidCard`, `BeginAdjust`, `CommitAdjust` | `void`, `adjust` |
| `Abandon` | a restart or a rolled back transaction |

What is abstracted: amounts are small integers; a transaction's statements after
its reads are one step, because they are single-row updates and inserts that commute with everyone
else's or lock the row until the commit; identical snapshots of one bill in the
trash are one. Left out: bills still open, expiry dates, stock, points, tips, shifts, the payroll lock, manager PINs,
the void window, deposits, card surcharges and change, the bookings a bill closes.

`Purse` has no handlers: a card is sold, a bill takes money that is on one card, the whole of it goes
back to that card, the card's page replaces a balance. `Money` in `GiftCards` maps the rows to it.

### Deposits

| State | Code |
|---|---|
| `appt` | the booking's `status`, whether it is a hold, who cancelled it |
| `pay[i]` | `Payment` rows of the booking: status, amount, `HOLD_REF`, the transaction |
| `intent` | the `paymentIntentRecord` `online:<booking>` |
| `session[s]`, `returned[s]` | the provider's checkouts and what it gave back (external) |
| `processed` | webhook events with a `processedAt` |
| `age` | how old the open row is: within the hold, lapsed, older than the sweep's list |
| `req[r]` | a handler in flight, the timer's round one of them |

| Action | Handler |
|---|---|
| `StartCheckout`, `Pay` | `onlineStart`; the customer on the provider's page |
| `BeginReturn`, `BeginWebhook`, `Finish` | `confirmOnlineCheckout`, `handleWebhook` |
| `Already`, `Lookup`, `LookupFails`, `OpenRow`, `Record` | `settle`, one step for each call it awaits |
| `ReadPaid`, `AskProvider`, `MarkRefunded`, `SplitRow` | `refundPaid` with `allocateRefund`, `onlineRefund` |
| `BeginCancel`, `Cancel`, `CancelMoney` | `cancelByToken`, `cancelForTenant`, `settleCancelledMoney` |
| `BeginSweep`, `TakeRow`, `SweepAsks`, `SweepSkips`, `SweepEnds`, `ReleaseHold`, `GrowOld` | the two-minute `sweep` |
| `Arrive`, `BeginRemove`, `Remove`, `Crash` | `transition` on a hold, `PaymentsService.remove`, a restart |

Left out: what the deposit rule and the surcharge amount to (two constants), parties,
vouchers, the checkout that consumes the deposit.

### CardSales

| State | Code |
|---|---|
| `till` | `doPay` on the payment screen: where it stands, its `clientRef`, the dialog's recheck |
| `charge[r]`, `record[r]` | the server's `POST /payments-hub/charge`; its `paymentIntentRecord` |
| `terminal[r]` | the provider's transaction and its refunds (external) |
| `refunded[r]` | the `paymentRefund` rows that succeeded |
| `order[r]`, `ledger[r]` | the order with that `clientRef`; its payment rows: the sale, what came back on it, what came back tied to no order |
| `queue`, `sync[x]`, `late` | the device's offline queue, `syncQueue`, orders posted whose caller gave up |
| `lister`, `clerk[k]` | `listIntents`; an admin's refund or void |

| Action | Handler |
|---|---|
| `PressPay`, `PressOffline`, `HearCharge`, `PollAsk`, `PollHear`, `GiveUp`, `LoseCall`, `CloseStuck`, `TillPosts` | `doPay` and its dialogs |
| `MakeRecord`, `AskTerminal`, `Tap`, `AnswerCharge`, `CrashCharge` | `charge`, the customer, a restart |
| `ListAsk`, `ListHear` | `listIntents` with `reconcileIntent` |
| `SyncStart`, `SyncPosts`, `LateOrder` | `syncPending`, `syncQueue`, `createOrder`'s idempotency |
| `BeginRefund`, `BeginVoid`, `AskReturn`, `AskVoid`, `TallyRefund`, `CloseRecord`, `SettleRefund`, `MarkRefund`, `TillVoid` | `refund`, `voidPayment`, `settleRefund`, `refundToLedger`, `voidOrder` |

Left out: readers behind a bridge (the device's agent), tips and surcharges, split
payments, the providers other than Dejavoo.

### PostQueue

| State | Code |
|---|---|
| `post` | `ScheduledPost`: `status`, `attempts`, the networks in `results` |
| `live[c]` | how often the post is up on network `c` (external) |
| `page`, `overdue` | the Facebook Page is connected; later than `LATE_GRACE_MS` |
| `worker[w]` | a sweep or a request: the copy of the row it read, what is left to send |

| Action | Handler |
|---|---|
| `Sweep`, `Expire`, `PlanPost`, `FailPlan`, `Claim`, `Send`, `FinishPost` | `runDue`, `deliver`, `fail` |
| `PressPostNow`, `Rearm`, `BeginSave`, `SavePost`, `Reschedule`, `CancelPost`, `BeginDelete`, `DeletePost` | `publishNow`, `save`, `setStage`, `reschedule`, `cancel`, `remove` |
| `Reconnect`, `GrowLate`, `RestartPosts` | the Page connected or lost; time; a restart |

Left out: what a post says, media, ideas, reviews, comments, take-down, reports.

### TurnBoard

| State | Code |
|---|---|
| `ticket[i]` | a `walk_in` row: status, `awaitingPayment`, an order, the appointment, its place in the queue, and its legs (the lines with one `legId`): status, zone, technician, pinned, `skippedBy` |
| `away` | technicians on a break |
| `desk[w]` | a request: `change`, `pass`, `restore`, `seat` hold the salon's lock (`serial`); `todo` and `legs` are the tickets it is going to write and what into each |
| `byHand`, `passed` | history only: parts a person put a technician on; parts a technician passed on |

| Action | Handler |
|---|---|
| `Dispatch`, `PutTicket` | `dispatchLocked`: reading the floor and `planDispatch`; one ticket's `writeItems` |
| `DoneLeg`, `DoneTicket`, `SkipLeg`, `AssignLeg`, `HandLeg`, `AddService`, `RemoveService`, `FollowBooking` | the presses that run under the lock, each followed by a dispatch |
| `ReadDone`, `Reactivate` | `reactivate` (undo), which reads before it has the lock |
| `AddWalkIn`, `LinkBooking`, `PairBooking`, `BeginCheckIn`, `CheckIn` | `add`, `pairTicketWithBooking`, `seatAppointment` |
| `WaitPayment`, `Checkout`, `MoveToStation`, `NoShow`, `BeginCancelTicket`, `CancelTicket`, `BeginDeleteTicket`, `DeleteTicket` | without the lock |
| `SeeStale`, `ParkStale`, `CloseUnpaid` | the housekeeping timer: `parkStale`, `closeUnpaidPastDays` |
| `StartBreak`, `EndBreak`, `RestartFloor` | `setBreak`; a restart, which forgets the lock |

Left out: tickets without lines, lines split from their leg, the turn score and its ties (any
able technician may be picked, in the order of the queue), parties, guests, stations, texts, closing
without payment by the desk, protected bookings, the owner out of the rotation.

### MCParts

The four modules above and two instances of `BookingSlots` share no rows, so `MCParts` explores
one part at a time (`part`), the others resting as they began: their state counts add up
instead of multiplying, and one run asks each part its own questions. It is a way to run TLC, not
a claim about how the parts interact.

## 3. What is checked

`CHECK_DEADLOCK` is on in every run of the book. It is off for the till and for `parts` and
`progress`, which really may stop: the ids of cards, bills, charges and
visits are finite, and when every one is used up nothing is left to do.

Passing runs:

| Run | Question | Bounds | Distinct states |
|---|---|---|---|
| `fixed_times` | with operations that ask the calendar inside their transaction, is anyone ever booked twice, or asked without a deadline? | 2 bookings, 2 technicians, 2 requests, 2 slots | 1.3 M |
| `drags` | moves and reschedules, with restarts: inductive invariant `Safe`; refinement of `SlotBook` | same | 627 k |
| `statuses` | every write that makes no check (dropdown, buttons, links, floor, trash, sweep) around one that does, with a salon block and a day off | 1 request and the timer, 2 slots | 976 k |
| `stretches` | visits that grow around a day off, with the clock, the midnight sweep and the sweep of silent technicians: `Safe`, `NeverStripped` | 2 requests and the timer, 1 technician, 2 slots | 370 k |
| `one_till` | does the till add up when handlers do not overlap? | 1 request, 1 card, 2 bills, 3 cents | 76 k |
| `tills` | are cards safe when they do, with restores and restarts? refinement of `Purse` | 2 requests, 1 card, 2 bills, 2 cents | 939 k |
| `parts` | the safety of deposits, the card till, posts and the floor; the book as the public page, the bots and the engine reach it | below | 1.9 M |
| `progress` | what must come to an end, in each part that has it | below | 230 k |

Bounds of `parts` and `progress`. Deposits: 1 session, 4 payment rows, 1 request beside the
sweep, a deposit of 2 and a surcharge of 1. Card till: 2 references of one ticket of 3 cents, 1
admin, 2 uploads. Posts: 2 networks, 2 sweeps, 1 person, 3 attempts
(`MAX_ATTEMPTS`), at most 2 posts live on one network. Floor: 2 visits of up to 2 parts, one technician for
hands and feet and one for hands, 1 desk beside the timer, two wishes (hands and feet;
something nobody is ticked for). Public page: 2 bookings, 2
technicians, 2 requests and the timer, 3 slots, a gap of 1, a slot off.

Why the bounds are enough for the questions asked: a clash needs two bookings;
a lost update needs two requests; a hand-over needs two technicians; overlap
without equality, a gap, or a visit running into the next one needs two or three
slots. A partial spend, a part refund and the rest need three cents; two bills
on one card need two bills. A deposit recorded, part of it given back and the rest kept needs an amount
of two and rows to split; a retry needs a second reference; a half-sent post two
networks; a technician at two customers two visits, and parts that may or may not run
together two parts. The worlds of a part split its operations and faults because all of them together do
not fit; each keeps those that can meet in the question. The theorems of section 5
hold for all operations together and for any sizes.

Properties worth naming:

* `NoDoubleBooking` holds where every write asks the calendar. The whole system breaks it
  (section 4), so the properties of the whole system are
* `ClashNeedsUncheckedWrite`, `TimeOffNeedsUncheckedWrite`: when a technician is
  booked twice (or on time off), one of the rows was last placed by a write that did
  not check that very placement. Two checked placements never clash, whatever overlaps.
  (`PublicSafe` is the two for the public operations.)
* `Safe`: the conjunction that makes these inductive (section 5).
* `AskedOnTheClock`: a technician who was asked has a deadline, or the sweep would never look at the
  booking (until the sweep itself finds nobody else and clears it).
* `NeverStripped`: while technicians answer late or never, no step takes a booking's technician away
  without a replacement, the sweep that asks around included.
* `SilenceEnds`: a booking's deadline does not stay passed for ever.
* `CardsKeepTheirMoney`: no card is overdrawn, and a balance differs from its
  ledger only on a card void or adjust wrote from an old read.
* `CardsAddUp`, `ReturnedOnce`, `NeverRefundsMoreThanTaken`: the till's books, exact as long as
  handlers do not overlap.
* `PurseSpec`: no handler, however it is overtaken, takes money that is not on the card or for a bill that has
  a card's money already, or brings back more or less than one bill took, or to another card. With one handler and no
  trash it comes back once (`Once`; `one_till` checks that part as `ReturnedOnce`).
* `PaidBillKeepsCardMoney`: a bill that counts as paid has not given its card's
  money back; proved for any overlap of handlers without the trash (section 5).
* `SweepKeepsBooks`, `SweepReturnsAll`: with the sweep as the only one to settle (a salon without webhook),
  a deposit is recorded once, the books agree with the provider, and a lapsed hold keeps
  no money; `NoMoneyWithoutCause` (no row says PAID of money the provider did not take, none is given
  back for a booking that stands) holds for every caller.
* `PaidIsRecorded`: what was paid on a hold reaches the books though a process or an answer is lost.
* `OnlyPaidCardsRecorded`, `SaleRecordedOnce`, `Askable`, `BooksFollowTerminal`: a sale rests on an approved
  charge, is in the books once however often it is posted, its charge can be
  asked about, and what the books keep of it is what the terminal kept, as long as one admin at a time
  gives card money back, on the terminal only, and part of it did not go back before a sale that is voided later was posted.
* `QueuedIsRecorded`: a sale kept on the device gets its order.
* `OncePerChannel`, `RowTellsWhatIsUp`: a post is up once on each network; its row
  names those networks and no others.
* `ScheduledEnds`: it ends posted, failed or expired.
* `OneCustomerEach`, `TogetherOnlyHandsAndFeet`, `NeverBackToHer`: what the dispatcher never does,
  whatever is written between its plan and its writes.
* `QuietFloor`: at rest, no free technician stands beside a part she could take: every change that
  frees somebody runs the dispatcher, but for those the property names.
* `OneTicketEach`: with one person at the desk a booking has one ticket, unless one of its tickets was cancelled.
  (With two desks it may have two, section 4.)
* `WaitingIsSeated`: who waits is seated, because a visit nobody closes is parked.

Fairness. A handler that began runs on until its promise settles and its
transaction commits or rolls back: weak fairness of each request's next step (`Continue`, `Step`,
`WorkerStep`, `DeskStep`), except in the card till, where nothing is promised of a charge's calls. Timers: weak fairness of the book's sweep and of `SeeStale` and `ParkStale`
(`HousekeepingService`, `setInterval` of five minutes, which catches what it throws), of the deposits'
`Round` (`OnlineDepositService`, two minutes), of the minute sweep of posts; and of
`SyncStart` and `SyncPosts`, because the till's page uploads its queue whenever it is
opened and whenever the browser is online again (`page.tsx`:570, 577), and a till is opened every day. `SweepAsks` has strong fairness: a row older than an
hour is asked about only in some of the rounds, so the step is enabled again and
again but not all the time. `GrowLate` has weak fairness: time passes. None for customers, staff,
the desk, answers or faults. Deletion is left out of `SilenceEnds`: a booking deleted under
the sweep makes its rejection insert throw, which ends the round for the
salon's other bookings, and only finitely many deletions would still let it hold.

## 4. Where the code and its own text disagree

Each of these runs must end in a violation; `PROJECT.json` quotes the text.

| Run | Property | What happens |
|---|---|---|
| `v_move_race` | `NoDoubleBooking` | a reschedule and a hand-over in flight: one checks the old technician, the other the old time |
| `v_double_void` | `ReturnedOnce` | two voids of one bill credit its card twice |
| `v_card_twice` | `ChargedOnce` | a slow terminal: the till stops polling, the recheck finds the charge approved, the ticket is still there, and Pay charges again under a fresh reference |
| `v_post_twice` | `StaysOne` | a second sweep claims a post with the results it read before the first one half sent it |

The models have more behaviours of this kind. They have no run of
their own; most are what the checked properties make exceptions for.

The book:

* a confirmation between `assignStaff`'s read and its write goes back to ASSIGNED (4589); an
  Accept between the sweep's query and its hand-over is overwritten (4648); a rejection that lands after
  the engine ranked is not seen, and the booking goes to the technician who just refused (4520);
* `autoAssign` of a CONFIRMED booking may leave it with nobody (4545);
* a technician may stand on a PENDING booking: a refusal is being passed on, the salon confirms the booking and
  hands it to someone (`assign` read CONFIRMED and keeps the status, 3012), the engine finds nobody and writes
  PENDING (4545), `assign` writes the technician. No overlap query counts that row, so another visit takes the
  slot, and `confirmBySalon` then books the technician twice; hence the operations of `FixedTimes` (section 5);
* `editLines` does not ask for time off (3920) and computes the new end from a start that may have moved (3912);
* `arrive`, `noShow` and `complete` bring back a visit cancelled since they read it, over whoever got its slot.

The till and the cards:

* `void` and `adjust` of a card post the balance they read, not the one they replace; a card
  credited during a checkout is marked REDEEMED with money on it;
* two part refunds each fit under the limit and together exceed it; a part refund that read the bill
  before its void leaves its payments below zero (1037);
* a bill restored from the trash is PAID again while its card keeps the money the deletion gave back (why
  `PaidBillKeepsCardMoney` and `BillsCorrect` leave the trash out);
* a queued sale that the server refuses (4xx) is dropped from the device
  (`apps/web/src/app/salon/pos/page.tsx`:559, why `QueuedIsRecorded` leaves "refuse" out);
* a void at the till parts the books from the terminal ("tillVoid" of `BooksFollowTerminal`); so do two
  admins who refund one charge in parts at once, each of whom may see the sum that makes the refund full
  (`Clerks = {k1, k2}`);
* part of a charge goes back before the till has posted its sale, so the negative row is tied to no order
  (`payment-orchestrator.service.ts`:605); the rest goes back afterwards and voids the sale (543), which
  neutralises only that order's rows (`pos/pos.service.ts`:949). The first part stays in the books
  as a loss of a sale that never was. Without its second premise `BooksFollowTerminal` fails on this
  in `parts`; a comment (562-566) promises one negative row or a void, never both.

Deposits:

* return page and webhook settle one payment twice: with `Worlds` {{"checkout", "return", "webhook"}}
  and two requests `RecordedOnce` fails (why it is stated of the sweep alone);
* a person who cancels between `settle`'s two reads leaves the money on a cancelled hold;
* two people who cancel at once, a lost answer or a restart between the provider and the row part the books
  from the provider (hence `OneRequest` and `SweepWorlds`, section 5);
* a second checkout session replaces the intent's id: who pays the first one is not found (`PaidIsRecorded` with
  `Sessions = {1, 2}`).

Posts:

* a lost Page wipes the results of the half that is live; "Post now" and an edit arm again a post that may be up
  (worlds "page", "now", "save" of `OncePerChannel`); a restart leaves the row in `publishing` for good.

The floor:

* a double tap on check-in, or two desks, make two tickets of one booking: `OneTicketPerVisit` fails with
  `Desks` {d1, d2, keeper} and the world {"others", "checkIn"} in four steps (1419), though a comment (1417)
  promises the same ticket (why `OneTicketEach` has one desk);
* a ticket of a booking is cancelled, the booking checked in again, and a late press on the first ticket writes it
  back to the floor: two tickets with one desk (why `OneTicketEach` leaves "cancel" out);
* a late press, or the dispatcher's write, reopens a ticket closed meanwhile (`writeItems`, 438); an undo
  forgets a pass (1626);
* a part that everyone able to do it passed on waits until somebody assigns it.

## 5. What is proved

For every set of bookings, technicians, requests, cards, bills, references, networks,
visits and parts, every horizon, gap, price, time off, set of enabled operations
and set of worlds; from the named ASSUMEs on the constants, and from the hypotheses the table names.

| Theorem | Statement | Argument |
|---|---|---|
| `BookingSlotsProofs!TypeCorrect` | `Spec => []TypeOK` | one lemma per group of actions; what a handler has at hand at each point (`WellFormed`) is part of the type |
| `BookingSlotsProofs!InvCorrect`, `SafeCorrect` | `Spec => []IInv`, `[]Safe` | below |
| `BookingSlotsProofs!ClashCorrect`, `TimeOffCorrect` | the two promises of the book | conjuncts of `Safe` |
| `BookingSlotsProofs!AskedCorrect` | without the sweep and the status dropdown, `Spec => []AskedOnTheClock` | `ClockInv`: no row is ASSIGNED without a deadline, in the trash either |
| `BookingSlotsProofs!FixedTimesCorrect` | with the operations of `FixedTimes`, `Spec => []NoDoubleBooking` | the inductive invariant `FixedInv`, below |
| `BookingSlotsProofs!StrippedCorrect` | where nobody hands a booking on (no operation of `HandedByPeople`), `Spec => NeverStripped` | the action property from the inductive invariant `StripInv`, below |
| `SlotBookProofs!CalendarSound` | the abstract calendar never vouches for two spans that meet | induction over `Take`, `Impose`, `GiveBack` |
| `BookingSlotsProofs!BookImplements` | `Spec => BookSpec` | every action changes the placement of at most one booking; a checked write is a `Take`, an unchecked one an `Impose`, a write that frees time a `GiveBack`, everything else a stutter |
| `GiftCardsProofs!TypeCorrect` | `Spec => []TypeOK` | as above; a bill that redeemed something names its card |
| `GiftCardsProofs!CardsCorrect` | `Spec => []CardsKeepTheirMoney` | inductive with `TypeOK`: the guard of the decrement keeps the balance above zero, relative writes move balance and ledger alike, and absolute writes are marked when stale |
| `GiftCardsProofs!BillsCorrect` | without restores, `Spec => []PaidBillKeepsCardMoney` | whoever credits the card writes a status other than PAID in the same transaction; an outdated void or deletion can only add to a bill already off the books |
| `GiftCardsProofs!OneHandlerAddsUp` | with one request (`OneHandler`), `Spec => []CardsAddUp` | `CardsInv`, below |
| `GiftCardsProofs!OneHandlerRefunds` | with one request, `Spec => []NeverRefundsMoreThanTaken` | the bill a request read is the bill in the table |
| `GiftCardsProofs!OneHandlerReturnsOnce` | with one request and no restores, `Spec => []ReturnedOnce` | a bill that gave its card money back is off the books, and nothing brings it back |
| `GiftCardsProofs!PurseImplements` | `Spec => PurseSpec` | a commit is a `Spend`, a `GiveBack` or a `Correct`, or moves no money, by `PurseInv` and `OnceInv`, below |
| `CardSalesProofs!CardTypeCorrect`, `PaidCorrect`, `OnceInBooksCorrect`, `AskableCorrect` | `CardSpec => []CardTypeOK`, `[]OnlyPaidCardsRecorded`, `[]SaleRecordedOnce`, `[]Askable` | one inductive invariant `CardInv`, below |
| `CardSalesProofs!BooksCorrect` | with one admin (`OneClerk`), `CardSpec => []BooksFollowTerminal` | the inductive invariant `BooksInv`, below |
| `DepositsProofs!DepositTypeCorrect`, `CauseCorrect` | `Spec => []TypeOK`, `[]NoMoneyWithoutCause` | `MoneyInv`: what a caller has in hand was taken by the provider, and who refunds saw the booking cancelled |
| `DepositsProofs!SweepKeepsBooksCorrect` | with one request beside the sweep (`OneRequest`), and in no world of the sweep alone a lost answer or a restart (`SweepWorlds`), `Spec => []SweepKeepsBooks` | `SweepInv`, below |
| `DepositsProofs!SweepReturnsAllCorrect` | with `SweepWorlds`, `Spec => []SweepReturnsAll` | `AloneInv`, below |
| `PostQueueProofs!PostTypeCorrect`, `OnceCorrect` | `PostSpec => []PostTypeOK`, `[]OncePerChannel` | the inductive invariant `OnceInv`, below |
| `PostQueueProofs!RowCorrect` | `PostSpec => []RowTellsWhatIsUp` | `Delivered` and `RowKnows`, below |
| `TurnBoardProofs!BoardTypeCorrect` | `FloorSpec => []BoardTypeOK` | the plan's legs, kept in the request, are part of the type |
| `TurnBoardProofs!NeverBackCorrect` | `FloorSpec => []NeverBackToHer` | the inductive invariant `BackInv`, below |
| `TurnBoardProofs!OneEachCorrect` | `FloorSpec => []OneCustomerEach` | the inductive invariant `SeatInv`, below |
| `TurnBoardProofs!TogetherCorrect` | `FloorSpec => []TogetherOnlyHandsAndFeet` | the inductive invariant `BesideInv`, below |
| `TurnBoardProofs!QuietCorrect` | `FloorSpec => []QuietFloor` | the inductive invariant `RestInv`, below |
| `TurnBoardProofs!OneTicketCorrect` | `FloorSpec => []OneTicketEach` | the inductive invariant `OneInv`, below |

The invariant behind the book. "No two checked placements clash" is not
inductive: nothing in it says that what `Check` saw is still true when the write
comes. `Safe` adds that. `LockExclusive`: two transactions between check and commit
never hold one technician. `CheckedSpanFree`: until its commit, the span a
transaction checked is met only by rows that are themselves unchecked.
`CheckedSpanOn`: it stays clear of time off. Because a checked write into that
technician's time needs the lock, only unchecked writes can enter the span in between,
and those mark the row. This is also where the history variable `unchecked` earns
its place: a row keeps its mark while it stays where an unchecked write put it, and
loses it when it is checked in place or frees the time. A row shrunk inside a checked
placement stays checked (`Inside`).

The invariant behind "nobody twice". `ClashCorrect` says which rows are to blame for a clash; `FixedInv` adds
that with the operations of `FixedTimes` there are none (`Vouched`). What a request checked is what it writes, since
a booking keeps its times once it is made and a request that makes one is alone with it
(`MakesAlone`, `HandsAsIs`). A status write puts a row into the calendar only by confirming it, and the request that made
the booking is the only one to do so: until then nobody took the booking for a confirmed one (`FirstWord`), so that
no hand-over keeps a status, and a PENDING row has no technician (`Young`). Without `FirstWord`
it is not inductive: the step that fails is the one of section 4 with `confirmBySalon`. `fixed_times`
checks the property for the desk's five of these operations.

The invariant behind "never stripped". Whoever looks for the first technician of a booking finds it without one,
and the sweep finds each of its bookings with one (`Grounded`); two requests never look for the
first technician of one booking, and nobody else works on one that is being made (`Apart`). So a write that
leaves `None` in a row found `None` there. With `assign` or `autoAssign` beside it this is false: see section 4.

The invariants behind the till with one handler. `CardFits`: a card's balance is its ledger's sum, never below zero,
and the card is ACTIVE exactly while money is on it. `CardFresh`: what the handler read of a card, and decided from it, is
still so when it writes. The same is said of a bill. Restarts and restores are among the
operations; with a second handler `CardFresh` is what breaks first (`v_double_void`).

The invariant behind the purse. It holds for any number of handlers, so it says nothing of what they read of a
card. `PurseInv`: a bill being paid with a card is not in the table and no other checkout makes it, a bill being taken
back is in it or was, what a bill took came from a card that was sold, and the amounts on their way are amounts. That the
money is there is the guard of the decrement. For `Once`, `OnceInv` brings in the bills as one handler knows them.

The invariant behind the card till. `OnlyPaidCardsRecorded` says nothing of what the
pollers hold in their hands. `CardInv` adds that whatever was told to the till, the list
or a recheck (`Told`) and whatever is written in the record is what the provider said, that a sale on its way to the books or in them was
charged, or was made offline under a reference nobody will charge (`SoldWell`), that without an order
there is no sale in the ledger and with one it is at most the price (`SaleOfOrder`), and that every
screen and request speaks of a reference in use, those ahead being fresh (`Refers`).

The invariant behind the books. `BooksInv` adds what is on its way: when the provider gave money back, the one clerk has
it in hand until it is written, so that the books, plus what the clerk brings, are what went
back (`Even`, `Brings`). What `refunded` sums up is all that went back (`Evened`), which is why `full` is right and a
sale is voided only when the whole charge is gone; a sale is in the books exactly while its order
stands (`Stands`). With two clerks `Evened` is false.

The invariants behind the deposits. Until something is recorded there is only the row the public booking left, and
nothing went back (`Owing`). From then on there is one session `s` whose money it was (`Balanced`): that row was filled with
it (`Filled`), the others are refunded parts split off it, what the handlers have in hand is of it (`Own`),
what the provider gave back is what the handlers asked for (`GivenBack`), and the rows of `s` add up to the
deposit and the surcharge but for the part a handler is just splitting off (`WrittenOff`). `SweepKeepsBooks` follows
where no handler is between the provider and the row. `AloneInv` adds, for the sweep without people, that a hold the sweep
let go has its money on the way back with the sweep (`Alone`). `Worlds` of the run `parts` satisfy `SweepWorlds`, as
`Requests = {r1}` satisfies `OneRequest`; with a lost answer both properties are false, for
the provider may have given back what no row tells.

The invariant behind the posts. `OnceInv` says, for one sweep alone, that a network the post is up on is
in what the sweep read, in what it has sent, or in the row's results; one that did not answer may be
nowhere, and then the row is not armed again (`Alone`). For many sweeps, when nothing fails, only the one that
claimed the row is sending, and nothing is up while the row can still be claimed (`Many`). What a
behaviour's world leaves out leaves no worker behind it (`Traces`). `Delivered`: the networks in a row, or in a
worker's hands, took the post, and a worker that met no error has every network done or to do, so a row called
posted is. `RowKnows`: the one sweep, before it sends, read what the row holds, and that is all there is; while
it sends, what the row does not hold yet it has in hand.

The invariants behind the floor. All rest on the salon's lock: one request at a time
works out a plan and writes it (`OneHolder`). `BackInv`: a part that was passed on carries its
technician in `skippedBy`, in the row (`PassedIsSkipped`) and in what the holder is still
going to write (`WritesKeep`), though tickets change between the plan and the writes;
a plan takes nobody in `skippedBy`. `SeatInv`: while a dispatch writes its plan, ticket by
ticket, what it has still to write keeps every part that is served as it is in the
row (`SeatsKeep`), and those it is going to seat are apart from each other and from those at work
on the tickets it does not write (`SeatsApart`); a ticket that waits has nobody at work
(`WaitsIdle`), so whoever brings one back to the floor seats nobody twice.
`BesideInv`: any two parts of a customer that are served, neither of them by hand, can run together (`RowFits`); and so can
any two of what a plan is still going to write, unless both are served in the row already (`PlanFits`): that plan
was worked out under the lock, but a press may start, end or remove a part of the ticket before its write.
`RestInv`: while nobody is to dispatch again, the plan being written would leave nobody free for a part that waits, and its
tickets are still as it read them; on a day without what the property names every other step that could undo this puts a
request on its way to the dispatcher. That a plan does so is a lemma: who is left free may take none of the parts
left, for the plan goes on while a part in the queue has somebody. `OneInv`: whoever found no ticket of a booking is the
only one to make one, nobody else gives a ticket that booking, and no cancelled ticket comes back.

TLC evaluates `Safe` in `drags` and `stretches`, `TypeOK` in `fixed_times`, `one_till` and `parts`,
and every theorem's property in some run; `BillsCorrect` also covers what no run does, two
handlers taking one bill back at once, and the floor's theorems any number of desks.

Sums. The books of deposits and card sales are sums over sets of rows. The library defines them by
recursion over the set, and its induction theorems cannot be used here; `Sums` proves what the proofs need (a sum is a
number, one element more or less, two disjoint sets, equal and different summands) by taking a smallest set
for which it fails, with the theorem that a nonempty set of numbers has a least one.

Hypotheses. Each is satisfied by the run that checks the property, and each is needed: without it
the code does break the property (section 4).

Only model-checked: every liveness property (`PaidIsRecorded`, `QueuedIsRecorded`, `ScheduledEnds`, `WaitingIsSeated`,
`SilenceEnds`), for fairness and ENABLED are out of the prover's reach.
`PublicSafe` is `ClashCorrect` and `TimeOffCorrect` for one choice of the constants.

## 6. Limits of the model

One salon, one business day of slots. A crash loses a handler's local state; the
database's transactions are taken at their word (READ COMMITTED, advisory locks
released at the end). Processes share nothing but the database, so a request is a
request whichever process runs it; the exception is the floor's lock, a map in one
process's memory, and the model has one such process. The ids of a visit's parts are reused in the model, where a
removed part leaves its id free, and never in the code (`newLegId`): `Renewed` keeps the two apart in the history.
The bounds inside guards (`Cap`, `MaxLive`, the ids of references,
tickets and rows) are named where they occur and keep TLC's state space finite; every guard of the
code is there besides them. Providers, terminals and networks are external: the models let them answer
in every way the code distinguishes.

## 7. Plan

Done: the book, gift cards and bills, deposits, the server-driven card till with its offline queue, posts,
the floor. Next, in this order:

1. **TillAndBook**: composition of the till with the book and the deposits: checkout completes and may
   extend a booking, taking a bill back reopens it (`reopenBookingsOf`, `pos/pos.service.ts`:1188), the
   prepaid deposit (423). Property: no reopened visit clashes without an unchecked write; a deposit is credited once.
2. **FloorAndBook**: `TurnBoard` with `BookingSlots`, so that `bookingFollowsFloor` and `followBooking` are
   one system instead of `FollowFloor` and `FollowBooking`; a second process with its own lock.
3. **Bridge terminals** (`payments-hub/agent.service.ts`, `bridge/`): jobs, claims, a restarted agent.
4. Time-off approval as actions; **Waitlist**, **CashShifts**, restaurant tables; loyalty and referral;
   the comment sweep of the social module.
5. Pure algorithms against reference definitions: interval arithmetic and rest gaps,
   the stretch policy, the split of a refund over lines.

## 8. Not modelled, and why

Conversations with language models, notifications, campaigns, writing of content, reviews and the
Google feed call external services and keep nothing the salon's time or money
depends on. Auth, tenants and permissions decide who may call a handler; the models let anyone
call. Reports only read. Payroll is arithmetic over closed data. Platform billing,
printing, imports, mobile and plugin code are clients or drivers; of the web application only the payment
screen and its offline queue decide anything the server does not. The
per-boot repairs of `HousekeepingService` (`repairStrippedAssignments`,
`repairFalseNoShows`, `repairTillLinks`) and `pos/test-reset.service.ts` are one-off corrections.
Most of the repository's lines are such code: screens, message texts, prompts, forms over
tables. Together with the plan above, that is why the models stand for a small share of them.

## 9. Running

    tlc -workers 4 -config drags.cfg MCBookingSlots.tla
    tlc -workers 4 -config tills.cfg MCGiftCards.tla
    tlc -workers 4 -config parts.cfg MCParts.tla
    tlapm BookingSlotsProofs.tla     # and the other proof modules
