----------------------------- MODULE PostQueue -----------------------------
(***************************************************************************)
(* One scheduled post on its way to the salon's networks.                  *)
(*                                                                         *)
(* Source: apps/api/src/content/social-publish.service.ts (runDue,         *)
(* publishNow, deliver, fail, save, setStage, reschedule, cancel, remove), *)
(* dueNow, priorSuccesses, stillDue and retryable of social-publish.ts,    *)
(* sweepPosts of content.scheduler.ts.                                     *)
(*                                                                         *)
(* A sweep reads its rows once and delivers them one after the other; a    *)
(* press of "Post now" reads the row, writes it, delivers it.  Whatever    *)
(* they read is what they work with, and others run between any two calls. *)
(***************************************************************************)
EXTENDS Integers, FiniteSets

CONSTANTS Channels,    \* the networks the post goes to
          Minute,      \* the sweep of the minute timer
          Timers,      \* ... and with it those a page opening or a late one starts
          People,      \* requests of people in flight
          MaxAttempts, \* MAX_ATTEMPTS
          MaxLive,     \* bound of TLC's: how often one network takes the post
          PostWorlds   \* which operations and faults a behaviour may see: sets of them

ASSUME PeopleAssumption   == Minute \in Timers /\ Timers \cap People = {}
ASSUME AttemptsAssumption == MaxAttempts \in Nat \ {0}

VARIABLES post,     \* the scheduled_post row
          live,     \* how many times the post is up on each network
          page,     \* the salon's Page is connected
          overdue,  \* it is more than LATE_GRACE_MS late
          worker,   \* the sweeps and requests at work
          may       \* the operations and faults of this behaviour

postVars == <<post, live, page, overdue, worker, may>>

Claimable == {"draft", "scheduled", "failed", "cancelled", "expired"}
Editable  == {"draft", "scheduled", "failed", "expired"}

\* results: the networks with an id and no error.
Post == [status : Claimable \cup {"publishing", "posted", "deleted"},
         attempts : Nat, results : SUBSET Channels]

\* attempts, results: as the row was read; to results come the networks that took the
\* post; wrong: one said no; unsure: one did not answer.
WorkRecord ==
        [pc : {"idle", "expire", "rearm", "deliver", "claim", "noPage", "send", "save", "stage",
               "remove"},
         attempts : Nat, results : SUBSET Channels, todo : SUBSET Channels,
         wrong : BOOLEAN, unsure : BOOLEAN]

\* No network is both done and still to do.
Work == {q \in WorkRecord : q.todo \cap q.results = {}}

Rest == [pc |-> "idle", attempts |-> 0, results |-> {}, todo |-> {},
         wrong |-> FALSE, unsure |-> FALSE]

PostInit ==
  /\ post = [status |-> "scheduled", attempts |-> 0, results |-> {}]
  /\ live = [c \in Channels |-> 0]
  /\ page = TRUE
  /\ overdue = FALSE
  /\ worker = [w \in Timers \cup People |-> Rest]
  /\ may \in PostWorlds

Begins(w, pc) == worker[w] = Rest /\ worker' = [worker EXCEPT ![w].pc = pc]
Ends(w)       == worker' = [worker EXCEPT ![w] = Rest]

\* What it will deliver is the row as it is now.
Reads(w, pc, attempts) ==
  /\ worker[w] = Rest
  /\ worker' = [worker EXCEPT ![w].pc = pc, ![w].attempts = attempts,
                             ![w].results = post.results]

-----------------------------------------------------------------------------
\* The sweep.

\* dueNow: a post still scheduled, with attempts left.
DueNow == post.status = "scheduled" /\ post.attempts < MaxAttempts

Sweep(w) ==
  /\ w = Minute \/ "two" \in may
  /\ DueNow
  /\ IF overdue THEN Begins(w, "expire") ELSE Reads(w, "deliver", post.attempts)
  /\ UNCHANGED <<post, live, page, overdue, may>>

\* Too late to go out: written by the row's id.
Expire(w) ==
  /\ worker[w].pc = "expire"
  /\ post' = IF post.status = "deleted" THEN post ELSE [post EXCEPT !.status = "expired"]
  /\ Ends(w)
  /\ UNCHANGED <<live, page, overdue, may>>

-----------------------------------------------------------------------------
\* deliver.

\* Mutant: the word on screen never says that we stopped trying.
NeverStops(attempts, stop) == "scheduled"

\* fail: back to scheduled while attempts remain.
Failed(attempts, stop) ==
  IF stop \/ attempts + 1 >= MaxAttempts THEN "failed" ELSE "scheduled"

\* The row is written by its id; when nothing is left of it, nothing is.
Fail(w, results, stop) ==
  /\ post' = IF post.status = "deleted" THEN post
             ELSE [post EXCEPT !.status = Failed(worker[w].attempts, stop), !.results = results]
  /\ Ends(w)

\* The plan: without a connected Page the attempt fails, with no result.
PlanPost(w) ==
  /\ worker[w].pc = "deliver"
  /\ worker' = [worker EXCEPT ![w].pc = IF page THEN "claim" ELSE "noPage"]
  /\ UNCHANGED <<post, live, page, overdue, may>>

FailPlan(w) ==
  /\ worker[w].pc = "noPage"
  /\ Fail(w, {}, FALSE)
  /\ UNCHANGED <<live, page, overdue, may>>

\* Mutant: the claim does not look at the status.
Unclaimed == post.status # "deleted"

\* "Claim it first": only what is neither out nor going out.
MayClaim == post.status \in Claimable

\* Mutant: a retry sends the post whole.
EveryChannel(results) == Channels

\* stillDue: the networks without a live post in the row as it was read.
StillDue(results) == Channels \ results

Claim(w) ==
  /\ worker[w].pc = "claim"
  /\ IF MayClaim
     THEN /\ post' = [post EXCEPT !.status = "publishing", !.attempts = @ + 1]
          /\ worker' = [worker EXCEPT ![w].pc = "send", ![w].todo = StillDue(worker[w].results)]
     ELSE Ends(w) /\ UNCHANGED post
  /\ UNCHANGED <<live, page, overdue, may>>

\* One network after the other: it takes the post, or says no, or does not answer.
Send(w) ==
  \E c \in worker[w].todo :
    /\ worker[w].pc = "send"
    /\ \/ /\ live[c] < MaxLive
          /\ live' = [live EXCEPT ![c] = @ + 1]
          /\ worker' = [worker EXCEPT ![w].todo = @ \ {c}, ![w].results = @ \cup {c}]
       \/ /\ "error" \in may
          /\ worker' = [worker EXCEPT ![w].todo = @ \ {c}, ![w].wrong = TRUE]
          /\ UNCHANGED live
       \/ /\ "unsure" \in may
          /\ worker' = [worker EXCEPT ![w].todo = @ \ {c}, ![w].unsure = TRUE]
          /\ \/ live[c] < MaxLive /\ live' = [live EXCEPT ![c] = @ + 1]
             \/ UNCHANGED live
    /\ UNCHANGED <<post, page, overdue, may>>

\* Not retryable: one of them did not answer.
Stops(q) == q.unsure

\* At least one of them has an error.
Bad(q) == q.wrong \/ q.unsure

\* Mutant: a clean failure, though one network took the post.
CleanFailure(q) == {}

\* "Partial delivery is recorded exactly as it happened."
Outcome(q) == q.results

FinishPost(w) ==
  LET q == worker[w] IN
  /\ q.pc = "send" /\ q.todo = {}
  /\ IF Bad(q) THEN Fail(w, Outcome(q), Stops(q))
     ELSE /\ post' = IF post.status = "deleted" THEN post
                     ELSE [post EXCEPT !.status = "posted", !.results = Outcome(q)]
          /\ Ends(w)
  /\ UNCHANGED <<live, page, overdue, may>>

-----------------------------------------------------------------------------
\* People.

\* Post now: the row is read, armed again, delivered as it was read.
PressPostNow(w) ==
  /\ "now" \in may
  /\ post.status \in Claimable
  /\ Reads(w, "rearm", 0)
  /\ UNCHANGED <<post, live, page, overdue, may>>

Rearm(w) ==
  /\ worker[w].pc = "rearm"
  /\ post' = IF post.status = "deleted" THEN post
             ELSE [post EXCEPT !.status = "scheduled", !.attempts = 0]
  /\ worker' = [worker EXCEPT ![w].pc = "deliver"]
  /\ UNCHANGED <<live, page, overdue, may>>

\* save refuses a post that is out, setStage also one going out; both write later.
BeginSave(w) ==
  /\ "save" \in may
  /\ \/ post.status \notin {"posted", "deleted"} /\ Begins(w, "save")
     \/ post.status \in Claimable /\ Begins(w, "stage")
  /\ UNCHANGED <<post, live, page, overdue, may>>

SavePost(w) ==
  /\ worker[w].pc \in {"save", "stage"}
  /\ \E status \in {"draft", "scheduled"} :
       /\ post' = IF post.status = "deleted" THEN post
                  ELSE [post EXCEPT !.status = status,
                                    !.attempts = IF worker[w].pc = "save" \/ status = "scheduled"
                                                 THEN 0 ELSE @]
       /\ overdue' \in CASE worker[w].pc = "stage" -> {overdue}
                       [] status = "scheduled"    -> {FALSE}
                       [] OTHER                   -> BOOLEAN
  /\ Ends(w)
  /\ UNCHANGED <<live, page, may>>

\* reschedule and cancel: one statement each, on a post not yet out.  A post still being
\* written moves day and stays a draft.
Reschedule ==
  /\ "reschedule" \in may
  /\ post.status \in Editable
  /\ \/ post' = [post EXCEPT !.status = "scheduled", !.attempts = 0] /\ overdue' = FALSE
     \/ post.status = "draft" /\ post' = post /\ overdue' \in BOOLEAN
  /\ UNCHANGED <<live, page, worker, may>>

CancelPost ==
  /\ "cancel" \in may
  /\ post.status \in Editable
  /\ post' = [post EXCEPT !.status = "cancelled"]
  /\ UNCHANGED <<live, page, overdue, worker, may>>

\* remove: read, then deleted by its id; Lumio's own people may clear one that is out.
BeginDelete(w) ==
  /\ "delete" \in may
  /\ post.status \notin {"publishing", "deleted"}
  /\ Begins(w, "remove")
  /\ UNCHANGED <<post, live, page, overdue, may>>

DeletePost(w) ==
  /\ worker[w].pc = "remove"
  /\ post' = [post EXCEPT !.status = "deleted"]
  /\ Ends(w)
  /\ UNCHANGED <<live, page, overdue, may>>

-----------------------------------------------------------------------------
\* The Page is lost, and connected again.
Reconnect ==
  /\ "page" \in may
  /\ page' = ~page
  /\ UNCHANGED <<post, live, overdue, worker, may>>

\* Six hours pass.
GrowLate ==
  /\ ~overdue /\ overdue' = TRUE
  /\ UNCHANGED <<post, live, page, worker, may>>

\* The process restarts; nothing puts a row that was going out back.
RestartPosts ==
  /\ "restart" \in may
  /\ worker' = [w \in DOMAIN worker |-> Rest]
  /\ UNCHANGED <<post, live, page, overdue, may>>

WorkerStep(w) ==
  Expire(w) \/ PlanPost(w) \/ FailPlan(w) \/ Claim(w) \/ Send(w) \/ FinishPost(w) \/ Rearm(w)

PostNext ==
  \/ \E w \in Timers : Sweep(w)
  \/ \E w \in Timers \cup People : WorkerStep(w)
  \/ \E w \in People : \/ PressPostNow(w) \/ BeginSave(w) \/ SavePost(w)
                       \/ BeginDelete(w) \/ DeletePost(w)
  \/ Reschedule \/ CancelPost \/ Reconnect \/ GrowLate \/ RestartPosts

PostSpec == PostInit /\ [][PostNext]_postVars

\* The timer fires every minute, what a worker began goes on, and time passes.
PostFairness ==
  /\ WF_postVars(Sweep(Minute))
  /\ \A w \in Timers \cup People : WF_postVars(WorkerStep(w))
  /\ WF_postVars(GrowLate)

PostFairSpec == PostSpec /\ PostFairness

-----------------------------------------------------------------------------
PostTypeOK ==
  /\ post \in Post
  /\ live \in [Channels -> Nat]
  /\ page \in BOOLEAN /\ overdue \in BOOLEAN
  /\ worker \in [Timers \cup People -> Work]
  /\ may \in PostWorlds

\* One sweep alone delivers, and nobody arms again a post that may be up.
OneSweep == /\ may \cap {"two", "page", "now", "save"} = {}
            /\ ~({"unsure", "reschedule"} \subseteq may)

\* Nothing fails, and nobody arms a post again.
NothingFails == may \cap {"error", "unsure", "page", "now", "save", "reschedule"} = {}

\* "A duplicate post is visible to every follower the salon has": up once on each network,
\* whatever fails, for one sweep alone; for any number of them, when nothing fails and
\* none of them finds the post overdue.
OncePerChannel == OneSweep \/ (NothingFails /\ ~overdue) => \A c \in Channels : live[c] <= 1

\* What the row calls posted is up on every network, and each result it holds is of a
\* network it went up on.
ResultsAreLive ==
  /\ \A c \in post.results : live[c] > 0
  /\ post.status = "posted" => \A c \in Channels : live[c] > 0

AtRest == \A w \in Timers \cup People : worker[w] = Rest

\* "A live post nobody knows of": at rest, a network it is up on is in the row's results.
NothingUnrecorded ==
  AtRest /\ may \cap {"page", "two", "unsure", "restart", "now", "save", "delete"} = {} =>
    \A c \in Channels : live[c] > 0 => c \in post.results

\* What the row tells is so, and it tells all there is.
RowTellsWhatIsUp == ResultsAreLive /\ NothingUnrecorded

\* A scheduled post ends up posted, failed or expired, unless people or a restart step in:
\* "a queue that stops firing without saying so is worse than one that never existed".
ScheduledEnds ==
  post.status = "scheduled" /\ may \subseteq {"error", "unsure", "page"}
    ~> post.status \in {"posted", "failed", "expired"}

\* A Facebook post that went live "stays exactly one Facebook post".
StaysOne == \A c \in Channels : live[c] <= 1
=============================================================================
