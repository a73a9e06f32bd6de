-------------------------- MODULE PostQueueProofs --------------------------
(***************************************************************************)
(* The queue of scheduled posts, for every number of networks, sweeps,     *)
(* requests and attempts: types; no network has a post twice; what the row *)
(* says is up is up; what is up the row knows.                             *)
(***************************************************************************)
EXTENDS PostQueue, TLAPS

Workers == Timers \cup People

-----------------------------------------------------------------------------
(* Types.  One lemma per way a worker's record changes. *)

LEMMA RestWork == Rest \in Work
BY DEF Rest, Work, WorkRecord

\* A record of work may be read field by field.
LEMMA WorkFields ==
  ASSUME NEW q \in Work
  PROVE  /\ q.attempts \in Nat /\ q.results \in SUBSET Channels /\ q.todo \in SUBSET Channels
         /\ q.wrong \in BOOLEAN /\ q.unsure \in BOOLEAN
         /\ q.todo \cap q.results = {}
BY DEF Work, WorkRecord

LEMMA BeginsType ==
  ASSUME PostTypeOK, NEW w \in Workers,
         NEW pc \in {"idle", "expire", "rearm", "deliver", "save", "stage", "remove"},
         Begins(w, pc)
  PROVE  worker' \in [Workers -> Work]
BY RestWork DEF PostTypeOK, Workers, Begins, Rest, Work, WorkRecord

LEMMA EndsType ==
  ASSUME PostTypeOK, NEW w \in Workers, Ends(w)
  PROVE  worker' \in [Workers -> Work]
BY RestWork DEF PostTypeOK, Workers, Ends

LEMMA ReadsType ==
  ASSUME PostTypeOK, NEW w \in Workers, NEW pc \in {"rearm", "deliver"},
         NEW attempts \in Nat, Reads(w, pc, attempts)
  PROVE  worker' \in [Workers -> Work]
BY DEF PostTypeOK, Workers, Reads, Rest, Work, WorkRecord, Post

LEMMA GoesType ==
  ASSUME PostTypeOK, NEW w \in Workers, NEW pc \in {"claim", "noPage", "deliver"},
         worker' = [worker EXCEPT ![w].pc = pc]
  PROVE  worker' \in [Workers -> Work]
BY DEF PostTypeOK, Workers, Work, WorkRecord

\* A new status, with or without the attempts counted anew, leaves a row a row.
LEMMA RowType ==
  ASSUME NEW p \in Post, NEW status \in Claimable \cup {"publishing", "posted", "deleted"},
         NEW attempts \in Nat
  PROVE  /\ [p EXCEPT !.status = status] \in Post
         /\ [p EXCEPT !.status = status, !.attempts = attempts] \in Post
BY DEF Post

\* fail writes a status and networks, or nothing.
LEMMA FailType ==
  ASSUME PostTypeOK, NEW w \in Workers, NEW results \in SUBSET Channels,
         NEW stop \in BOOLEAN, Fail(w, results, stop)
  PROVE  post' \in Post /\ worker' \in [Workers -> Work]
BY EndsType DEF PostTypeOK, Fail, Failed, Post, Claimable

LEMMA PostInitType == PostInit => PostTypeOK
<1> SUFFICES ASSUME PostInit PROVE PostTypeOK
  OBVIOUS
<1>1. post \in Post BY DEF PostInit, Post, Claimable
<1>2. live \in [Channels -> Nat] BY DEF PostInit
<1>3. worker \in [Timers \cup People -> Work] BY RestWork DEF PostInit
<1> QED BY <1>1, <1>2, <1>3 DEF PostInit, PostTypeOK

LEMMA PostStepType == PostTypeOK /\ [PostNext]_postVars => PostTypeOK'
<1> SUFFICES ASSUME PostTypeOK, [PostNext]_postVars PROVE PostTypeOK'
  OBVIOUS
<1>1. ASSUME NEW w \in Timers, Sweep(w) PROVE PostTypeOK'
  <2>1. w \in Workers /\ post.attempts \in Nat
    BY DEF Workers, PostTypeOK, Post
  <2>2. worker' \in [Workers -> Work]
    BY <1>1, <2>1, BeginsType, ReadsType DEF Sweep
  <2> QED BY <1>1, <2>2 DEF Sweep, PostTypeOK, Workers
<1>2. ASSUME NEW w \in Workers, Expire(w) PROVE PostTypeOK'
  <2>1. worker' \in [Workers -> Work] BY <1>2, EndsType DEF Expire
  <2> QED BY <1>2, <2>1 DEF Expire, PostTypeOK, Workers, Post, Claimable
<1>3. ASSUME NEW w \in Workers, PlanPost(w) PROVE PostTypeOK'
  <2>1. worker' \in [Workers -> Work] BY <1>3, GoesType DEF PlanPost
  <2> QED BY <1>3, <2>1 DEF PlanPost, PostTypeOK, Workers
<1>4. ASSUME NEW w \in Workers, FailPlan(w) PROVE PostTypeOK'
  <2>1. post' \in Post /\ worker' \in [Workers -> Work] BY <1>4, FailType DEF FailPlan
  <2> QED BY <1>4, <2>1 DEF FailPlan, PostTypeOK, Workers
<1>5. ASSUME NEW w \in Workers, Claim(w) PROVE PostTypeOK'
  <2>1. worker[w] \in Work BY DEF PostTypeOK, Workers
  <2>2. CASE MayClaim
    <3>1. post' \in Post
      <4>1. post' = [post EXCEPT !.status = "publishing", !.attempts = @ + 1]
        BY <1>5, <2>2 DEF Claim
      <4>2. post \in Post /\ post.attempts + 1 \in Nat BY DEF PostTypeOK, Post
      <4> QED BY <4>1, <4>2 DEF Post
    <3>2. worker' \in [Workers -> Work]
      BY <1>5, <2>1, <2>2, WorkFields DEF Claim, StillDue, PostTypeOK, Workers, Work,
      WorkRecord
    <3> QED BY <1>5, <3>1, <3>2 DEF Claim, PostTypeOK, Workers
  <2>3. CASE ~MayClaim
    <3>1. worker' \in [Workers -> Work] BY <1>5, <2>3, EndsType DEF Claim
    <3> QED BY <1>5, <2>3, <3>1 DEF Claim, PostTypeOK, Workers
  <2> QED BY <2>2, <2>3
<1>6. ASSUME NEW w \in Workers, Send(w) PROVE PostTypeOK'
  <2>1. worker[w] \in Work BY DEF PostTypeOK, Workers
  <2>2. PICK c \in worker[w].todo :
           /\ \/ /\ live' = [live EXCEPT ![c] = @ + 1]
                 /\ worker' = [worker EXCEPT ![w].todo = @ \ {c}, ![w].results = @ \cup {c}]
              \/ /\ worker' = [worker EXCEPT ![w].todo = @ \ {c}, ![w].wrong = TRUE]
                 /\ UNCHANGED live
              \/ /\ worker' = [worker EXCEPT ![w].todo = @ \ {c}, ![w].unsure = TRUE]
                 /\ live' = [live EXCEPT ![c] = @ + 1] \/ UNCHANGED live
           /\ UNCHANGED <<post, page, overdue, may>>
    BY <1>6 DEF Send
  <2>3. c \in Channels BY <2>1, WorkFields
  <2>4. live' \in [Channels -> Nat] BY <2>2, <2>3 DEF PostTypeOK
  <2>5. worker' \in [Workers -> Work]
    BY <2>1, <2>2, <2>3 DEF PostTypeOK, Workers, Work, WorkRecord
  <2> QED BY <2>2, <2>4, <2>5 DEF PostTypeOK, Workers
<1>7. ASSUME NEW w \in Workers, FinishPost(w) PROVE PostTypeOK'
  <2>1. /\ worker[w] \in Work
        /\ Outcome(worker[w]) \in SUBSET Channels
        /\ Stops(worker[w]) \in BOOLEAN
    BY WorkFields DEF PostTypeOK, Workers, Outcome, Stops
  <2>2. post' \in Post /\ worker' \in [Workers -> Work]
    <3>1. CASE Bad(worker[w]) BY <1>7, <2>1, <3>1, FailType DEF FinishPost
    <3>2. CASE ~Bad(worker[w])
      BY <1>7, <2>1, <3>2, EndsType DEF FinishPost, PostTypeOK, Post
    <3> QED BY <3>1, <3>2
  <2> QED BY <1>7, <2>2 DEF FinishPost, PostTypeOK, Workers
<1>8. ASSUME NEW w \in Workers, PressPostNow(w) PROVE PostTypeOK'
  <2>1. worker' \in [Workers -> Work] BY <1>8, ReadsType DEF PressPostNow
  <2> QED BY <1>8, <2>1 DEF PressPostNow, PostTypeOK, Workers
<1>9. ASSUME NEW w \in Workers, Rearm(w) PROVE PostTypeOK'
  <2>1. worker' \in [Workers -> Work] BY <1>9, GoesType DEF Rearm
  <2> QED BY <1>9, <2>1 DEF Rearm, PostTypeOK, Workers, Post, Claimable
<1>10. ASSUME NEW w \in Workers, BeginSave(w) \/ BeginDelete(w) PROVE PostTypeOK'
  <2>1. worker' \in [Workers -> Work] BY <1>10, BeginsType DEF BeginSave, BeginDelete
  <2> QED BY <1>10, <2>1 DEF BeginSave, BeginDelete, PostTypeOK, Workers
<1>11. ASSUME NEW w \in Workers, SavePost(w) PROVE PostTypeOK'
  <2>1. worker' \in [Workers -> Work] BY <1>11, EndsType DEF SavePost
  <2>2. PICK status \in {"draft", "scheduled"}, zero \in BOOLEAN :
           post' = IF post.status = "deleted" THEN post
                   ELSE [post EXCEPT !.status = status, !.attempts = IF zero THEN 0 ELSE @]
    <3>1. PICK status \in {"draft", "scheduled"} :
             post' = IF post.status = "deleted" THEN post
                     ELSE [post EXCEPT !.status = status,
                                       !.attempts = IF worker[w].pc = "save" \/ status = "scheduled"
                                                    THEN 0 ELSE @]
      BY <1>11 DEF SavePost
    <3> QED BY <3>1
  <2>4. post' \in Post BY <2>2 DEF PostTypeOK, Post, Claimable
  <2>3. overdue' \in BOOLEAN BY <1>11 DEF SavePost, PostTypeOK
  <2> QED BY <1>11, <2>1, <2>4, <2>3 DEF SavePost, PostTypeOK, Workers
<1>12. ASSUME NEW w \in Workers, DeletePost(w) PROVE PostTypeOK'
  <2>1. worker' \in [Workers -> Work] BY <1>12, EndsType DEF DeletePost
  <2> QED BY <1>12, <2>1 DEF DeletePost, PostTypeOK, Workers, Post
<1>13. ASSUME Reschedule \/ CancelPost PROVE PostTypeOK'
  <2>1. post' \in Post
    <3>1. \/ post' = post
          \/ post' = [post EXCEPT !.status = "scheduled", !.attempts = 0]
          \/ post' = [post EXCEPT !.status = "cancelled"]
      BY <1>13 DEF Reschedule, CancelPost
    <3>2. post \in Post BY DEF PostTypeOK
    <3>3. /\ [post EXCEPT !.status = "scheduled", !.attempts = 0] \in Post
          /\ [post EXCEPT !.status = "cancelled"] \in Post
      BY <3>2, RowType DEF Claimable
    <3> QED BY <3>1, <3>2, <3>3
  <2>2. overdue' \in BOOLEAN BY <1>13 DEF Reschedule, CancelPost, PostTypeOK
  <2> QED BY <1>13, <2>1, <2>2 DEF Reschedule, CancelPost, PostTypeOK
<1>14. ASSUME Reconnect \/ GrowLate PROVE PostTypeOK'
  BY <1>14 DEF Reconnect, GrowLate, PostTypeOK
<1>15. ASSUME RestartPosts PROVE PostTypeOK'
  BY <1>15, RestWork DEF RestartPosts, PostTypeOK
<1>16. CASE UNCHANGED postVars BY <1>16 DEF postVars, PostTypeOK
<1>17. ASSUME NEW w \in Workers, WorkerStep(w) PROVE PostTypeOK'
  BY <1>2, <1>3, <1>4, <1>5, <1>6, <1>7, <1>9, <1>17 DEF WorkerStep
<1> QED
  BY <1>1, <1>17, <1>8, <1>10, <1>11, <1>12, <1>13, <1>14, <1>15, <1>16 DEF PostNext, Workers

\* PostQueue: the row, the count of live posts and every worker's record keep their types;
\* no worker ever has a network both done and still to do.
THEOREM PostTypeCorrect == PostSpec => []PostTypeOK
<1> QED BY PostInitType, PostStepType, PTL DEF PostSpec

-----------------------------------------------------------------------------
(* Once on each network.  What a behaviour may not see leaves no worker behind it. *)

Delivering == {"expire", "deliver", "claim", "noPage", "send"}

Traces ==
  /\ "page" \notin may => page
  /\ \A w \in Workers :
       /\ "page" \notin may => worker[w].pc # "noPage"
       /\ "now" \notin may => worker[w].pc # "rearm"
       /\ "save" \notin may => worker[w].pc \notin {"save", "stage"}
       /\ may \cap {"now", "two"} = {} /\ w # Minute => worker[w].pc \notin Delivering
       /\ "error" \notin may => ~worker[w].wrong
       /\ "unsure" \notin may => ~worker[w].unsure

\* The statuses a sweep may still come back to.
Armed == {"scheduled"} \cup (IF "unsure" \in may THEN {} ELSE Claimable)

\* One sweep: the networks the post is up on are in what it read, in what it has sent, or
\* in the row; only what did not answer is nowhere, and then the row is not armed.
Alone ==
  OneSweep =>
    /\ \A c \in Channels :
         /\ live[c] <= 1
         /\ worker[Minute].pc \in {"deliver", "claim"} /\ live[c] > 0
              => c \in worker[Minute].results
         /\ worker[Minute].pc = "send" /\ live[c] > 0
              => /\ c \notin worker[Minute].todo
                 /\ c \in worker[Minute].results \/ worker[Minute].unsure
         /\ worker[Minute].pc # "send" /\ post.status \in Armed /\ live[c] > 0
              => c \in post.results
    /\ worker[Minute].pc = "send" => post.status \in {"publishing", "deleted"}
    /\ worker[Minute].pc = "expire" => post.status \in Claimable \cup {"deleted"}

\* Any number of sweeps, when nothing fails: the claim lets one of them through, once.
Many ==
  NothingFails /\ ~overdue =>
    /\ \A c \in Channels :
         /\ live[c] <= 1
         /\ post.status \in Claimable => live[c] = 0
         /\ \A w \in Workers : worker[w].pc = "send" /\ c \in worker[w].todo => live[c] = 0
    /\ \A w \in Workers :
         /\ worker[w].pc # "expire"
         /\ post.status \in Claimable => worker[w].pc # "send"
         /\ \A v \in Workers : worker[w].pc = "send" /\ worker[v].pc = "send" => v = w

OnceInv == PostTypeOK /\ Traces /\ Alone /\ Many
\* What one send does: one network less to do, and of the four outcomes one.
LEMMA SendEffect ==
  ASSUME PostTypeOK, NEW w \in Workers, Send(w)
  PROVE  \E c \in Channels :
           /\ worker[w].pc = "send" /\ worker'[w].pc = "send"
           /\ c \in worker[w].todo /\ worker'[w].todo = worker[w].todo \ {c}
           /\ \A v \in Workers : v # w => worker'[v] = worker[v]
           /\ \A d \in Channels : d # c => live'[d] = live[d]
           /\ \/ /\ live'[c] = live[c] + 1
                 /\ worker'[w].results = worker[w].results \cup {c}
                 /\ worker'[w].wrong = worker[w].wrong /\ worker'[w].unsure = worker[w].unsure
              \/ /\ "error" \in may /\ live'[c] = live[c]
                 /\ worker'[w].results = worker[w].results
                 /\ worker'[w].wrong /\ worker'[w].unsure = worker[w].unsure
              \/ /\ "unsure" \in may /\ live'[c] \in {live[c], live[c] + 1}
                 /\ worker'[w].results = worker[w].results
                 /\ worker'[w].wrong = worker[w].wrong /\ worker'[w].unsure
           /\ UNCHANGED <<post, page, overdue, may>>
<1>1. worker[w] \in Work BY DEF PostTypeOK, Workers
<1>2. PICK c \in worker[w].todo :
         /\ worker[w].pc = "send"
         /\ \/ /\ live' = [live EXCEPT ![c] = @ + 1]
               /\ worker' = [worker EXCEPT ![w].todo = @ \ {c}, ![w].results = @ \cup {c}]
            \/ /\ "error" \in may
               /\ worker' = [worker EXCEPT ![w].todo = @ \ {c}, ![w].wrong = TRUE]
               /\ UNCHANGED live
            \/ /\ "unsure" \in may
               /\ worker' = [worker EXCEPT ![w].todo = @ \ {c}, ![w].unsure = TRUE]
               /\ live' = [live EXCEPT ![c] = @ + 1] \/ UNCHANGED live
         /\ UNCHANGED <<post, page, overdue, may>>
  BY DEF Send
<1>3. c \in Channels BY <1>1, WorkFields
<1>4. /\ c \in worker[w].todo /\ worker[w].pc = "send"
      /\ UNCHANGED <<post, page, overdue, may>>
      /\ \A v \in Workers : v # w => worker'[v] = worker[v]
      /\ \A d \in Channels : d # c => live'[d] = live[d]
  BY <1>2, <1>3 DEF PostTypeOK, Workers
<1>5. worker'[w].pc = "send" /\ worker'[w].todo = worker[w].todo \ {c}
  BY <1>1, <1>2 DEF PostTypeOK, Workers, Work, WorkRecord
<1>6. \/ /\ live'[c] = live[c] + 1
         /\ worker'[w].results = worker[w].results \cup {c}
         /\ worker'[w].wrong = worker[w].wrong /\ worker'[w].unsure = worker[w].unsure
      \/ /\ "error" \in may /\ live'[c] = live[c]
         /\ worker'[w].results = worker[w].results
         /\ worker'[w].wrong /\ worker'[w].unsure = worker[w].unsure
      \/ /\ "unsure" \in may /\ live'[c] \in {live[c], live[c] + 1}
         /\ worker'[w].results = worker[w].results
         /\ worker'[w].wrong = worker[w].wrong /\ worker'[w].unsure
  BY <1>1, <1>2, <1>3 DEF PostTypeOK, Workers, Work, WorkRecord
<1> QED BY <1>3, <1>4, <1>5, <1>6

\* What one claim does: all that was not read as done is to be sent, or nothing is.
LEMMA ClaimEffect ==
  ASSUME PostTypeOK, NEW w \in Workers, Claim(w)
  PROVE  /\ worker[w].pc = "claim"
         /\ \A v \in Workers : v # w => worker'[v] = worker[v]
         /\ UNCHANGED <<live, page, overdue, may>>
         /\ \/ /\ post.status \in Claimable /\ post'.status = "publishing"
               /\ post'.results = post.results
               /\ worker'[w].pc = "send" /\ worker'[w].todo = Channels \ worker[w].results
               /\ worker'[w].results = worker[w].results
               /\ worker'[w].wrong = worker[w].wrong /\ worker'[w].unsure = worker[w].unsure
            \/ worker'[w] = Rest /\ UNCHANGED post
<1>1. worker[w] \in Work BY DEF PostTypeOK, Workers
<1>2. CASE MayClaim
  <2>1. post'.status = "publishing" /\ post'.results = post.results
    BY <1>2 DEF Claim, PostTypeOK, Post
  <2>2. /\ worker'[w].pc = "send" /\ worker'[w].todo = Channels \ worker[w].results
        /\ worker'[w].results = worker[w].results
        /\ worker'[w].wrong = worker[w].wrong /\ worker'[w].unsure = worker[w].unsure
        /\ \A v \in Workers : v # w => worker'[v] = worker[v]
    BY <1>1, <1>2 DEF Claim, StillDue, PostTypeOK, Workers, Work, WorkRecord
  <2> QED BY <1>2, <2>1, <2>2 DEF Claim, MayClaim
<1>3. CASE ~MayClaim BY <1>3 DEF Claim, Ends, PostTypeOK, Workers
<1> QED BY <1>2, <1>3

\* What the end of a delivery writes: the networks it reached, and whether to come back.
LEMMA FinishEffect ==
  ASSUME PostTypeOK, NEW w \in Workers, FinishPost(w)
  PROVE  /\ worker[w].pc = "send" /\ worker[w].todo = {} /\ worker'[w] = Rest
         /\ \A v \in Workers : v # w => worker'[v] = worker[v]
         /\ UNCHANGED <<live, page, overdue, may>>
         /\ \/ post.status = "deleted" /\ UNCHANGED post
            \/ /\ post'.results = worker[w].results
               /\ post'.status \in {"scheduled", "failed", "posted"}
               /\ worker[w].unsure => post'.status = "failed"
               /\ post'.status = "posted" <=> ~worker[w].unsure /\ ~worker[w].wrong
<1>1. worker[w] \in Work BY DEF PostTypeOK, Workers
<1>2. /\ worker[w].pc = "send" /\ worker[w].todo = {} /\ Ends(w)
      /\ UNCHANGED <<live, page, overdue, may>>
  BY DEF FinishPost, Fail
<1>3. worker'[w] = Rest /\ \A v \in Workers : v # w => worker'[v] = worker[v]
  BY <1>2 DEF Ends, PostTypeOK, Workers
<1>4. CASE post.status = "deleted"
  BY <1>2, <1>3, <1>4 DEF FinishPost, Fail
<1>5. CASE post.status # "deleted" /\ Bad(worker[w])
  <2>1. post' = [post EXCEPT !.status = Failed(worker[w].attempts, Stops(worker[w])),
                             !.results = worker[w].results]
    BY <1>5 DEF FinishPost, Fail, Outcome
  <2>2. /\ Failed(worker[w].attempts, Stops(worker[w])) \in {"scheduled", "failed"}
        /\ worker[w].unsure => Failed(worker[w].attempts, Stops(worker[w])) = "failed"
    BY DEF Failed, Stops
  <2>3. /\ post'.results = worker[w].results
        /\ post'.status = Failed(worker[w].attempts, Stops(worker[w]))
    BY <2>1 DEF PostTypeOK, Post
  <2> QED BY <1>2, <1>3, <1>5, <2>2, <2>3 DEF Bad
<1>6. CASE post.status # "deleted" /\ ~Bad(worker[w])
  <2>1. post' = [post EXCEPT !.status = "posted", !.results = worker[w].results]
    BY <1>6 DEF FinishPost, Outcome
  <2>2. post'.results = worker[w].results /\ post'.status = "posted"
    BY <2>1 DEF PostTypeOK, Post
  <2> QED BY <1>2, <1>3, <1>6, <2>2 DEF Bad
<1> QED BY <1>4, <1>5, <1>6

LEMMA TracesInit == PostInit => Traces
BY DEF PostInit, Traces, Workers, Rest, Delivering

LEMMA TracesStep ==
  ASSUME PostTypeOK, Traces, [PostNext]_postVars
  PROVE  Traces'
<1>1. ASSUME NEW w \in Timers, Sweep(w) PROVE Traces'
  BY <1>1 DEF Sweep, Begins, Reads, Rest, Traces, Delivering, PostTypeOK, Workers
<1>2. ASSUME NEW w \in Workers, Expire(w) PROVE Traces'
  BY <1>2 DEF Expire, Ends, Rest, Traces, Delivering, PostTypeOK, Workers
<1>3. ASSUME NEW w \in Workers, PlanPost(w) PROVE Traces'
  BY <1>3 DEF PlanPost, Traces, Delivering, PostTypeOK, Workers
<1>4. ASSUME NEW w \in Workers, FailPlan(w) PROVE Traces'
  BY <1>4 DEF FailPlan, Fail, Ends, Rest, Traces, Delivering, PostTypeOK, Workers
<1>5. ASSUME NEW w \in Workers, Claim(w) PROVE Traces'
  BY <1>5, ClaimEffect DEF Rest, Traces, Delivering, PostTypeOK, Workers
<1>6. ASSUME NEW w \in Workers, Send(w) PROVE Traces'
  BY <1>6, SendEffect DEF Traces, Delivering, PostTypeOK, Workers
<1>7. ASSUME NEW w \in Workers, FinishPost(w) PROVE Traces'
  BY <1>7 DEF FinishPost, Fail, Ends, Rest, Traces, Delivering, PostTypeOK, Workers
<1>8. ASSUME NEW w \in Workers, Rearm(w) PROVE Traces'
  BY <1>8 DEF Rearm, Traces, Delivering, PostTypeOK, Workers
<1>9. ASSUME NEW w \in People, PressPostNow(w) PROVE Traces'
  BY <1>9 DEF PressPostNow, Reads, Rest, Traces, Delivering, PostTypeOK, Workers
<1>10. ASSUME NEW w \in People, BeginSave(w) PROVE Traces'
  BY <1>10 DEF BeginSave, Begins, Rest, Traces, Delivering, PostTypeOK, Workers
<1>11. ASSUME NEW w \in People, SavePost(w) PROVE Traces'
  BY <1>11 DEF SavePost, Ends, Rest, Traces, Delivering, PostTypeOK, Workers
<1>12. ASSUME NEW w \in People, BeginDelete(w) \/ DeletePost(w) PROVE Traces'
  BY <1>12 DEF BeginDelete, DeletePost, Begins, Ends, Rest, Traces, Delivering, PostTypeOK,
      Workers
<1>13. ASSUME Reschedule \/ CancelPost \/ Reconnect \/ GrowLate PROVE Traces'
  BY <1>13 DEF Reschedule, CancelPost, Reconnect, GrowLate, Traces, Delivering, PostTypeOK,
      Workers
<1>14. ASSUME RestartPosts PROVE Traces'
  BY <1>14 DEF RestartPosts, Rest, Traces, Delivering, PostTypeOK, Workers
<1>15. ASSUME UNCHANGED postVars PROVE Traces'
  BY <1>15 DEF postVars, Traces, Delivering, PostTypeOK, Workers
<1>16. ASSUME NEW w \in Workers, WorkerStep(w) PROVE Traces'
  BY <1>2, <1>3, <1>4, <1>5, <1>6, <1>7, <1>8, <1>16 DEF WorkerStep
<1> QED
  BY <1>1, <1>9, <1>10, <1>11, <1>12, <1>13, <1>14, <1>15, <1>16 DEF PostNext, Workers

LEMMA AloneStep ==
  ASSUME PostTypeOK, Traces, Alone, [PostNext]_postVars
  PROVE  Alone'
<1>1. ASSUME NEW w \in Timers, Sweep(w) PROVE Alone'
  BY <1>1 DEF Alone, OneSweep, Sweep, DueNow, Begins, Reads, Rest, PostTypeOK, Workers, Post,
      Armed, Claimable
<1>2. ASSUME NEW w \in Workers, Expire(w) PROVE Alone'
  BY <1>2 DEF Alone, OneSweep, Traces, Delivering, Expire, Ends, Rest, PostTypeOK, Workers,
      Post, Armed, Claimable
<1>3. ASSUME NEW w \in Workers, PlanPost(w) PROVE Alone'
  BY <1>3 DEF Alone, OneSweep, Traces, Delivering, PlanPost, PostTypeOK, Workers, Post, Armed,
      Claimable
<1>4. ASSUME NEW w \in Workers, FailPlan(w) PROVE Alone'
  BY <1>4 DEF Alone, OneSweep, Traces, FailPlan, Workers
<1>5. ASSUME NEW w \in Workers, Claim(w) PROVE Alone'
  BY <1>5, ClaimEffect DEF Alone, OneSweep, Traces, Delivering, Rest, PostTypeOK, Workers,
      Post, Armed, Claimable
<1>6. ASSUME NEW w \in Workers, Send(w) PROVE Alone'
  BY <1>6, SendEffect DEF Alone, OneSweep, Traces, Delivering, PostTypeOK, Workers, Post,
      Armed, Claimable
<1>7. ASSUME NEW w \in Workers, FinishPost(w) PROVE Alone'
  BY <1>7, FinishEffect DEF Alone, OneSweep, Traces, Delivering, Rest, PostTypeOK, Workers,
      Post, Armed, Claimable
<1>8. ASSUME NEW w \in Workers, Rearm(w) PROVE Alone'
  BY <1>8 DEF Alone, OneSweep, Traces, Rearm, Workers
<1>9. ASSUME NEW w \in People, PressPostNow(w) PROVE Alone'
  BY <1>9 DEF Alone, OneSweep, PressPostNow
<1>10. ASSUME NEW w \in People, BeginSave(w) \/ SavePost(w) PROVE Alone'
  BY <1>10 DEF Alone, OneSweep, Traces, BeginSave, SavePost, Workers
<1>11. ASSUME NEW w \in People, BeginDelete(w) \/ DeletePost(w) PROVE Alone'
  BY <1>11, PeopleAssumption DEF Alone, OneSweep, BeginDelete, DeletePost, Begins, Ends, Rest,
      PostTypeOK, Workers, Post, Armed, Claimable
<1>12. ASSUME Reschedule \/ CancelPost PROVE Alone'
  <2>1. /\ UNCHANGED <<live, worker, may>>
        /\ post.status \in Claimable
        /\ post'.results = post.results
        /\ post' = post \/ post'.status \in {"scheduled", "cancelled"}
        /\ post' = post \/ post'.status = "cancelled" \/ "reschedule" \in may
    BY <1>12 DEF Reschedule, CancelPost, Editable, Claimable, PostTypeOK, Post
  <2> SUFFICES ASSUME OneSweep PROVE Alone'
    BY <2>1 DEF Alone, OneSweep
  <2>2. worker[Minute].pc # "send" BY <2>1 DEF Alone, Claimable
  <2>3. post'.status \in Armed' => post.status \in Armed
    BY <2>1 DEF OneSweep, Armed, Claimable
  <2>4. worker[Minute].pc = "expire" => post'.status \in Claimable \cup {"deleted"}
    BY <2>1 DEF Claimable
  <2> QED BY <2>1, <2>2, <2>3, <2>4 DEF Alone
<1>13. ASSUME Reconnect \/ GrowLate PROVE Alone'
  BY <1>13 DEF Alone, OneSweep, Reconnect, GrowLate, Armed
<1>14. ASSUME RestartPosts PROVE Alone'
  <2>1. worker'[Minute] = Rest /\ UNCHANGED <<post, live, may>>
    BY <1>14, PeopleAssumption DEF RestartPosts, PostTypeOK
  <2>2. OneSweep /\ worker[Minute].pc = "send" => post.status \notin Armed
    BY DEF Alone, Armed, Claimable
  <2> QED BY <2>1, <2>2 DEF Alone, OneSweep, Rest, Armed
<1>15. ASSUME UNCHANGED postVars PROVE Alone'
  BY <1>15 DEF Alone, OneSweep, postVars, Armed
<1>16. ASSUME NEW w \in Workers, WorkerStep(w) PROVE Alone'
  BY <1>2, <1>3, <1>4, <1>5, <1>6, <1>7, <1>8, <1>16 DEF WorkerStep
<1> QED
  BY <1>1, <1>9, <1>10, <1>11, <1>12, <1>13, <1>14, <1>15, <1>16 DEF PostNext, Workers

LEMMA ManyStep ==
  ASSUME PostTypeOK, Traces, Many, [PostNext]_postVars
  PROVE  Many'
<1>1. ASSUME NEW w \in Timers, Sweep(w) PROVE Many'
  BY <1>1 DEF Many, Sweep, DueNow, Begins, Reads, Rest, NothingFails, PostTypeOK, Workers,
      Post, Claimable
<1>2. ASSUME NEW w \in Workers, Expire(w) PROVE Many'
  BY <1>2 DEF Many, Traces, Delivering, Expire, Ends, Rest, NothingFails, PostTypeOK, Workers,
      Post, Claimable
<1>3. ASSUME NEW w \in Workers, PlanPost(w) PROVE Many'
  BY <1>3 DEF Many, Traces, Delivering, PlanPost, NothingFails, PostTypeOK, Workers, Post,
      Claimable
<1>4. ASSUME NEW w \in Workers, FailPlan(w) PROVE Many'
  BY <1>4 DEF Many, NothingFails, Traces, FailPlan, Workers
<1>5. ASSUME NEW w \in Workers, Claim(w) PROVE Many'
  BY <1>5, ClaimEffect DEF Many, Traces, Delivering, Rest, NothingFails, PostTypeOK, Workers,
      Post, Claimable
<1>6. ASSUME NEW w \in Workers, Send(w) PROVE Many'
  BY <1>6, SendEffect DEF Many, Traces, Delivering, NothingFails, PostTypeOK, Workers, Post,
      Claimable
<1>7. ASSUME NEW w \in Workers, FinishPost(w) PROVE Many'
  BY <1>7, FinishEffect DEF Many, Traces, Delivering, Rest, NothingFails, PostTypeOK, Workers,
      Post, Claimable
<1>8. ASSUME NEW w \in Workers, Rearm(w) PROVE Many'
  BY <1>8 DEF Many, NothingFails, Traces, Rearm, Workers
<1>9. ASSUME NEW w \in People, PressPostNow(w) PROVE Many'
  BY <1>9 DEF Many, NothingFails, PressPostNow
<1>10. ASSUME NEW w \in People, BeginSave(w) \/ SavePost(w) PROVE Many'
  BY <1>10 DEF Many, NothingFails, Traces, BeginSave, SavePost, Workers
<1>11. ASSUME NEW w \in People, BeginDelete(w) \/ DeletePost(w) PROVE Many'
  BY <1>11, PeopleAssumption DEF Many, BeginDelete, DeletePost, Begins, Ends, Rest,
      NothingFails, PostTypeOK, Workers, Post, Claimable
<1>12. ASSUME Reschedule \/ CancelPost PROVE Many'
  BY <1>12 DEF Many, Reschedule, CancelPost, Editable, NothingFails, PostTypeOK, Workers,
      Post, Claimable
<1>13. ASSUME Reconnect \/ GrowLate PROVE Many'
  BY <1>13 DEF Many, Reconnect, GrowLate, NothingFails
<1>14. ASSUME RestartPosts PROVE Many'
  BY <1>14 DEF Many, RestartPosts, Rest, NothingFails, PostTypeOK, Workers, Post, Claimable
<1>15. ASSUME UNCHANGED postVars PROVE Many'
  BY <1>15 DEF Many, postVars, NothingFails
<1>16. ASSUME NEW w \in Workers, WorkerStep(w) PROVE Many'
  BY <1>2, <1>3, <1>4, <1>5, <1>6, <1>7, <1>8, <1>16 DEF WorkerStep
<1> QED
  BY <1>1, <1>9, <1>10, <1>11, <1>12, <1>13, <1>14, <1>15, <1>16 DEF PostNext, Workers

LEMMA OnceInit == PostInit => OnceInv
<1> SUFFICES ASSUME PostInit PROVE Alone /\ Many
  BY PostInitType, TracesInit DEF OnceInv
<1>1. Alone BY PeopleAssumption DEF PostInit, Alone, Rest, Workers
<1>2. Many BY DEF PostInit, Many, Rest, Workers
<1> QED BY <1>1, <1>2

LEMMA OnceStep == OnceInv /\ [PostNext]_postVars => OnceInv'
BY PostStepType, TracesStep, AloneStep, ManyStep DEF OnceInv

\* PostQueue: with one sweep alone, whatever fails, and with any number of sweeps, when
\* nothing does, each network has the post at most once.
THEOREM OnceCorrect == PostSpec => []OncePerChannel
<1>1. OnceInv => OncePerChannel
  BY DEF OnceInv, Alone, Many, OncePerChannel, PostTypeOK
<1> QED BY <1>1, OnceInit, OnceStep, PTL DEF PostSpec

-----------------------------------------------------------------------------
(* What the row says is so.  The networks a worker has in hand took the    *)
(* post, and a worker that met no error has every network done or to do.   *)

Delivered ==
  /\ \A c \in post.results : live[c] > 0
  /\ post.status = "posted" => \A c \in Channels : live[c] > 0
  /\ \A w \in Workers :
       /\ \A c \in worker[w].results : live[c] > 0
       /\ worker[w].pc = "send" =>
            \/ worker[w].wrong \/ worker[w].unsure
            \/ Channels \subseteq worker[w].results \cup worker[w].todo

\* A step on the row that brings no result, and does not call it posted.
Keeps ==
  /\ post'.results \subseteq post.results
  /\ post'.status = "posted" => post.status = "posted"

\* A step that sends nothing and finishes nothing.
LEMMA DeliveredKept ==
  ASSUME PostTypeOK, Delivered, live' = live, Keeps, NEW w \in Workers,
         \A v \in Workers : v # w => worker'[v] = worker[v],
         worker'[w].results \subseteq worker[w].results \cup post.results,
         worker'[w].pc # "send" \/ worker'[w] = worker[w]
  PROVE  Delivered'
<1>1. \A c \in post'.results : live'[c] > 0
  BY DEF Delivered, Keeps
<1>2. post'.status = "posted" => \A c \in Channels : live'[c] > 0
  BY DEF Delivered, Keeps
<1>3. ASSUME NEW v \in Workers
      PROVE  /\ \A c \in worker'[v].results : live'[c] > 0
             /\ worker'[v].pc = "send" =>
                  \/ worker'[v].wrong \/ worker'[v].unsure
                  \/ Channels \subseteq worker'[v].results \cup worker'[v].todo
  <2>1. CASE v = w BY <2>1 DEF Delivered
  <2>2. CASE v # w BY <2>2 DEF Delivered
  <2> QED BY <2>1, <2>2
<1> QED BY <1>1, <1>2, <1>3 DEF Delivered

LEMMA DeliveredInit == PostInit => Delivered
BY DEF PostInit, Delivered, Rest, Workers

\* What the beginning, the moving on and the end of a job do to its record.
LEMMA JobEffects ==
  ASSUME PostTypeOK, NEW w \in Workers
  PROVE  /\ \A pc : Begins(w, pc) =>
              /\ worker'[w].results = {} /\ worker'[w].pc = pc
              /\ \A v \in Workers : v # w => worker'[v] = worker[v]
         /\ Ends(w) =>
              /\ worker'[w] = Rest /\ Rest.results = {} /\ Rest.pc = "idle"
              /\ \A v \in Workers : v # w => worker'[v] = worker[v]
         /\ \A pc : \A attempts : Reads(w, pc, attempts) =>
              /\ worker'[w].results = post.results /\ worker'[w].pc = pc
              /\ \A v \in Workers : v # w => worker'[v] = worker[v]
         /\ \A pc : worker' = [worker EXCEPT ![w].pc = pc] =>
              /\ worker'[w].results = worker[w].results /\ worker'[w].pc = pc
              /\ \A v \in Workers : v # w => worker'[v] = worker[v]
<1>1. worker \in [Workers -> WorkRecord] BY DEF PostTypeOK, Workers, Work
<1>2. ASSUME NEW pc, Begins(w, pc)
      PROVE  /\ worker'[w].results = {} /\ worker'[w].pc = pc
             /\ \A v \in Workers : v # w => worker'[v] = worker[v]
  BY <1>1, <1>2 DEF Begins, Rest, WorkRecord
<1>3. ASSUME Ends(w)
      PROVE  /\ worker'[w] = Rest /\ Rest.results = {} /\ Rest.pc = "idle"
             /\ \A v \in Workers : v # w => worker'[v] = worker[v]
  BY <1>1, <1>3 DEF Ends, Rest
<1>4. ASSUME NEW pc, NEW attempts, Reads(w, pc, attempts)
      PROVE  /\ worker'[w].results = post.results /\ worker'[w].pc = pc
             /\ \A v \in Workers : v # w => worker'[v] = worker[v]
  BY <1>1, <1>4 DEF Reads, Rest, WorkRecord
<1>5. ASSUME NEW pc, worker' = [worker EXCEPT ![w].pc = pc]
      PROVE  /\ worker'[w].results = worker[w].results /\ worker'[w].pc = pc
             /\ \A v \in Workers : v # w => worker'[v] = worker[v]
  BY <1>1, <1>5 DEF WorkRecord
<1> QED BY <1>2, <1>3, <1>4, <1>5

\* A failed plan writes no result, and never "posted".
LEMMA FailKeeps ==
  ASSUME PostTypeOK, NEW w \in Workers, Fail(w, {}, FALSE)
  PROVE  Keeps
BY DEF PostTypeOK, Post, Claimable, Fail, Failed, Keeps

LEMMA DeliveredStep ==
  ASSUME PostTypeOK, Delivered, [PostNext]_postVars
  PROVE  Delivered'
<1>0. post \in Post /\ live \in [Channels -> Nat] /\ worker \in [Workers -> Work]
  BY DEF PostTypeOK, Workers
<1>1. ASSUME NEW w \in Timers, Sweep(w) PROVE Delivered'
  <2>1. w \in Workers BY DEF Workers
  <2>2. live' = live /\ Keeps BY <1>1 DEF Sweep, Keeps
  <2>3. Begins(w, "expire") \/ Reads(w, "deliver", post.attempts) BY <1>1 DEF Sweep
  <2> QED BY <2>1, <2>2, <2>3, JobEffects, DeliveredKept
<1>2. ASSUME NEW w \in Workers, Expire(w) \/ PlanPost(w) \/ FailPlan(w) \/ Rearm(w)
      PROVE  Delivered'
  <2>1. live' = live BY <1>2 DEF Expire, PlanPost, FailPlan, Rearm
  <2>2. Keeps
    BY <1>0, <1>2, FailKeeps DEF Expire, PlanPost, FailPlan, Rearm, Keeps, Post, Claimable
  <2>3. \/ Ends(w)
        \/ \E pc \in {"claim", "noPage", "deliver"} : worker' = [worker EXCEPT ![w].pc = pc]
    BY <1>2 DEF Expire, PlanPost, FailPlan, Rearm, Fail
  <2> QED BY <2>1, <2>2, <2>3, JobEffects, DeliveredKept
<1>3. ASSUME NEW w \in Workers, Claim(w) PROVE Delivered'
  <2>1. worker[w].results \subseteq Channels
    BY <1>0, WorkFields
  <2> QED
    BY <1>0, <1>3, <2>1, ClaimEffect DEF Delivered, Rest
<1>4. ASSUME NEW w \in Workers, Send(w) PROVE Delivered'
  <2>1. PICK c \in Channels :
          /\ worker'[w].pc = "send" /\ worker[w].pc = "send"
          /\ worker'[w].todo = worker[w].todo \ {c}
          /\ \A v \in Workers : v # w => worker'[v] = worker[v]
          /\ \A d \in Channels : d # c => live'[d] = live[d]
          /\ \/ /\ live'[c] = live[c] + 1
                /\ worker'[w].results = worker[w].results \cup {c}
                /\ worker'[w].wrong = worker[w].wrong /\ worker'[w].unsure = worker[w].unsure
             \/ /\ live'[c] \in {live[c], live[c] + 1}
                /\ worker'[w].results = worker[w].results
                /\ worker'[w].wrong \/ worker'[w].unsure
          /\ post' = post
    BY <1>4, SendEffect
  <2>2. \A d \in Channels : live[d] > 0 => live'[d] > 0
    BY <1>0, <2>1
  <2>3. \A v \in Workers : worker[v].results \subseteq Channels
    BY <1>0, WorkFields
  <2>4. live[c] + 1 > 0
    BY <1>0
  <2>5. \A d \in worker'[w].results : live'[d] > 0
    BY <2>1, <2>2, <2>3, <2>4 DEF Delivered
  <2>6. \/ worker'[w].wrong \/ worker'[w].unsure
        \/ Channels \subseteq worker'[w].results \cup worker'[w].todo
    BY <2>1 DEF Delivered
  <2>7. post.results \subseteq Channels
    BY <1>0 DEF Post
  <2>8. ASSUME NEW v \in Workers
        PROVE  /\ \A d \in worker'[v].results : live'[d] > 0
               /\ worker'[v].pc = "send" =>
                    \/ worker'[v].wrong \/ worker'[v].unsure
                    \/ Channels \subseteq worker'[v].results \cup worker'[v].todo
    <3>1. CASE v = w BY <2>5, <2>6, <3>1
    <3>2. CASE v # w BY <2>1, <2>2, <2>3, <3>2 DEF Delivered
    <3> QED BY <3>1, <3>2
  <2> QED BY <2>1, <2>2, <2>7, <2>8 DEF Delivered
<1>5. ASSUME NEW w \in Workers, FinishPost(w) PROVE Delivered'
  <2>1. /\ worker[w].pc = "send" /\ worker[w].todo = {} /\ worker'[w] = Rest
        /\ \A v \in Workers : v # w => worker'[v] = worker[v]
        /\ live' = live
        /\ \/ post' = post
           \/ /\ post'.results = worker[w].results
              /\ post'.status = "posted" <=> ~worker[w].unsure /\ ~worker[w].wrong
    BY <1>5, FinishEffect
  <2>2. (\A c \in post'.results : live'[c] > 0)
        /\ (post'.status = "posted" => \A c \in Channels : live'[c] > 0)
    BY <2>1 DEF Delivered
  <2>3. Rest.results = {} /\ Rest.pc = "idle"
    BY DEF Rest
  <2> QED BY <2>1, <2>2, <2>3 DEF Delivered
<1>6. ASSUME NEW w \in People,
             \/ PressPostNow(w) \/ BeginSave(w) \/ SavePost(w) \/ BeginDelete(w) \/ DeletePost(w)
      PROVE  Delivered'
  <2>1. w \in Workers /\ live' = live
    BY <1>6 DEF Workers, PressPostNow, BeginSave, SavePost, BeginDelete, DeletePost
  <2>2. Keeps
    BY <1>0, <1>6 DEF PressPostNow, BeginSave, SavePost, BeginDelete, DeletePost, Keeps, Post
  <2>3. \/ Reads(w, "rearm", 0) \/ Ends(w)
        \/ Begins(w, "save") \/ Begins(w, "stage") \/ Begins(w, "remove")
    BY <1>6 DEF PressPostNow, BeginSave, SavePost, BeginDelete, DeletePost
  <2> QED BY <2>1, <2>2, <2>3, JobEffects, DeliveredKept
<1>7. ASSUME Reschedule \/ CancelPost \/ Reconnect \/ GrowLate \/ UNCHANGED postVars
      PROVE  Delivered'
  <2>1. UNCHANGED <<live, worker>> /\ Keeps
    BY <1>0, <1>7 DEF Reschedule, CancelPost, Reconnect, GrowLate, postVars, Keeps, Post
  <2> QED BY <2>1 DEF Delivered, Keeps
<1>8. ASSUME RestartPosts PROVE Delivered'
  BY <1>8 DEF RestartPosts, Rest, Delivered, PostTypeOK, Workers
<1> QED
  BY <1>1, <1>2, <1>3, <1>4, <1>5, <1>6, <1>7, <1>8 DEF PostNext, WorkerStep, Workers

\* Whatever sweeps, people, networks and restarts do, a post the row calls posted is up
\* on every network, and every result the row holds is of a network that took the post.
LEMMA ResultsCorrect == PostSpec => []ResultsAreLive
<1>1. Delivered => ResultsAreLive
  BY DEF Delivered, ResultsAreLive
<1>2. PostTypeOK /\ Delivered /\ [PostNext]_postVars => Delivered'
  BY DeliveredStep
<1> QED BY <1>1, <1>2, DeliveredInit, PostTypeCorrect, PTL DEF PostSpec

-----------------------------------------------------------------------------
(* The row knows every network the post is up on, once the sweep is over,  *)
(* where one sweep alone works and each network answers.                   *)

Quiet == may \cap {"page", "two", "unsure", "restart", "now", "save", "delete"} = {}

\* The one sweep: before it sends, what it read is what the row holds, and all there is;
\* while it sends, what the row does not hold yet, it has in hand.
RowKnows ==
  Quiet =>
    /\ page /\ post.status # "deleted"
    /\ \A w \in Workers : w # Minute => worker[w] = Rest
    /\ worker[Minute].pc \in {"idle", "expire", "deliver", "claim", "send"}
    /\ worker[Minute].pc \in {"deliver", "claim"} => worker[Minute].results = post.results
    /\ \A c \in Channels : live[c] > 0 =>
         IF worker[Minute].pc = "send" THEN c \in worker[Minute].results
                                       ELSE c \in post.results

LEMMA RowKnowsInit == PostInit => RowKnows
BY PeopleAssumption DEF PostInit, RowKnows, Workers, Rest

LEMMA RowKnowsStep ==
  ASSUME PostTypeOK, RowKnows, [PostNext]_postVars
  PROVE  RowKnows'
<1> SUFFICES ASSUME Quiet' PROVE RowKnows'
  BY DEF RowKnows
<1>a. may' = may
  BY DEF PostNext, postVars, Sweep, WorkerStep, Expire, PlanPost, FailPlan, Claim, Send,
         FinishPost, Rearm, PressPostNow, BeginSave, SavePost, BeginDelete, DeletePost,
         Reschedule, CancelPost, Reconnect, GrowLate, RestartPosts
<1>b. Quiet
  BY <1>a DEF Quiet
<1>c. /\ page /\ post.status # "deleted"
      /\ \A w \in Workers : w # Minute => worker[w] = Rest
      /\ worker[Minute].pc \in {"idle", "expire", "deliver", "claim", "send"}
      /\ worker[Minute].pc \in {"deliver", "claim"} => worker[Minute].results = post.results
      /\ \A c \in Channels : live[c] > 0 =>
           IF worker[Minute].pc = "send" THEN c \in worker[Minute].results
                                         ELSE c \in post.results
  BY <1>b DEF RowKnows
<1>d. Minute \in Workers /\ Minute \notin People
      /\ post \in Post /\ worker \in [Workers -> Work]
  BY PeopleAssumption DEF Workers, PostTypeOK
<1>e. Rest.pc = "idle"
  BY DEF Rest
<1>f. ASSUME NEW w \in Workers, worker[w].pc # "idle" PROVE w = Minute
  BY <1>c, <1>e, <1>f
<1>1. ASSUME NEW w \in Timers, Sweep(w) PROVE RowKnows'
  <2>1. w = Minute /\ UNCHANGED <<post, live, page>>
    BY <1>1, <1>b DEF Sweep, Quiet
  <2>2. worker[Minute] = Rest /\ (Begins(w, "expire") \/ Reads(w, "deliver", post.attempts))
    BY <1>1, <2>1 DEF Sweep, Begins, Reads
  <2>3. /\ worker'[Minute].pc \in {"expire", "deliver"}
        /\ worker'[Minute].pc = "deliver" => worker'[Minute].results = post.results
        /\ \A v \in Workers : v # Minute => worker'[v] = worker[v]
    BY <1>d, <2>1, <2>2, JobEffects
  <2> QED BY <1>c, <1>e, <2>1, <2>2, <2>3 DEF RowKnows
<1>2. ASSUME NEW w \in Workers, Expire(w) PROVE RowKnows'
  <2>1. w = Minute /\ worker[Minute].pc = "expire" BY <1>2, <1>f DEF Expire
  <2>2. /\ worker'[Minute] = Rest /\ (\A v \in Workers : v # Minute => worker'[v] = worker[v])
        /\ UNCHANGED <<live, page>>
    BY <1>2, <1>d, <2>1, JobEffects DEF Expire
  <2>3. post'.results = post.results /\ post'.status = "expired"
    BY <1>2, <1>c, <1>d DEF Expire, Post
  <2> QED BY <1>c, <1>e, <2>1, <2>2, <2>3 DEF RowKnows
<1>3. ASSUME NEW w \in Workers, PlanPost(w) PROVE RowKnows'
  <2>1. w = Minute /\ worker[Minute].pc = "deliver" BY <1>3, <1>f DEF PlanPost
  <2>2. worker' = [worker EXCEPT ![Minute].pc = "claim"] /\ UNCHANGED <<post, live, page>>
    BY <1>3, <1>c, <2>1 DEF PlanPost
  <2>3. /\ worker'[Minute].pc = "claim" /\ worker'[Minute].results = worker[Minute].results
        /\ \A v \in Workers : v # Minute => worker'[v] = worker[v]
    BY <1>d, <2>2, JobEffects
  <2> QED BY <1>c, <2>1, <2>2, <2>3 DEF RowKnows
<1>4. ASSUME NEW w \in Workers, FailPlan(w) \/ Rearm(w) PROVE RowKnows'
  BY <1>4, <1>c, <1>f DEF FailPlan, Rearm
<1>5. ASSUME NEW w \in Workers, Claim(w) PROVE RowKnows'
  <2>1. w = Minute /\ worker[Minute].pc = "claim" BY <1>5, <1>f DEF Claim
  <2>2. /\ UNCHANGED <<live, page>> /\ (\A v \in Workers : v # Minute => worker'[v] = worker[v])
        /\ \/ /\ post'.status = "publishing" /\ post'.results = post.results
              /\ worker'[Minute].pc = "send" /\ worker'[Minute].results = worker[Minute].results
           \/ worker'[Minute] = Rest /\ UNCHANGED post
    BY <1>5, <2>1, ClaimEffect
  <2> QED BY <1>c, <1>e, <2>1, <2>2 DEF RowKnows
<1>6. ASSUME NEW w \in Workers, Send(w) PROVE RowKnows'
  <2>1. w = Minute BY <1>6, <1>f DEF Send
  <2>2. PICK c \in Channels :
          /\ worker[Minute].pc = "send" /\ worker'[Minute].pc = "send"
          /\ \A v \in Workers : v # Minute => worker'[v] = worker[v]
          /\ \A d \in Channels : d # c => live'[d] = live[d]
          /\ \/ worker'[Minute].results = worker[Minute].results \cup {c}
             \/ live'[c] = live[c] /\ worker'[Minute].results = worker[Minute].results
          /\ UNCHANGED <<post, page>>
    BY <1>6, <1>b, <2>1, SendEffect DEF Quiet
  <2> QED BY <1>c, <2>2 DEF RowKnows
<1>7. ASSUME NEW w \in Workers, FinishPost(w) PROVE RowKnows'
  <2>1. w = Minute BY <1>7, <1>f DEF FinishPost
  <2>2. /\ worker[Minute].pc = "send" /\ worker'[Minute] = Rest
        /\ \A v \in Workers : v # Minute => worker'[v] = worker[v]
        /\ UNCHANGED <<live, page>>
        /\ post'.results = worker[Minute].results
        /\ post'.status \in {"scheduled", "failed", "posted"}
    BY <1>7, <1>c, <2>1, FinishEffect
  <2> QED BY <1>c, <1>e, <2>2 DEF RowKnows
<1>8. ASSUME NEW w \in People,
             \/ PressPostNow(w) \/ BeginSave(w) \/ SavePost(w) \/ BeginDelete(w) \/ DeletePost(w)
      PROVE  RowKnows'
  <2>1. worker[w] = Rest BY <1>c, <1>d DEF Workers
  <2> QED BY <1>8, <1>b, <1>e, <2>1
             DEF Quiet, PressPostNow, BeginSave, SavePost, BeginDelete, DeletePost
<1>9. ASSUME Reschedule \/ CancelPost \/ GrowLate \/ UNCHANGED postVars PROVE RowKnows'
  <2>1. /\ UNCHANGED <<live, page, worker>> /\ post'.results = post.results
        /\ post'.status # "deleted"
    BY <1>9, <1>c, <1>d DEF Reschedule, CancelPost, GrowLate, postVars, Post
  <2> QED BY <1>c, <2>1 DEF RowKnows
<1>10. ~Reconnect /\ ~RestartPosts
  BY <1>b DEF Reconnect, RestartPosts, Quiet
<1> QED
  BY <1>1, <1>2, <1>3, <1>4, <1>5, <1>6, <1>7, <1>8, <1>9, <1>10
     DEF PostNext, WorkerStep, Workers

\* The row of a post never calls a network live that is not, whoever works on it; and with
\* one sweep, networks that answer and nobody editing or deleting the post, there is no "live
\* post nobody knows of", however often a delivery fails and is taken up again, cancelled or
\* moved.
THEOREM RowCorrect == PostSpec => []RowTellsWhatIsUp
<1>1. RowKnows => NothingUnrecorded
  BY PeopleAssumption DEF RowKnows, NothingUnrecorded, Quiet, AtRest, Rest
<1>2. PostTypeOK /\ RowKnows /\ [PostNext]_postVars => RowKnows'
  BY RowKnowsStep
<1>3. PostSpec => []NothingUnrecorded
  BY <1>1, <1>2, RowKnowsInit, PostTypeCorrect, PTL DEF PostSpec
<1>4. ResultsAreLive /\ NothingUnrecorded => RowTellsWhatIsUp
  BY DEF RowTellsWhatIsUp
<1> QED BY <1>3, <1>4, ResultsCorrect, PTL
=============================================================================
