------------------------- MODULE CompileServiceProofs -------------------------
(***************************************************************************)
(* Proofs of what a call of compile() buys and returns, for any number of      *)
(* calls, retries and tolerated poll failures.                                 *)
(***************************************************************************)
EXTENDS CompileService, TLAPS

CallRec == [pc : {"new", "post", "poll", "returned", "raised"},
            attempt : 0..CompileRetries, failures : 0..MaxPollFailures, late : BOOLEAN]

\* What a call has bought by each place: a synchronous call at most one compile
\* for each attempt behind it, a finetune call none while it submits.
Paid(c) ==
  /\ bought[c] <= IF c \in Finetune THEN 1 ELSE 1 + call[c].attempt
  /\ At(c, "new") => bought[c] = 0 /\ call[c].attempt = 0
  /\ At(c, "post") => bought[c] <= IF c \in Finetune THEN 0 ELSE call[c].attempt
PaidInv == \A c \in Call : Paid(c)

\* A call has a job from its acceptance on, and while it polls its count is of the failures
\* since the last answer.
Polls(c) ==
  /\ At(c, "new") \/ At(c, "post") =>
       job[c] = "none" /\ call[c].failures = 0 /\ heard[c] = [answer |-> NotYet, failed |-> 0]
  /\ At(c, "poll") => job[c] # "none" /\ heard[c].failed = call[c].failures
PollsInv == \A c \in Call : Polls(c)

\* What GivenUpForCause says of one call.
Kept(c) ==
  job[c] # "none" =>
    LET answer == heard[c].answer IN
    /\ At(c, "returned") => job[c] = "done"
    /\ At(c, "raised") =>
         \/ answer.word \in {"refused", "failed"}
         \/ answer.error /\ ~answer.program
         \/ heard[c].failed > MaxPollFailures
         \/ call[c].late /\ ~(answer.program /\ (answer.word = "success" \/ answer.completed))
\* While it polls, the last answer was none to return on.
Waits(c) ==
  At(c, "poll") =>
    LET answer == heard[c].answer IN
    ~(answer.program /\ (answer.word = "success" \/ answer.completed))
KeptInv == \A c \in Call : Kept(c) /\ Waits(c)

Inv == TypeOK /\ PaidInv /\ PollsInv /\ KeptInv

-----------------------------------------------------------------------------

LEMMA InitInv == Init => Inv
  BY ServiceAssumption DEF Init, Inv, TypeOK, Report, NotYet, PaidInv, Paid, PollsInv, Polls, KeptInv, Kept, Waits, At, NewCall, JobState

\* Retry leaves the call in its submission with one more attempt behind it, or
\* ends it.
LEMMA RetryMoves ==
  ASSUME TypeOK, NEW c \in Call, At(c, "post"), Retry(c)
  PROVE  /\ call' \in [Call -> CallRec]
         /\ \A d \in Call \ {c} : call'[d] = call[d]
         /\ \/ At(c, "post")' /\ call'[c].attempt = call[c].attempt + 1
            \/ At(c, "raised")' /\ call'[c].attempt = call[c].attempt
  BY ServiceAssumption DEF Retry, TypeOK, CallRec, At

\* A submission that buys nothing or one compile.
LEMMA ReachedBuys ==
  ASSUME TypeOK, NEW c \in Call, Reached(c)
  PROVE  /\ bought' \in [Call -> Nat]
         /\ \A d \in Call \ {c} : bought'[d] = bought[d]
         /\ bought'[c] <= bought[c] + 1
  BY DEF Reached, TypeOK

\* A retry keeps the invariant when what it has cost is one compile at most, and
\* nothing for a finetune call.
LEMMA RetryInv ==
  ASSUME Inv, NEW c \in Call, At(c, "post"), Retry(c), UNCHANGED <<job, heard>>,
         bought' \in [Call -> Nat], \A d \in Call \ {c} : bought'[d] = bought[d],
         bought'[c] <= bought[c] + 1, c \in Finetune => bought'[c] = bought[c]
  PROVE  Inv'
  <1>1. /\ call' \in [Call -> CallRec]
        /\ \A d \in Call \ {c} : call'[d] = call[d]
        /\ \/ At(c, "post")' /\ call'[c].attempt = call[c].attempt + 1
           \/ At(c, "raised")' /\ call'[c].attempt = call[c].attempt
    BY RetryMoves DEF Inv
  <1>2. TypeOK'
    BY <1>1 DEF Inv, TypeOK, CallRec
  <1>3. ASSUME NEW d \in Call, d # c PROVE Paid(d)'
    BY <1>1, <1>3 DEF Inv, PaidInv, Paid, At
  <1>4. Paid(c)'
    <2>1. call[c].attempt \in Nat /\ bought[c] \in Nat /\ bought'[c] \in Nat
      BY DEF Inv, TypeOK
    <2>2. bought[c] <= IF c \in Finetune THEN 0 ELSE call[c].attempt
      BY DEF Inv, PaidInv, Paid
    <2>3. call'[c].pc # "new"
      BY <1>1 DEF At
    <2> QED BY <1>1, <2>1, <2>2, <2>3 DEF Paid, At
  <1>5. ASSUME NEW d \in Call, d # c PROVE Polls(d)' /\ Kept(d)' /\ Waits(d)'
    BY <1>1, <1>5 DEF Inv, PollsInv, Polls, KeptInv, Kept, Waits, At
  <1>6. job[c] = "none" /\ call[c].failures = 0 /\ heard[c] = [answer |-> NotYet, failed |-> 0]
    BY DEF Inv, PollsInv, Polls
  <1>7. call'[c].failures = call[c].failures /\ (At(c, "post")' \/ At(c, "raised")')
    BY <1>1 DEF Retry, Inv, TypeOK, At
  <1>8. Polls(c)' /\ Kept(c)' /\ Waits(c)'
    BY <1>6, <1>7 DEF Polls, Kept, Waits, At
  <1> QED BY <1>2, <1>3, <1>4, <1>5, <1>8 DEF Inv, PaidInv, PollsInv, KeptInv

\* A submission that is over, or has not begun, has heard nothing of a job.
LEMMA SubmissionEnds ==
  ASSUME Inv, NEW c \in Call, At(c, "new") \/ At(c, "post"),
         NEW pc \in {"post", "poll", "returned", "raised"}, Goto(c, pc), heard' = heard,
         NEW j \in JobState, job' = [job EXCEPT ![c] = j], j = "none" <=> pc # "poll",
         bought' \in [Call -> Nat], \A d \in Call \ {c} : bought'[d] = bought[d],
         bought'[c] <= bought[c] + 1, pc = "post" => bought'[c] = 0 /\ call[c].attempt = 0
  PROVE  Inv'
  <1>1. TypeOK'
    BY DEF Inv, TypeOK, Goto
  <1>2. /\ call'[c].pc = pc /\ call'[c].attempt = call[c].attempt /\ call'[c].failures = call[c].failures
        /\ job'[c] = j /\ \A d \in Call \ {c} : call'[d] = call[d] /\ job'[d] = job[d]
    BY DEF Inv, TypeOK, Goto
  <1>3. job[c] = "none" /\ call[c].failures = 0 /\ heard[c] = [answer |-> NotYet, failed |-> 0]
    BY DEF Inv, PollsInv, Polls
  <1>4. ASSUME NEW d \in Call, d # c PROVE Paid(d)' /\ Polls(d)' /\ Kept(d)' /\ Waits(d)'
    BY <1>2, <1>4 DEF Inv, PaidInv, Paid, PollsInv, Polls, KeptInv, Kept, Waits, At
  <1>5. Paid(c)'
    <2>1. bought[c] \in Nat /\ bought'[c] \in Nat /\ call[c].attempt \in 0..CompileRetries
      BY DEF Inv, TypeOK
    <2>2. bought[c] <= IF c \in Finetune THEN 0 ELSE call[c].attempt
      BY <2>1 DEF Inv, PaidInv, Paid
    <2> QED BY <1>2, <2>1, <2>2 DEF Paid, At
  <1>6. Polls(c)' /\ Kept(c)'
    BY <1>2, <1>3 DEF Polls, Kept, At
  <1>7. Waits(c)'
    BY <1>3 DEF Waits, NotYet
  <1> QED BY <1>1, <1>4, <1>5, <1>6, <1>7 DEF Inv, PaidInv, PollsInv, KeptInv

LEMMA BeginInv ==
  ASSUME Inv, NEW c \in Call, Begin(c)
  PROVE  Inv'
  <1>1. PICK pc \in {"post", "raised"} : Goto(c, pc)
    BY DEF Begin
  <1>2. job' = [job EXCEPT ![c] = "none"] /\ bought'[c] = 0 /\ call[c].attempt = 0 /\ bought' = bought
    BY DEF Begin, Inv, TypeOK, PollsInv, Polls, PaidInv, Paid
  <1>3. bought \in [Call -> Nat] /\ "none" \in JobState
    BY DEF Inv, TypeOK, JobState
  <1>4. At(c, "new") /\ heard' = heard /\ bought'[c] <= bought[c] + 1
    BY <1>2, <1>3 DEF Begin
  <1>5. pc \in {"post", "poll", "returned", "raised"} /\ pc # "poll" /\ bought' \in [Call -> Nat]
    BY <1>2, <1>3
  <1>6. \A d \in Call \ {c} : bought'[d] = bought[d]
    BY <1>2
  <1> QED BY <1>1, <1>2, <1>3, <1>4, <1>5, <1>6, SubmissionEnds

LEMMA SubmitInv ==
  ASSUME Inv, NEW c \in Call, Submit(c)
  PROVE  Inv'
  <1>0. /\ job[c] = "none" /\ job = [job EXCEPT ![c] = "none"] /\ "none" \in JobState /\ "open" \in JobState
        /\ bought \in [Call -> Nat] /\ bought[c] <= bought[c] + 1
    BY DEF Submit, Unreachable, TimesOut, ServerError, Refused, Answered, Inv, TypeOK, PollsInv, Polls, JobState
  <1>1. CASE Unreachable(c)
    BY <1>0, <1>1, RetryInv DEF Unreachable
  <1>2. CASE TimesOut(c)
    BY <1>0, <1>2, ReachedBuys, SubmissionEnds DEF TimesOut, Inv
  <1>3. CASE ServerError(c)
    <2>1. CASE c \in Finetune
      BY <1>0, <1>3, <2>1, ReachedBuys, SubmissionEnds DEF ServerError, Inv
    <2>2. CASE c \notin Finetune
      BY <1>3, <2>2, ReachedBuys, RetryInv DEF ServerError, Inv
    <2> QED BY <2>1, <2>2
  <1>4. CASE Refused(c)
    BY <1>0, <1>4, SubmissionEnds DEF Refused
  <1>5. CASE Answered(c)
    <2>0. /\ At(c, "post") /\ Reached(c) /\ heard' = heard
          /\ \/ Goto(c, "raised") /\ job' = job
             \/ c \notin Finetune /\ Goto(c, "returned") /\ job' = job
             \/ c \in Finetune /\ Goto(c, "poll") /\ job' = [job EXCEPT ![c] = "open"]
      BY <1>5 DEF Answered
    <2>1. CASE Goto(c, "raised") /\ job' = job
      BY <1>0, <2>0, <2>1, ReachedBuys, SubmissionEnds DEF Inv
    <2>2. CASE c \notin Finetune /\ Goto(c, "returned") /\ job' = job
      BY <1>0, <2>0, <2>2, ReachedBuys, SubmissionEnds DEF Inv
    <2>3. CASE c \in Finetune /\ Goto(c, "poll") /\ job' = [job EXCEPT ![c] = "open"]
      BY <1>0, <2>0, <2>3, ReachedBuys, SubmissionEnds DEF Inv
    <2> QED BY <2>0, <2>1, <2>2, <2>3
  <1> QED BY <1>1, <1>2, <1>3, <1>4, <1>5 DEF Submit

\* A poll that ends the call, by what it has heard.
LEMMA PollEndsInv ==
  ASSUME Inv, NEW c \in Call, At(c, "poll"), NEW pc \in {"returned", "raised"}, Goto(c, pc),
         NEW j \in JobState \ {"none"}, job' = [job EXCEPT ![c] = j], bought' = bought,
         NEW h \in [answer : Report, failed : 0..(MaxPollFailures + 1)], heard' = [heard EXCEPT ![c] = h],
         Kept(c)'
  PROVE  Inv'
  <1>1. TypeOK'
    BY DEF Inv, TypeOK, Goto
  <1>2. At(c, pc)' /\ \A d \in Call \ {c} : call'[d] = call[d] /\ job'[d] = job[d] /\ heard'[d] = heard[d]
    BY DEF Inv, TypeOK, Goto, At
  <1>3. PaidInv'
    BY DEF Goto, At, Inv, TypeOK, PaidInv, Paid
  <1>4. ASSUME NEW d \in Call, d # c PROVE Polls(d)' /\ Kept(d)' /\ Waits(d)'
    BY <1>2, <1>4 DEF Inv, PollsInv, Polls, KeptInv, Kept, Waits, At
  <1>5. Polls(c)' /\ Waits(c)'
    BY <1>2 DEF Polls, Waits, At
  <1> QED BY <1>1, <1>3, <1>4, <1>5 DEF Inv, PollsInv, KeptInv

\* One that does not end it: the count it goes on with is of the failures since the answer
\* it has heard, which was none to return on.
LEMMA PollOnInv ==
  ASSUME Inv, NEW c \in Call, At(c, "poll"), NEW n \in 0..MaxPollFailures, PollOn(c, n), bought' = bought,
         NEW r \in Report, heard' = [heard EXCEPT ![c] = [answer |-> r, failed |-> n]],
         ~(r.program /\ (r.word = "success" \/ r.completed))
  PROVE  Inv'
  <1>1. TypeOK'
    <2>1. n \in 0..(MaxPollFailures + 1)
      BY ServiceAssumption
    <2>2. [answer |-> r, failed |-> n] \in [answer : Report, failed : 0..(MaxPollFailures + 1)]
      BY <2>1
    <2>3. heard' \in [Call -> [answer : Report, failed : 0..(MaxPollFailures + 1)]]
      BY <2>2 DEF Inv, TypeOK
    <2>4. call' \in [Call -> CallRec]
      BY DEF Inv, TypeOK, PollOn, CallRec
    <2> QED BY <2>3, <2>4 DEF Inv, TypeOK, PollOn, CallRec
  <1>2. /\ At(c, "poll")' /\ call'[c].failures = n /\ heard'[c] = [answer |-> r, failed |-> n]
        /\ job' = job /\ job[c] # "none"
        /\ \A d \in Call \ {c} : call'[d] = call[d] /\ heard'[d] = heard[d]
    BY DEF Inv, TypeOK, PollOn, At, PollsInv, Polls
  <1>3. PaidInv'
    BY DEF PollOn, At, Inv, TypeOK, PaidInv, Paid
  <1>4. ASSUME NEW d \in Call, d # c PROVE Polls(d)' /\ Kept(d)' /\ Waits(d)'
    BY <1>2, <1>4 DEF Inv, PollsInv, Polls, KeptInv, Kept, Waits, At
  <1>5. Polls(c)' /\ Kept(c)' /\ Waits(c)'
    BY <1>2 DEF Polls, Kept, Waits, At
  <1> QED BY <1>1, <1>3, <1>4, <1>5 DEF Inv, PollsInv, KeptInv

LEMMA GiveUpInv ==
  ASSUME Inv, NEW c \in Call, At(c, "poll"), call[c].late, GiveUp(c), bought' = bought,
         NEW r \in Report, NEW n \in 0..(MaxPollFailures + 1),
         heard' = [heard EXCEPT ![c] = [answer |-> r, failed |-> n]],
         ~(r.program /\ (r.word = "success" \/ r.completed))
  PROVE  Inv'
  <1>1. PICK j \in JobState \ {"none"} : job' = [job EXCEPT ![c] = j]
    <2>1. CASE job' = job
      <3>1. job[c] \in JobState \ {"none"} /\ job' = [job EXCEPT ![c] = job[c]]
        BY <2>1 DEF Inv, TypeOK, PollsInv, Polls
      <3> QED BY <3>1
    <2>2. CASE job' = [job EXCEPT ![c] = "cancelled"]
      BY <2>2 DEF JobState
    <2> QED BY <2>1, <2>2 DEF GiveUp
  <1>2. At(c, "raised")' /\ call'[c].late /\ heard'[c].answer = r
    BY DEF GiveUp, Goto, At, Inv, TypeOK
  <1>3. Kept(c)'
    BY <1>2 DEF Kept, At
  <1> QED BY <1>1, <1>3, PollEndsInv DEF GiveUp

LEMMA PollFailsInv ==
  ASSUME Inv, NEW c \in Call, PollFails(c)
  PROVE  Inv'
  <1> DEFINE n == call[c].failures + 1
             r == heard[c].answer
  <1>1. n \in 1..(MaxPollFailures + 1) /\ r \in Report /\ heard[c].failed + 1 = n
    BY ServiceAssumption DEF Inv, TypeOK, PollsInv, Polls, PollFails
  <1>2. heard' = [heard EXCEPT ![c] = [answer |-> r, failed |-> n]] /\ At(c, "poll") /\ bought' = bought
    BY <1>1 DEF PollFails
  <1>3. ~(r.program /\ (r.word = "success" \/ r.completed))
    BY <1>2 DEF Inv, KeptInv, Waits
  <1>7. [answer |-> r, failed |-> n] \in [answer : Report, failed : 0..(MaxPollFailures + 1)]
    BY <1>1, ServiceAssumption
  <1>4. CASE n > MaxPollFailures
    <2>1. Goto(c, "raised") /\ job' = job
      BY <1>1, <1>4, ServiceAssumption DEF PollFails
    <2>2. job[c] \in JobState \ {"none"} /\ job' = [job EXCEPT ![c] = job[c]]
      BY <1>2, <2>1 DEF Inv, TypeOK, PollsInv, Polls
    <2>3. Kept(c)'
      <3>1. At(c, "raised")' /\ heard'[c].failed > MaxPollFailures
        BY <1>2, <1>4, <2>1 DEF Goto, At, Inv, TypeOK
      <3> QED BY <3>1 DEF Kept, At
    <2> HIDE DEF n, r
    <2> QED BY <1>2, <1>7, <2>1, <2>2, <2>3, PollEndsInv
  <1>5. CASE n <= MaxPollFailures /\ call[c].late
    <2>1. GiveUp(c)
      BY <1>1, <1>5, ServiceAssumption DEF PollFails
    <2>2. n \in 0..(MaxPollFailures + 1)
      BY <1>1, ServiceAssumption
    <2> HIDE DEF n, r
    <2> QED BY <1>1, <1>2, <1>3, <1>5, <2>1, <2>2, GiveUpInv
  <1>6. CASE n <= MaxPollFailures /\ ~call[c].late
    <2>1. PollOn(c, n) /\ n \in 0..MaxPollFailures
      BY <1>1, <1>6, ServiceAssumption DEF PollFails
    <2> HIDE DEF n, r
    <2> QED BY <1>1, <1>2, <1>3, <2>1, PollOnInv
  <1> QED BY <1>1, <1>4, <1>5, <1>6, ServiceAssumption

LEMMA PollRefusedInv ==
  ASSUME Inv, NEW c \in Call, PollRefused(c)
  PROVE  Inv'
  <1>1. Refusal \in Report
    BY DEF Refusal, Report
  <1>2. heard' = [heard EXCEPT ![c] = [answer |-> Refusal, failed |-> heard[c].failed]]
        /\ heard[c].failed \in 0..(MaxPollFailures + 1)
    BY DEF PollRefused, Inv, TypeOK
  <1>3. At(c, "poll") /\ Goto(c, "raised") /\ bought' = bought /\ job' = job
    BY DEF PollRefused
  <1>4. job[c] \in JobState \ {"none"} /\ job' = [job EXCEPT ![c] = job[c]]
    BY <1>3 DEF Inv, TypeOK, PollsInv, Polls
  <1>5. Kept(c)'
    <2>1. heard'[c].answer.word = "refused"
      BY <1>2 DEF Inv, TypeOK, Refusal, NotYet
    <2>2. At(c, "raised")'
      BY <1>3 DEF Goto, At, Inv, TypeOK
    <2> QED BY <2>1, <2>2 DEF Kept, At
  <1> QED BY <1>1, <1>2, <1>3, <1>4, <1>5, PollEndsInv

\* A report is one of a job in that state.
LEMMA ReportsAre ==
  ASSUME NEW state \in JobState \ {"none"}, NEW r \in Reports(state)
  PROVE  /\ r \in Report
         /\ Finished(r) => state = "done"
  BY DEF Reports, Report, Finished, JobState

\* What a poll reports is acted on in the same step: a finished job returns.
LEMMA PollAnswersInv ==
  ASSUME Inv, NEW c \in Call, PollAnswers(c)
  PROVE  Inv'
  <1>1. PICK r \in Reports(job[c]) :
          Act(c, r) /\ heard' = [heard EXCEPT ![c] = [answer |-> r, failed |-> 0]]
    BY DEF PollAnswers
  <1>2. At(c, "poll") /\ bought' = bought /\ job[c] \in JobState \ {"none"}
    BY DEF PollAnswers, Inv, TypeOK, PollsInv, Polls
  <1>3. r \in Report /\ (Finished(r) => job[c] = "done") /\ 0 \in 0..(MaxPollFailures + 1)
    BY <1>2, ReportsAre, ServiceAssumption
  <1>4. heard'[c].answer = r
    BY <1>1 DEF Inv, TypeOK
  <1>8. ~(Finished(r) /\ Hopeless(r)) /\ (~Finished(r) /\ ~Hopeless(r) =>
          ~(r.program /\ (r.word = "success" \/ r.completed)))
    BY DEF Finished, Hopeless
  <1>5. CASE Finished(r)
    <2>1. Goto(c, "returned") /\ job' = job
      BY <1>1, <1>5, <1>8 DEF Act
    <2>2. job' = [job EXCEPT ![c] = job[c]]
      BY <2>1 DEF Inv, TypeOK
    <2>3. Kept(c)'
      <3>1. At(c, "returned")'
        BY <2>1 DEF Goto, At, Inv, TypeOK
      <3> QED BY <1>3, <1>5, <2>1, <3>1 DEF Kept, At
    <2> QED BY <1>1, <1>2, <1>3, <2>1, <2>2, <2>3, PollEndsInv
  <1>6. CASE ~Finished(r) /\ Hopeless(r)
    <2>1. Goto(c, "raised") /\ job' = job
      BY <1>1, <1>6 DEF Act
    <2>2. job' = [job EXCEPT ![c] = job[c]]
      BY <2>1 DEF Inv, TypeOK
    <2>3. Kept(c)'
      <3>1. At(c, "raised")'
        BY <2>1 DEF Goto, At, Inv, TypeOK
      <3> QED BY <1>4, <1>6, <3>1 DEF Kept, At, Hopeless
    <2> QED BY <1>1, <1>2, <1>3, <2>1, <2>2, <2>3, PollEndsInv
  <1>7. CASE ~Finished(r) /\ ~Hopeless(r)
    <2>1. ~(r.program /\ (r.word = "success" \/ r.completed))
      BY <1>7, <1>8
    <2>2. CASE call[c].late
      <3>1. GiveUp(c)
        BY <1>1, <1>7, <2>2 DEF Act
      <3> QED BY <1>1, <1>2, <1>3, <2>1, <2>2, <3>1, GiveUpInv
    <2>3. CASE ~call[c].late
      <3>1. PollOn(c, 0) /\ 0 \in 0..MaxPollFailures
        BY <1>1, <1>7, <2>3, ServiceAssumption DEF Act
      <3> QED BY <1>1, <1>2, <1>3, <2>1, <3>1, PollOnInv
    <2> QED BY <2>2, <2>3
  <1> QED BY <1>5, <1>6, <1>7

LEMMA NextInv == Inv /\ [Next]_vars => Inv'
  <1> SUFFICES ASSUME Inv, [Next]_vars PROVE Inv'
    OBVIOUS
  <1>1. CASE UNCHANGED vars
    BY <1>1 DEF vars, Inv, TypeOK, PaidInv, Paid, PollsInv, Polls, KeptInv, Kept, Waits, At
  <1>2. CASE Next
    <2>1. PICK c \in Call : ClientStep(c) \/ JobEnds(c) \/ DeadlinePasses(c)
      BY <1>2 DEF Next
    <2>2. CASE ClientStep(c)
      BY <2>2, BeginInv, SubmitInv, PollFailsInv, PollRefusedInv, PollAnswersInv DEF ClientStep, Poll
    <2>3. CASE JobEnds(c)
      BY <2>3 DEF JobEnds, At, Inv, TypeOK, JobState, PaidInv, Paid, PollsInv, Polls, KeptInv, Kept, Waits
    <2>4. CASE DeadlinePasses(c)
      <3>1. /\ TypeOK' /\ job' = job /\ bought' = bought /\ heard' = heard
            /\ \A d \in Call : /\ call'[d].pc = call[d].pc /\ call'[d].attempt = call[d].attempt
                             /\ call'[d].failures = call[d].failures /\ (call[d].late => call'[d].late)
        BY <2>4 DEF DeadlinePasses, Inv, TypeOK
      <3>2. PaidInv' /\ PollsInv'
        BY <3>1 DEF Inv, PaidInv, Paid, PollsInv, Polls, At
      <3>3. KeptInv'
        BY <3>1 DEF Inv, KeptInv, Kept, Waits, At
      <3> QED BY <3>1, <3>2, <3>3 DEF Inv
    <2> QED BY <2>1, <2>2, <2>3, <2>4
  <1> QED BY <1>1, <1>2

-----------------------------------------------------------------------------

\* Calls, jobs and the histories keep their types, through every loss, refusal
\* and failure of the service (ProgramAsWeightsBackend.compile).
THEOREM TypeCorrect == Spec => []TypeOK
  BY InitInv, NextInv, PTL DEF Spec, Inv

\* A finetune call buys one compile at most, a synchronous call one per attempt,
\* for any number of retries and whatever is lost (_invoke_compile).
THEOREM PaidOnceCorrect == Spec => []PaidOnce
  <1>1. Inv => PaidOnce
    <2> SUFFICES ASSUME Inv, NEW c \in Call
                 PROVE  bought[c] <= IF c \in Finetune THEN 1 ELSE 1 + CompileRetries
      BY DEF PaidOnce
    <2>1. bought[c] <= IF c \in Finetune THEN 1 ELSE 1 + call[c].attempt
      BY DEF Inv, PaidInv, Paid
    <2>2. bought[c] \in Nat /\ call[c].attempt \in 0..CompileRetries
      BY DEF Inv, TypeOK
    <2> QED BY <2>1, <2>2, ServiceAssumption
  <1> QED BY <1>1, InitInv, NextInv, PTL DEF Spec

\* A job is given up for one of the reasons alone, and a program is of a job that is done,
\* for any number of tolerated failures and whatever the service says in which order
\* (_wait_for_job).
THEOREM GivenUpForCauseCorrect == Spec => []GivenUpForCause
  <1>1. Inv => GivenUpForCause
    BY DEF Inv, KeptInv, Kept, GivenUpForCause
  <1> QED BY <1>1, InitInv, NextInv, PTL DEF Spec
=============================================================================
