--------------------------- MODULE CompileService ---------------------------
(***************************************************************************)
(* A call of ProgramAsWeightsBackend.compile from its submission to the      *)
(* program: the POST with its retries (_invoke_compile), then, on the         *)
(* finetune compiler, polling the job (_wait_for_job) until it is over, cannot *)
(* be reached, or the deadline has passed.                                    *)
(*                                                                         *)
(* The service is outside: it may buy a compile for any request that reached   *)
(* it, whatever the client hears of it; a job ends when it likes.               *)
(***************************************************************************)
EXTENDS Naturals

CONSTANTS
  Call,             \* the calls of compile()
  Finetune,         \* those on FINETUNE_COMPILER
  CompileRetries,   \* compile_retries
  MaxPollFailures   \* _MAX_CONSECUTIVE_POLL_FAILURES

ASSUME ServiceAssumption ==
  /\ Finetune \subseteq Call
  /\ CompileRetries \in Nat
  /\ MaxPollFailures \in Nat

VARIABLES
  call,     \* call[c]: where the call is, and its locals
  job,      \* job[c]: the job whose id call c has, as the service has it
  bought,   \* history: how many compiles the service has begun for call c
  heard     \* history: the last answer to a poll of c, and the polls that failed since

vars == <<call, job, bought, heard>>

NewCall == [pc |-> "new", attempt |-> 0, failures |-> 0, late |-> FALSE]

JobState == {"none", "open", "done", "failed", "cancelled"}

\* What get_compile_status says: a word of _SUCCESS_STATES is "success", one of
\* _FAILED_STATES "failed", any other "other"; and whether it has a completed_at, a
\* program_id and an error.
Report == [word : {"none", "refused", "success", "failed", "other"},
           completed : BOOLEAN, program : BOOLEAN, error : BOOLEAN]
NotYet  == [word |-> "none", completed |-> FALSE, program |-> FALSE, error |-> FALSE]
Refusal == [word |-> "refused", completed |-> FALSE, program |-> FALSE, error |-> FALSE]

TypeOK ==
  /\ call \in [Call -> [pc : {"new", "post", "poll", "returned", "raised"},
                        attempt : 0..CompileRetries, failures : 0..MaxPollFailures,
                        late : BOOLEAN]]
  /\ job \in [Call -> JobState]
  /\ bought \in [Call -> Nat]
  /\ heard \in [Call -> [answer : Report, failed : 0..(MaxPollFailures + 1)]]

Init ==
  /\ call = [c \in Call |-> NewCall]
  /\ job = [c \in Call |-> "none"]
  /\ bought = [c \in Call |-> 0]
  /\ heard = [c \in Call |-> [answer |-> NotYet, failed |-> 0]]

At(c, pc)   == call[c].pc = pc
Goto(c, pc) == call' = [call EXCEPT ![c].pc = pc]

-----------------------------------------------------------------------------
(* Submission. *)

\* offline, a missing API key, or a broken contract of the precheck raises;
\* a precheck the service declines does not.
Begin(c) ==
  /\ At(c, "new")
  /\ Goto(c, "post") \/ Goto(c, "raised")
  /\ UNCHANGED <<job, bought, heard>>

\* The request has reached the service, which buys a compile or does not (its
\* cache has the program, or it failed first).
Reached(c) == \E n \in {0, 1} : bought' = [bought EXCEPT ![c] = @ + n]

\* The next attempt, after a back-off, or none is left.
Retry(c) ==
  call' = IF call[c].attempt < CompileRetries THEN [call EXCEPT ![c].attempt = @ + 1]
          ELSE [call EXCEPT ![c].pc = "raised"]

\* ConnectTimeout, ConnectError: the request was never sent.
Unreachable(c) ==
  /\ At(c, "post")
  /\ Retry(c)
  /\ UNCHANGED <<job, bought, heard>>

\* Any other timeout, and a 504.
TimesOut(c) ==
  /\ At(c, "post")
  /\ Reached(c)
  /\ Goto(c, "raised")
  /\ UNCHANGED <<job, heard>>

\* Faulty: retries a 5xx on every path.
ServerErrorRetried(c) ==
  /\ At(c, "post")
  /\ Reached(c)
  /\ Retry(c)
  /\ UNCHANGED <<job, heard>>

\* A 5xx but 504: only the synchronous path opts in to a retry (retry_5xx).
ServerError(c) ==
  /\ At(c, "post")
  /\ Reached(c)
  /\ IF c \in Finetune THEN Goto(c, "raised") ELSE Retry(c)
  /\ UNCHANGED <<job, heard>>

\* A 4xx.
Refused(c) ==
  /\ At(c, "post")
  /\ Goto(c, "raised")
  /\ UNCHANGED <<job, bought, heard>>

\* The synchronous path gets a program, the finetune path the id of a job, and
\* either an answer that names none or an error.
Answered(c) ==
  /\ At(c, "post")
  /\ Reached(c)
  /\ \/ Goto(c, "raised") /\ UNCHANGED job
     \/ c \notin Finetune /\ Goto(c, "returned") /\ UNCHANGED job
     \/ c \in Finetune /\ Goto(c, "poll") /\ job' = [job EXCEPT ![c] = "open"]
  /\ UNCHANGED heard

Submit(c) ==
  Unreachable(c) \/ TimesOut(c) \/ ServerError(c) \/ Refused(c) \/ Answered(c)

-----------------------------------------------------------------------------
(* Polling. *)

\* The vocabulary is the service's own: a job may have any word but those of another end,
\* an error before it is over, and a program it has named before it is done.
Reports(state) ==
  CASE state = "open" -> [word : {"other"}, completed : {FALSE}, program : BOOLEAN, error : BOOLEAN]
    [] state = "done" -> [word : {"success", "other"}, completed : BOOLEAN, program : BOOLEAN, error : BOOLEAN]
    [] OTHER -> [word : {"failed", "other"}, completed : BOOLEAN, program : {FALSE}, error : BOOLEAN]

Finished(r) == r.word # "failed" /\ r.program /\ (r.word = "success" \/ r.completed)
Hopeless(r) == r.word = "failed" \/ (r.error /\ ~r.program)

\* compile_timeout_s has passed: TimeoutError, after one attempt to cancel that a
\* job which has started, an old SDK or the network may refuse.
GiveUp(c) ==
  /\ Goto(c, "raised")
  /\ \/ UNCHANGED job
     \/ job[c] = "open" /\ job' = [job EXCEPT ![c] = "cancelled"]

PollOn(c, failures) ==
  /\ call' = [call EXCEPT ![c].failures = failures]
  /\ UNCHANGED job

\* A transient failure of the GET: a timeout, a connect error, a 5xx.
PollFails(c) ==
  /\ At(c, "poll")
  /\ heard' = [heard EXCEPT ![c] = [answer |-> @.answer, failed |-> @.failed + 1]]
  /\ LET n == call[c].failures + 1
     IN CASE n > MaxPollFailures -> Goto(c, "raised") /\ UNCHANGED job
          [] n <= MaxPollFailures /\ call[c].late -> GiveUp(c)
          [] OTHER -> PollOn(c, n)
  /\ UNCHANGED bought

\* Any other error of the GET.
PollRefused(c) ==
  /\ At(c, "poll")
  /\ Goto(c, "raised")
  /\ heard' = [heard EXCEPT ![c] = [answer |-> Refusal, failed |-> @.failed]]
  /\ UNCHANGED <<job, bought>>

\* Faulty: an answer does not end a row of failures; trusts any report but a
\* failed one to come to something.
ActWithoutReset(c, r) ==
  CASE Finished(r) -> Goto(c, "returned") /\ UNCHANGED job
    [] Hopeless(r) -> Goto(c, "raised") /\ UNCHANGED job
    [] ~Finished(r) /\ ~Hopeless(r) /\ call[c].late -> GiveUp(c)
    [] OTHER       -> PollOn(c, call[c].failures)
ActWithoutDeadline(c, r) ==
  CASE Finished(r) -> Goto(c, "returned") /\ UNCHANGED job
    [] Hopeless(r) -> Goto(c, "raised") /\ UNCHANGED job
    [] OTHER       -> PollOn(c, 0)

\* What the client does on a report.
Act(c, r) ==
  CASE Finished(r) -> Goto(c, "returned") /\ UNCHANGED job
    [] Hopeless(r) -> Goto(c, "raised") /\ UNCHANGED job
    [] ~Finished(r) /\ ~Hopeless(r) /\ call[c].late -> GiveUp(c)
    [] OTHER       -> PollOn(c, 0)

PollAnswers(c) ==
  /\ At(c, "poll")
  /\ \E r \in Reports(job[c]) :
       /\ Act(c, r)
       /\ heard' = [heard EXCEPT ![c] = [answer |-> r, failed |-> 0]]
  /\ UNCHANGED bought

Poll(c) == PollFails(c) \/ PollRefused(c) \/ PollAnswers(c)

-----------------------------------------------------------------------------
(* The service and the clock. *)

JobEnds(c) ==
  /\ job[c] = "open"
  /\ \E state \in {"done", "failed"} : job' = [job EXCEPT ![c] = state]
  /\ UNCHANGED <<call, bought, heard>>

\* The deadline of the poll loop passes.
DeadlinePasses(c) ==
  /\ At(c, "poll") /\ ~call[c].late
  /\ call' = [call EXCEPT ![c].late = TRUE]
  /\ UNCHANGED <<job, bought, heard>>

ClientStep(c) == Begin(c) \/ Submit(c) \/ Poll(c)

Next == \E c \in Call : ClientStep(c) \/ JobEnds(c) \/ DeadlinePasses(c)

Spec == Init /\ [][Next]_vars

\* Every request of the SDK is answered, refused or times out, and time passes.
\* The job need not end.
Fairness ==
  \A c \in Call :
    /\ WF_vars(Begin(c) \/ Submit(c))
    /\ WF_vars(PollAnswers(c))
    /\ WF_vars(DeadlinePasses(c))

FairSpec == Spec /\ Fairness

-----------------------------------------------------------------------------
(* Properties. *)

\* A finetune call buys at most one compile, and a synchronous one at most one
\* per attempt, through every answer that is lost on its way (_invoke_compile,
\* retry policy A-1).
PaidOnce ==
  \A c \in Call : bought[c] <= IF c \in Finetune THEN 1 ELSE 1 + CompileRetries

\* A job that may have been paid for is given up for a reason only: the service refused
\* the poll or said that there is nothing to wait for; it has failed to answer more than
\* MaxPollFailures polls in a row; or the deadline has passed, and its last answer was not
\* of a finished program in words that the client knows.  (A program it names under another
\* word and without a completed_at is polled past, and lost at the deadline.)  A
\* program is returned of a job that is done, and not of one that has named it too soon
\* (_wait_for_job, A-5).
GivenUpForCause ==
  \A c \in Call : job[c] # "none" =>
    LET answer == heard[c].answer IN
    /\ At(c, "returned") => job[c] = "done"
    /\ At(c, "raised") =>
         \/ answer.word \in {"refused", "failed"}
         \/ answer.error /\ ~answer.program
         \/ heard[c].failed > MaxPollFailures
         \/ call[c].late /\ ~(answer.program /\ (answer.word = "success" \/ answer.completed))

\* compile() ends: it returns or raises, whether the service answers, fails,
\* or reports a running job for ever.
CallEnds ==
  \A c \in Call : At(c, "post") ~> (At(c, "returned") \/ At(c, "raised"))
=============================================================================
