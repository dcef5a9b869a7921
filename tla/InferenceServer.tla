--------------------------- MODULE InferenceServer ---------------------------
(***************************************************************************)
(* A request through serve/server.py: the middleware stack (rate limit,        *)
(* authentication, body), the route, the single inference slot and the worker    *)
(* thread behind it, and the telemetry (_execute_with_telemetry).               *)
(*                                                                         *)
(* A step is the event loop running a request from one await to the next, or a   *)
(* worker thread finishing.  A thread cannot be stopped: one whose request has    *)
(* timed out runs on, and its result is dropped.                                *)
(***************************************************************************)
EXTENDS RateLimit

CONSTANTS
  Request,    \* requests to the inference routes
  ReadTime,   \* _BODY_READ_TIMEOUT_SECONDS, in whiles
  Stacks      \* what create_app may put before the body limit and the routes: the limiter
              \* unless its rate is 0, authentication unless anonymous requests are allowed

ASSUME RequestAssumption ==
  IsFiniteSet(Request) /\ ReadTime \in Nat \ {0} /\ Stacks \subseteq SUBSET {"RateLimit", "Auth"}

VARIABLES
  request,   \* request[r]: where it is, or how it ended
  remaining, \* remaining[r]: until the deadline of the body that is read
  thread,    \* thread[r]: the work() of r
  held,      \* InferenceSlot._held
  state,     \* ServerState
  warm,      \* the warm-up inference succeeded
  stack      \* middleware_stack: what of it is in force

served == <<request, thread, held, state, warm, stack>>
server == <<served, remaining>>
vars   == <<limits, server>>

\* How a request ends: 200; 500 or 503; 401; or refused before it is counted (400,
\* 408, 413, 422, 429).
Ended == {"answered", "failed", "denied", "refused"}

TypeOK ==
  /\ LimitTypes
  /\ request \in [Request -> {"new", "reading", "admitted"} \union Ended]
  /\ remaining \in [Request -> 0..ReadTime]
  /\ thread \in [Request -> {"none", "running", "returned", "raised"}]
  /\ held \in BOOLEAN
  /\ state \in [total : Nat, errors : Nat, ready : BOOLEAN]
  /\ warm \in BOOLEAN
  /\ stack \subseteq {"RateLimit", "Auth"}

\* The telemetry of a server that has not been asked yet: a warm-up that succeeds
\* makes it ready and is not counted, one that fails is as none (_run_warmup).
WarmedUp(succeeds) == [total |-> 0, errors |-> 0, ready |-> succeeds]

\* create_app.
Init ==
  /\ LimitInit
  /\ request = [r \in Request |-> "new"]
  /\ remaining = [r \in Request |-> 0]
  /\ thread = [r \in Request |-> "none"]
  /\ held = FALSE
  /\ stack \in Stacks
  /\ warm \in BOOLEAN
  /\ state = WarmedUp(warm)

At(r, where)   == request[r] = where
\* The deadline of a body is fixed when its reading begins.
Goto(r, where) ==
  /\ request' = [request EXCEPT ![r] = where]
  /\ remaining' = [remaining EXCEPT ![r] = IF where = "reading" THEN ReadTime ELSE 0]

\* record_request, record_auth_failure.
Counted(s, failures) == [total |-> s.total + 1, errors |-> s.errors + failures, ready |-> s.ready]

-----------------------------------------------------------------------------
(* Up to the body. *)

\* A request passes the limiter, or is answered 429; without a limiter all pass.
Throttle(c, allowed) ==
  IF "RateLimit" \in stack THEN Consume(c, allowed) ELSE allowed /\ UNCHANGED limits

\* 401, before anything of the body is read.
Unauthorized(r) ==
  /\ "Auth" \in stack
  /\ Goto(r, "denied")
  /\ state' = Counted(state, 1)

\* A Content-Length that is no number or past the limit; otherwise the body is read.
CheckLength(r) == (Goto(r, "refused") \/ Goto(r, "reading")) /\ UNCHANGED state

\* The limiter, then the bearer token, then the Content-Length, without an await.
Arrive(r) ==
  /\ At(r, "new")
  /\ \E c \in Client, allowed \in BOOLEAN :
       /\ Throttle(c, allowed)
       /\ \/ ~allowed /\ Goto(r, "refused") /\ UNCHANGED state
          \/ allowed /\ (Unauthorized(r) \/ CheckLength(r))
  /\ UNCHANGED <<thread, held, warm, stack>>

Refuse(r) == Goto(r, "refused") /\ UNCHANGED <<limits, thread, held, state, warm, stack>>

\* Something of the body may still be received.
Reading(r) == At(r, "reading") /\ remaining[r] > 0

\* A chunk past the limit, a client that is gone, or a body that is not of the type
\* the route declares.
BodyRefused(r) == Reading(r) /\ Refuse(r)

\* A while passes and nothing arrives.
Waits(r) ==
  /\ Reading(r)
  /\ remaining' = [remaining EXCEPT ![r] = @ - 1]
  /\ UNCHANGED <<limits, served>>

\* Faulty: every chunk is given all of the time.
ReceivesAnew(r) ==
  /\ Reading(r)
  /\ remaining' = [remaining EXCEPT ![r] = ReadTime]
  /\ UNCHANGED <<limits, served>>

\* A chunk with more to come, at once or after a while: the next one is awaited for
\* what remains.
Receives(r) ==
  /\ Reading(r)
  /\ \E took \in {0, 1} : remaining' = [remaining EXCEPT ![r] = @ - took]
  /\ UNCHANGED <<limits, served>>

\* The deadline has passed, whatever has been received.
BodyTimesOut(r) ==
  /\ At(r, "reading") /\ remaining[r] = 0
  /\ Refuse(r)

-----------------------------------------------------------------------------
(* The inference. *)

\* The slot is taken, and work() given to a thread, or the request fails at once.
Submit(r) ==
  /\ IF held
     THEN Goto(r, "failed") /\ state' = Counted(state, 1) /\ UNCHANGED <<thread, held>>
     ELSE /\ Goto(r, "admitted")
          /\ thread' = [thread EXCEPT ![r] = "running"]
          /\ held' = TRUE
          /\ UNCHANGED state
  /\ UNCHANGED <<limits, warm, stack>>

(* The handlers of the routes, from a body of the declared type to the inference.   *)
(* What they do with its result changes no state.                              *)

Invoke(r) == Reading(r) /\ Submit(r)

\* Streams and empty conversations are refused before anything is counted.  The
\* prompt is put together in work(): what fails there is a failed inference.
ChatCompletions(r) ==
  /\ Reading(r)
  /\ \E stream, empty \in BOOLEAN : IF stream \/ empty THEN Refuse(r) ELSE Submit(r)

AnthropicMessages(r) ==
  /\ Reading(r)
  /\ \E empty \in BOOLEAN : IF empty THEN Refuse(r) ELSE Submit(r)

\* The prompt is put together and the backend answers, or either raises; if nobody waits for it any more, that is all.
Finishes(r) ==
  /\ thread[r] = "running"
  /\ IF At(r, "admitted")
     THEN \E result \in {"returned", "raised"} : thread' = [thread EXCEPT ![r] = result]
     ELSE thread' = [thread EXCEPT ![r] = "none"]
  /\ UNCHANGED <<limits, request, remaining, held, state, warm, stack>>

\* Faulty: an answer is not counted.
DeliverUncounted(r) ==
  /\ At(r, "admitted")
  /\ \/ thread[r] = "returned" /\ Goto(r, "answered") /\ state' = [state EXCEPT !.ready = TRUE]
     \/ thread[r] = "raised" /\ Goto(r, "failed") /\ state' = Counted(state, 1)
  /\ thread' = [thread EXCEPT ![r] = "none"]
  /\ held' = FALSE
  /\ UNCHANGED <<limits, warm, stack>>

\* The result reaches the event loop.
Deliver(r) ==
  /\ At(r, "admitted")
  /\ \/ /\ thread[r] = "returned"
        /\ Goto(r, "answered")
        /\ state' = [Counted(state, 0) EXCEPT !.ready = TRUE]
     \/ /\ thread[r] = "raised"
        /\ Goto(r, "failed")
        /\ state' = Counted(state, 1)
  /\ thread' = [thread EXCEPT ![r] = "none"]
  /\ held' = FALSE
  /\ UNCHANGED <<limits, warm, stack>>

\* The thread of r, if it still runs, is nobody's.
Abandon(r) == thread' = [thread EXCEPT ![r] = IF @ = "running" THEN @ ELSE "none"]

\* Faulty: waits for the thread.
TimesOutWithThread(r) ==
  /\ At(r, "admitted") /\ thread[r] # "running"
  /\ Goto(r, "failed")
  /\ Abandon(r)
  /\ state' = Counted(state, 1)
  /\ held' = FALSE
  /\ UNCHANGED <<limits, warm, stack>>

\* Faulty: the slot stays with the abandoned thread.
TimesOutHolding(r) ==
  /\ At(r, "admitted")
  /\ Goto(r, "failed")
  /\ Abandon(r)
  /\ state' = Counted(state, 1)
  /\ UNCHANGED <<limits, held, warm, stack>>

\* _INFERENCE_SLOT_TIMEOUT_SECONDS have passed, a result the loop has not seen
\* yet or none: the wait is cancelled, the thread is not.
TimesOut(r) ==
  /\ At(r, "admitted")
  /\ Goto(r, "failed")
  /\ Abandon(r)
  /\ state' = Counted(state, 1)
  /\ held' = FALSE
  /\ UNCHANGED <<limits, warm, stack>>

\* A request to another route: /metrics and the docs change no state; with a bad
\* token it is one of Request that is denied.  /health and /ready pass no middleware
\* that does anything.
OtherRoute(c) ==
  /\ \E allowed \in BOOLEAN : Throttle(c, allowed)
  /\ UNCHANGED server

RequestStep(r) ==
  \/ Arrive(r) \/ BodyRefused(r) \/ Waits(r) \/ Receives(r) \/ BodyTimesOut(r)
  \/ Invoke(r) \/ ChatCompletions(r) \/ AnthropicMessages(r)
  \/ Finishes(r) \/ Deliver(r) \/ TimesOut(r)

Next ==
  \/ \E r \in Request : RequestStep(r)
  \/ \E c \in Client : OtherRoute(c)
  \/ Tick /\ UNCHANGED server

Spec == Init /\ [][Next]_vars

\* Time passes, and the event loop runs its timers.  Nothing is asked of the client,
\* which may send empty chunks for ever, of the backend or of its threads.
Fairness ==
  \A r \in Request : WF_vars(Waits(r)) /\ WF_vars(BodyTimesOut(r)) /\ WF_vars(TimesOut(r))

FairSpec == Spec /\ Fairness

-----------------------------------------------------------------------------
(* Properties. *)

Admitted == {r \in Request : At(r, "admitted")}

\* The slot is held exactly while one request waits for its inference, whatever
\* threads of former ones still run (InferenceSlot, X-7): none shares it, and none
\* leaves with it.
SlotIsOfOne ==
  /\ \A r, s \in Admitted : r = s
  /\ held <=> Admitted # {}

HowMany(ends) == Cardinality({r \in Request : request[r] \in ends})

\* The telemetry is that of what the clients saw: every request that failed
\* authentication or reached the slot is counted once, as an error unless it was
\* answered, a late result included (_execute_with_telemetry, PAW-SERVE-05, X-9);
\* and /ready tells of an inference that was delivered.
TelemetryIsTrue ==
  /\ state.total = HowMany({"answered", "failed", "denied"})
  /\ state.errors = HowMany({"failed", "denied"})
  /\ state.ready <=> warm \/ HowMany({"answered"}) > 0

\* A request that has passed the limiter is answered, though its client stalls or keeps
\* sending small chunks, or the backend hangs (X-3, X-7).
RequestsEnd ==
  \A r \in Request : (At(r, "reading") \/ At(r, "admitted")) ~> request[r] \in Ended
=============================================================================
