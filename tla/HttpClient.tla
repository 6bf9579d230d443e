----------------------------- MODULE HttpClient -----------------------------
(***************************************************************************)
(* The outbound requests of all repositories (internal/httpx Client.Do and *)
(* internal/limit): an attempt takes a permit of its source, then one of   *)
(* the whole process, holds both until the response has been consumed or   *)
(* has failed, and gives both back before the pause that precedes the next *)
(* attempt.  Any wait may be ended by the caller's context.                *)
(*                                                                         *)
(* A source here is one entry of the client cache (Factory.Client): equal  *)
(* settings share a client and its limiter.  What is done with a response  *)
(* is in module FileTransfer.                                              *)
(***************************************************************************)
EXTENDS Integers, FiniteSets

CONSTANTS
  Callers,      (* the goroutines that call Do                                 *)
  Sources,      (* the clients                                                 *)
  SourceLimit,  (* MaxInFlightRequests of each client                          *)
  GlobalLimit,  (* sync.download.max_in_flight_requests                        *)
  Retries       (* sync.download.retries                                       *)

(* Effective limits are positive: config falls back to its defaults. *)
ASSUME HttpAssumption ==
  /\ IsFiniteSet(Callers)
  /\ Sources # {}
  /\ SourceLimit \in [Sources -> Nat \ {0}]
  /\ GlobalLimit \in Nat \ {0}
  /\ Retries \in Nat

VARIABLES
  call,        (* the Do call of each goroutine                               *)
  sourceTaken, (* the permits taken of each source's limiter                  *)
  globalTaken  (* the permits taken of the global limiter                     *)

vars == <<call, sourceTaken, globalTaken>>

Calls ==
  [st        : {"idle", "source", "global", "send", "body", "pause"},
   src       : Sources,
   attempt   : 0..Retries,
   cancelled : BOOLEAN]

Idle == [st |-> "idle", src |-> CHOOSE s \in Sources : TRUE, attempt |-> 0, cancelled |-> FALSE]

TypeOK ==
  /\ call \in [Callers -> Calls]
  /\ \A s \in Sources : sourceTaken[s] \in 0..SourceLimit[s]
  /\ globalTaken \in 0..GlobalLimit

Init ==
  /\ call = [w \in Callers |-> Idle]
  /\ sourceTaken = [s \in Sources |-> 0]
  /\ globalTaken = 0

-----------------------------------------------------------------------------
(* Helpers. *)

At(w, states) == call[w].st \in states

Goto(w, st) == call' = [call EXCEPT ![w].st = st]

Return(w) == call' = [call EXCEPT ![w] = Idle]

ReleaseSource(w) == sourceTaken' = [sourceTaken EXCEPT ![call[w].src] = @ - 1]

ReleaseBoth(w) == ReleaseSource(w) /\ globalTaken' = globalTaken - 1

(* The attempt failed: pause and try again, or return the last error. *)
AfterFailure(w, retryable) ==
  LET again == retryable /\ call[w].attempt < Retries
  IN  \/ again /\ Goto(w, "pause")
      \/ ~again /\ Return(w)

-----------------------------------------------------------------------------
(* A call to Do, whose context may be done already. *)
Begin(w, s, c) ==
  /\ At(w, {"idle"})
  /\ call' = [call EXCEPT ![w] = [st |-> "source", src |-> s, attempt |-> 0, cancelled |-> c]]
  /\ UNCHANGED <<sourceTaken, globalTaken>>

\* Mutant of AcquireSource: the channel has one place too many.
AcquireSourceOneMore(w) ==
  /\ At(w, {"source"})
  /\ sourceTaken[call[w].src] <= SourceLimit[call[w].src]
  /\ sourceTaken' = [sourceTaken EXCEPT ![call[w].src] = @ + 1]
  /\ Goto(w, "global")
  /\ UNCHANGED globalTaken

AcquireSource(w) ==
  /\ At(w, {"source"})
  /\ sourceTaken[call[w].src] < SourceLimit[call[w].src]
  /\ sourceTaken' = [sourceTaken EXCEPT ![call[w].src] = @ + 1]
  /\ Goto(w, "global")
  /\ UNCHANGED globalTaken

AcquireGlobal(w) ==
  /\ At(w, {"global"})
  /\ globalTaken < GlobalLimit
  /\ globalTaken' = globalTaken + 1
  /\ Goto(w, "send")
  /\ UNCHANGED sourceTaken

\* Mutant of GiveUpGlobal: the source permit is not given back on this path.
GiveUpGlobalLeaks(w) ==
  /\ At(w, {"global"}) /\ call[w].cancelled
  /\ Return(w)
  /\ UNCHANGED <<sourceTaken, globalTaken>>

\* Mutant of GiveUpSource: Acquire sends first and looks at the context then.
GiveUpSourceLate(w) ==
  /\ At(w, {"source"}) /\ call[w].cancelled
  /\ sourceTaken[call[w].src] < SourceLimit[call[w].src]
  /\ Return(w)
  /\ UNCHANGED <<sourceTaken, globalTaken>>

(* The context ends a wait for a permit. *)
GiveUpSource(w) ==
  /\ At(w, {"source"}) /\ call[w].cancelled
  /\ Return(w)
  /\ UNCHANGED <<sourceTaken, globalTaken>>

GiveUpGlobal(w) ==
  /\ At(w, {"global"}) /\ call[w].cancelled
  /\ ReleaseSource(w)
  /\ Return(w)
  /\ UNCHANGED globalTaken

(* The headers of a response arrive. *)
Respond(w) ==
  /\ At(w, {"send"})
  /\ Goto(w, "body")
  /\ UNCHANGED <<sourceTaken, globalTaken>>

\* Mutant of Fail: a request that got no response keeps its global permit.
FailLeaks(w) ==
  /\ At(w, {"send"})
  /\ ReleaseSource(w)
  /\ AfterFailure(w, TRUE)
  /\ UNCHANGED globalTaken

(* No response: no connection, a timeout, or the context; all retryable. *)
Fail(w) ==
  /\ At(w, {"send"})
  /\ ReleaseBoth(w)
  /\ AfterFailure(w, TRUE)

(* The response was consumed. *)
Consume(w) ==
  /\ At(w, {"body"})
  /\ ReleaseBoth(w)
  /\ Return(w)

(* The body ends early or on the context, or the consumer fails; or the    *)
(* status is an error, and only some of those are retryable.               *)
Break(w, retryable) ==
  /\ At(w, {"body"})
  /\ ReleaseBoth(w)
  /\ AfterFailure(w, retryable)

(* The pause is over, by the timer or by the context. *)
Resume(w) ==
  /\ At(w, {"pause"})
  /\ call' = [call EXCEPT ![w].st = "source", ![w].attempt = @ + 1]
  /\ UNCHANGED <<sourceTaken, globalTaken>>

StopPause(w) ==
  /\ At(w, {"pause"}) /\ call[w].cancelled
  /\ Return(w)
  /\ UNCHANGED <<sourceTaken, globalTaken>>

Cancel(w) ==
  /\ ~At(w, {"idle"}) /\ ~call[w].cancelled
  /\ call' = [call EXCEPT ![w].cancelled = TRUE]
  /\ UNCHANGED <<sourceTaken, globalTaken>>

Next ==
  \E w \in Callers :
    \/ \E s \in Sources, c \in BOOLEAN : Begin(w, s, c)
    \/ AcquireSource(w) \/ AcquireGlobal(w) \/ GiveUpSource(w) \/ GiveUpGlobal(w)
    \/ Respond(w) \/ Fail(w) \/ Consume(w)
    \/ \E retryable \in BOOLEAN : Break(w, retryable)
    \/ Resume(w) \/ StopPause(w) \/ Cancel(w)

Spec == Init /\ [][Next]_vars

(* A send on a Go channel that has to wait is queued first come, first     *)
(* served, so a permit that is free again and again is obtained.  Timers   *)
(* fire, and the context ends every wait, a request included.  Nothing is  *)
(* assumed of the sources: a body has no timeout.                          *)
Fairness ==
  \A w \in Callers :
    /\ SF_vars(AcquireSource(w)) /\ SF_vars(AcquireGlobal(w))
    /\ WF_vars(GiveUpSource(w) \/ GiveUpGlobal(w) \/ Resume(w) \/ StopPause(w))
    /\ WF_vars(call[w].cancelled /\ (Fail(w) \/ \E r \in BOOLEAN : Break(w, r)))

LiveSpec == Spec /\ Fairness

-----------------------------------------------------------------------------
(* Properties. *)

InFlight == {w \in Callers : At(w, {"send", "body"})}

(* spec.md:553-555, 701-704: no source, and not all of them together, ever *)
(* has more requests in flight than its limit, across all repositories.    *)
InFlightBounded ==
  /\ Cardinality(InFlight) <= GlobalLimit
  /\ \A s \in Sources : Cardinality({w \in InFlight : call[w].src = s}) <= SourceLimit[s]

(* Every permit taken is held by a request that waits for the next one or  *)
(* is in flight: none leaks on an error path, none is held during a pause, *)
(* none is given back twice.                                               *)
PermitsBalanced ==
  /\ globalTaken = Cardinality(InFlight)
  /\ \A s \in Sources :
       sourceTaken[s] = Cardinality({w \in Callers : At(w, {"global", "send", "body"})
                                                       /\ call[w].src = s})

Waiting(w) == At(w, {"source", "global"})

(* As long as requests end, none waits for a permit for ever: the two      *)
(* limiters are taken in one order, so nobody waits in a circle.           *)
NoStarvation ==
  (\A w \in Callers : []<>~At(w, {"send", "body"})) =>
    \A w \in Callers : Waiting(w) ~> ~Waiting(w)

(* A cancelled call returns even while every permit is held by responses   *)
(* that never end.                                                         *)
CancelEndsRequest ==
  \A w \in Callers : call[w].cancelled ~> At(w, {"idle"})
=============================================================================
