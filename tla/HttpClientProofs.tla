-------------------------- MODULE HttpClientProofs --------------------------
(***************************************************************************)
(* Proofs about HttpClient, for any finite set of callers, any sources and *)
(* any limits: the type invariant, PermitsBalanced and InFlightBounded.    *)
(*                                                                         *)
(* PermitsBalanced is inductive with the types: a step moves one call, and *)
(* the permits it takes or gives back are the ones its state stands for    *)
(* (OneCallMoves).  The limits bound the permits, so they bound the        *)
(* requests in flight.                                                     *)
(***************************************************************************)
EXTENDS HttpClient, FiniteSetTheorems, TLAPS

(* The states that stand for a global permit, and for a source's permit.   *)
Flies(c) == c.st \in {"send", "body"}
Holds(c, s) == c.st \in {"global", "send", "body"} /\ c.src = s

Holders(s) == {w \in Callers : Holds(call[w], s)}

One(b) == IF b THEN 1 ELSE 0

(* A pause is followed by an attempt, so the last one has none after it.   *)
Types ==
  /\ call \in [Callers -> Calls]
  /\ \A w \in Callers : call[w].st = "pause" => call[w].attempt < Retries
  /\ sourceTaken \in [Sources -> Int]
  /\ globalTaken \in Int

Limits ==
  /\ globalTaken <= GlobalLimit
  /\ \A s \in Sources : sourceTaken[s] <= SourceLimit[s]

Balance ==
  /\ globalTaken = Cardinality(InFlight)
  /\ \A s \in Sources : sourceTaken[s] = Cardinality(Holders(s))

IInv == Types /\ Limits /\ Balance

-----------------------------------------------------------------------------
(* Lemmas about sets of callers. *)

(* A set that gains or loses one member grows or shrinks by one. *)
LEMMA Toggle ==
  ASSUME NEW S, NEW T, NEW w, IsFiniteSet(S), T \ {w} = S \ {w}
  PROVE  Cardinality(T) = Cardinality(S) + One(w \in T) - One(w \in S)
<1>1. IsFiniteSet(S \ {w}) /\ Cardinality(S) \in Nat /\ Cardinality(S \ {w}) \in Nat
  <2>1. IsFiniteSet(S \ {w})
    BY FS_RemoveElement
  <2> QED BY <2>1, FS_CardinalityType
<1>2. Cardinality(S) = Cardinality(S \ {w}) + One(w \in S)
  <2>1. Cardinality(S \ {w}) = IF w \in S THEN Cardinality(S) - 1 ELSE Cardinality(S)
    BY FS_RemoveElement
  <2> QED BY <1>1, <2>1 DEF One
<1>3. Cardinality(T) = Cardinality(S \ {w}) + One(w \in T)
  <2>1. CASE w \in T
    <3>1. T = (S \ {w}) \cup {w}
      BY <2>1
    <3> QED BY <1>1, <2>1, <3>1, FS_AddElement DEF One
  <2>2. CASE w \notin T
    <3>1. T = S \ {w}
      BY <2>2
    <3> QED BY <1>1, <2>2, <3>1 DEF One
  <2> QED BY <2>1, <2>2
<1> QED BY <1>1, <1>2, <1>3 DEF One

LEMMA SetsFinite ==
  /\ IsFiniteSet(InFlight)
  /\ \A s \in Sources : IsFiniteSet(Holders(s))
<1>1. InFlight \subseteq Callers
  BY DEF InFlight
<1>2. \A s \in Sources : Holders(s) \subseteq Callers
  BY DEF Holders
<1> QED BY <1>1, <1>2, FS_Subset, HttpAssumption

-----------------------------------------------------------------------------
(* The invariant. *)

LEMMA InitInv == Init => IInv
<1> SUFFICES ASSUME Init PROVE IInv
  OBVIOUS
<1>1. Idle \in Calls /\ Idle.st = "idle"
  BY HttpAssumption DEF Idle, Calls
<1>2. Types
  BY <1>1 DEF Init, Types
<1>3. Limits
  BY HttpAssumption DEF Init, Limits
<1>4. InFlight = {} /\ \A s \in Sources : Holders(s) = {}
  BY <1>1 DEF Init, InFlight, Holders, Holds, At
<1>5. Balance
  BY <1>4, FS_EmptySet DEF Init, Balance
<1> QED BY <1>2, <1>3, <1>5 DEF IInv

(* A step moves one call; what it takes and gives back is the difference   *)
(* between what the two states of that call stand for.                     *)
LEMMA OneCallMoves ==
  ASSUME IInv, Types', Limits', NEW w \in Callers,
         \A x \in Callers \ {w} : call'[x] = call[x],
         globalTaken' = globalTaken + One(Flies(call'[w])) - One(Flies(call[w])),
         \A s \in Sources : sourceTaken'[s] =
           sourceTaken[s] + One(Holds(call'[w], s)) - One(Holds(call[w], s))
  PROVE  IInv'
<1>1. globalTaken' = Cardinality(InFlight')
  <2>1. InFlight' \ {w} = InFlight \ {w}
    BY DEF InFlight, At
  <2>2. (w \in InFlight <=> Flies(call[w])) /\ (w \in InFlight' <=> Flies(call'[w]))
    BY DEF InFlight, At, Flies
  <2> QED BY <2>1, <2>2, SetsFinite, Toggle DEF IInv, Balance, One
<1>2. ASSUME NEW s \in Sources PROVE sourceTaken'[s] = Cardinality(Holders(s)')
  <2>1. Holders(s)' \ {w} = Holders(s) \ {w}
    BY DEF Holders, Holds
  <2>2. (w \in Holders(s) <=> Holds(call[w], s)) /\ (w \in Holders(s)' <=> Holds(call'[w], s))
    BY DEF Holders
  <2> QED BY <2>1, <2>2, SetsFinite, Toggle DEF IInv, Balance, One
<1> QED BY <1>1, <1>2 DEF IInv, Balance

(* A call returns to a state that stands for no permit. *)
LEMMA IdleCall ==
  Idle \in Calls /\ Idle.st = "idle" /\ ~Flies(Idle) /\ \A s \in Sources : ~Holds(Idle, s)
BY HttpAssumption DEF Idle, Calls, Flies, Holds

-----------------------------------------------------------------------------
(* One step per action: the types, the limits and the permits it moves.    *)

(* What the module's assumption gives the steps. *)
LEMMA LimitTypes ==
  /\ GlobalLimit \in Int
  /\ \A s \in Sources : SourceLimit[s] \in Int
BY HttpAssumption

LEMMA BeginInv ==
  ASSUME IInv, NEW w \in Callers, NEW s \in Sources, NEW c \in BOOLEAN, Begin(w, s, c)
  PROVE  IInv'
<1>1. [st |-> "source", src |-> s, attempt |-> 0, cancelled |-> c] \in Calls
  BY HttpAssumption DEF Calls
<1>2. Types' /\ Limits'
  BY <1>1 DEF IInv, Types, Limits, Begin
<1>3. /\ \A x \in Callers \ {w} : call'[x] = call[x]
      /\ call'[w].st = "source" /\ call[w].st = "idle"
  BY DEF IInv, Types, Begin, At
<1>4. /\ globalTaken' = globalTaken + One(Flies(call'[w])) - One(Flies(call[w]))
      /\ \A x \in Sources : sourceTaken'[x] =
           sourceTaken[x] + One(Holds(call'[w], x)) - One(Holds(call[w], x))
  BY <1>3 DEF IInv, Types, Begin, Flies, Holds, One
<1> QED BY <1>2, <1>3, <1>4, OneCallMoves

LEMMA AcquireSourceInv ==
  ASSUME IInv, NEW w \in Callers, AcquireSource(w)
  PROVE  IInv'
<1>1. Types' /\ Limits'
  BY LimitTypes DEF IInv, Types, Limits, Calls, AcquireSource, Goto
<1>2. /\ \A x \in Callers \ {w} : call'[x] = call[x]
      /\ call'[w].st = "global" /\ call[w].st = "source"
      /\ call'[w].src = call[w].src /\ call[w].src \in Sources
  BY DEF IInv, Types, Calls, AcquireSource, Goto, At
<1>3. /\ globalTaken' = globalTaken + One(Flies(call'[w])) - One(Flies(call[w]))
      /\ \A x \in Sources : sourceTaken'[x] =
           sourceTaken[x] + One(Holds(call'[w], x)) - One(Holds(call[w], x))
  BY <1>2 DEF IInv, Types, AcquireSource, Flies, Holds, One
<1> QED BY <1>1, <1>2, <1>3, OneCallMoves

LEMMA AcquireGlobalInv ==
  ASSUME IInv, NEW w \in Callers, AcquireGlobal(w)
  PROVE  IInv'
<1>1. Types' /\ Limits'
  BY LimitTypes DEF IInv, Types, Limits, Calls, AcquireGlobal, Goto
<1>2. /\ \A x \in Callers \ {w} : call'[x] = call[x]
      /\ call'[w].st = "send" /\ call[w].st = "global"
      /\ call'[w].src = call[w].src /\ call[w].src \in Sources
  BY DEF IInv, Types, Calls, AcquireGlobal, Goto, At
<1>3. /\ globalTaken' = globalTaken + One(Flies(call'[w])) - One(Flies(call[w]))
      /\ \A x \in Sources : sourceTaken'[x] =
           sourceTaken[x] + One(Holds(call'[w], x)) - One(Holds(call[w], x))
  BY <1>2 DEF IInv, Types, AcquireGlobal, Flies, Holds, One
<1> QED BY <1>1, <1>2, <1>3, OneCallMoves

(* Leaving the wait for the global permit gives the source's one back.     *)
LEMMA GiveUpGlobalInv ==
  ASSUME IInv, NEW w \in Callers, GiveUpGlobal(w)
  PROVE  IInv'
<1>1. Types' /\ Limits'
  BY LimitTypes, IdleCall DEF IInv, Types, Limits, Calls, GiveUpGlobal, Return, ReleaseSource
<1>2. /\ \A x \in Callers \ {w} : call'[x] = call[x]
      /\ call'[w] = Idle /\ call[w].st = "global" /\ call[w].src \in Sources
  BY DEF IInv, Types, Calls, GiveUpGlobal, Return, At
<1>3. /\ globalTaken' = globalTaken + One(Flies(call'[w])) - One(Flies(call[w]))
      /\ \A x \in Sources : sourceTaken'[x] =
           sourceTaken[x] + One(Holds(call'[w], x)) - One(Holds(call[w], x))
  BY <1>2, IdleCall DEF IInv, Types, GiveUpGlobal, ReleaseSource, Flies, Holds, One
<1> QED BY <1>1, <1>2, <1>3, OneCallMoves

(* A response that arrives changes no permit; nor does a call that holds   *)
(* none, when it resumes, gives up or stops.                               *)
LEMMA RespondInv ==
  ASSUME IInv, NEW w \in Callers, Respond(w)
  PROVE  IInv'
<1>1. Types' /\ Limits'
  BY DEF IInv, Types, Limits, Calls, Respond, Goto
<1>2. /\ \A x \in Callers \ {w} : call'[x] = call[x]
      /\ call'[w].st = "body" /\ call[w].st = "send" /\ call'[w].src = call[w].src
  BY DEF IInv, Types, Calls, Respond, Goto, At
<1>3. /\ globalTaken' = globalTaken + One(Flies(call'[w])) - One(Flies(call[w]))
      /\ \A x \in Sources : sourceTaken'[x] =
           sourceTaken[x] + One(Holds(call'[w], x)) - One(Holds(call[w], x))
  BY <1>2 DEF IInv, Types, Respond, Flies, Holds, One
<1> QED BY <1>1, <1>2, <1>3, OneCallMoves

LEMMA ReturnInv ==
  ASSUME IInv, NEW w \in Callers, GiveUpSource(w) \/ StopPause(w)
  PROVE  IInv'
<1>1. Types' /\ Limits'
  BY IdleCall DEF IInv, Types, Limits, GiveUpSource, StopPause, Return
<1>2. /\ \A x \in Callers \ {w} : call'[x] = call[x]
      /\ call'[w] = Idle /\ call[w].st \in {"source", "pause"}
  BY DEF IInv, Types, GiveUpSource, StopPause, Return, At
<1>3. /\ globalTaken' = globalTaken + One(Flies(call'[w])) - One(Flies(call[w]))
      /\ \A x \in Sources : sourceTaken'[x] =
           sourceTaken[x] + One(Holds(call'[w], x)) - One(Holds(call[w], x))
  BY <1>2, IdleCall DEF IInv, Types, GiveUpSource, StopPause, Flies, Holds, One
<1> QED BY <1>1, <1>2, <1>3, OneCallMoves

LEMMA CancelInv ==
  ASSUME IInv, NEW w \in Callers, Cancel(w)
  PROVE  IInv'
<1>1. Types' /\ Limits'
  BY DEF IInv, Types, Limits, Calls, Cancel
<1>2. /\ \A x \in Callers \ {w} : call'[x] = call[x]
      /\ call'[w].st = call[w].st /\ call'[w].src = call[w].src
  BY DEF IInv, Types, Calls, Cancel
<1>3. /\ globalTaken' = globalTaken + One(Flies(call'[w])) - One(Flies(call[w]))
      /\ \A x \in Sources : sourceTaken'[x] =
           sourceTaken[x] + One(Holds(call'[w], x)) - One(Holds(call[w], x))
  BY <1>2 DEF IInv, Types, Cancel, Flies, Holds, One
<1> QED BY <1>1, <1>2, <1>3, OneCallMoves

LEMMA ResumeInv ==
  ASSUME IInv, NEW w \in Callers, Resume(w)
  PROVE  IInv'
<1>1. Types' /\ Limits'
  <2>1. call[w].attempt + 1 \in 0..Retries
    BY HttpAssumption DEF IInv, Types, Calls, Resume, At
  <2> QED BY <2>1 DEF IInv, Types, Limits, Calls, Resume
<1>2. /\ \A x \in Callers \ {w} : call'[x] = call[x]
      /\ call'[w].st = "source" /\ call[w].st = "pause"
  BY DEF IInv, Types, Calls, Resume, At
<1>3. /\ globalTaken' = globalTaken + One(Flies(call'[w])) - One(Flies(call[w]))
      /\ \A x \in Sources : sourceTaken'[x] =
           sourceTaken[x] + One(Holds(call'[w], x)) - One(Holds(call[w], x))
  BY <1>2 DEF IInv, Types, Resume, Flies, Holds, One
<1> QED BY <1>1, <1>2, <1>3, OneCallMoves

(* A request ends in one way: both permits go back, and the call returns   *)
(* or pauses.                                                              *)
LEMMA RequestEnds ==
  ASSUME IInv, NEW w \in Callers, call[w].st \in {"send", "body"}, ReleaseBoth(w),
         Return(w) \/ (call[w].attempt < Retries /\ Goto(w, "pause"))
  PROVE  IInv'
<1>1. Types' /\ Limits'
  BY LimitTypes, IdleCall
  DEF IInv, Types, Limits, Calls, ReleaseBoth, ReleaseSource, Return, Goto
<1>2. \A x \in Callers \ {w} : call'[x] = call[x]
  BY DEF IInv, Types, Return, Goto
<1>3. ~Flies(call'[w]) /\ \A x \in Sources : ~Holds(call'[w], x)
  BY IdleCall DEF IInv, Types, Calls, Return, Goto, Flies, Holds
<1>4. Flies(call[w]) /\ call[w].src \in Sources
      /\ \A x \in Sources : Holds(call[w], x) <=> call[w].src = x
  BY DEF IInv, Types, Calls, Flies, Holds
<1>5. /\ globalTaken' = globalTaken + One(Flies(call'[w])) - One(Flies(call[w]))
      /\ \A x \in Sources : sourceTaken'[x] =
           sourceTaken[x] + One(Holds(call'[w], x)) - One(Holds(call[w], x))
  BY <1>3, <1>4 DEF IInv, Types, ReleaseBoth, ReleaseSource, One
<1> QED BY <1>1, <1>2, <1>5, OneCallMoves

LEMMA NextInv == IInv /\ [Next]_vars => IInv'
<1> SUFFICES ASSUME IInv, [Next]_vars PROVE IInv'
  OBVIOUS
<1>1. ASSUME NEW w \in Callers, NEW s \in Sources, NEW c \in BOOLEAN, Begin(w, s, c)
      PROVE  IInv'
  BY <1>1, BeginInv
<1>2. ASSUME NEW w \in Callers, AcquireSource(w) PROVE IInv'
  BY <1>2, AcquireSourceInv
<1>3. ASSUME NEW w \in Callers, AcquireGlobal(w) PROVE IInv'
  BY <1>3, AcquireGlobalInv
<1>4. ASSUME NEW w \in Callers, GiveUpSource(w) \/ StopPause(w) PROVE IInv'
  BY <1>4, ReturnInv
<1>5. ASSUME NEW w \in Callers, GiveUpGlobal(w) PROVE IInv'
  BY <1>5, GiveUpGlobalInv
<1>6. ASSUME NEW w \in Callers, Respond(w) PROVE IInv'
  BY <1>6, RespondInv
<1>7. ASSUME NEW w \in Callers, Fail(w) PROVE IInv'
  BY <1>7, RequestEnds DEF Fail, AfterFailure, At
<1>8. ASSUME NEW w \in Callers, Consume(w) PROVE IInv'
  BY <1>8, RequestEnds DEF Consume, At
<1>9. ASSUME NEW w \in Callers, NEW retryable \in BOOLEAN, Break(w, retryable) PROVE IInv'
  BY <1>9, RequestEnds DEF Break, AfterFailure, At
<1>10. ASSUME NEW w \in Callers, Resume(w) PROVE IInv'
  BY <1>10, ResumeInv
<1>11. ASSUME NEW w \in Callers, Cancel(w) PROVE IInv'
  BY <1>11, CancelInv
<1>12. CASE UNCHANGED vars
  BY <1>12 DEF IInv, Types, Limits, Balance, InFlight, Holders, Holds, At, vars
<1> QED
  BY <1>1, <1>2, <1>3, <1>4, <1>5, <1>6, <1>7, <1>8, <1>9, <1>10, <1>11, <1>12 DEF Next

-----------------------------------------------------------------------------
(* Theorems. *)

(* IInv holds in every reachable state. *)
THEOREM Invariance == Spec => []IInv
BY InitInv, NextInv, PTL DEF Spec

(* Every permit taken belongs to a request that stands for it: none leaks  *)
(* on an error path, none is held during a pause.                          *)
THEOREM NoPermitLeaks == Spec => []PermitsBalanced
<1>1. IInv => PermitsBalanced
  BY DEF IInv, Balance, PermitsBalanced, Holders, Holds, At
<1> QED BY <1>1, Invariance, PTL

(* The limiters are never below empty nor above their capacity. *)
THEOREM TypeCorrect == Spec => []TypeOK
<1>1. IInv => TypeOK
  <2> SUFFICES ASSUME IInv PROVE TypeOK
    OBVIOUS
  <2>1. Cardinality(InFlight) \in Nat
        /\ \A s \in Sources : Cardinality(Holders(s)) \in Nat
    BY SetsFinite, FS_CardinalityType
  <2> QED BY <2>1, LimitTypes DEF IInv, Types, Limits, Balance, TypeOK
<1> QED BY <1>1, Invariance, PTL

(* No more requests are in flight than the limits of the process and of    *)
(* each source allow, whatever fails or is cancelled.                      *)
THEOREM LimitsHold == Spec => []InFlightBounded
<1>1. IInv => InFlightBounded
  <2> SUFFICES ASSUME IInv PROVE InFlightBounded
    OBVIOUS
  <2>1. Cardinality(InFlight) <= GlobalLimit
    BY DEF IInv, Balance, Limits
  <2>2. ASSUME NEW s \in Sources
        PROVE  Cardinality({w \in InFlight : call[w].src = s}) <= SourceLimit[s]
    <3> DEFINE Here == {w \in InFlight : call[w].src = s}
    <3>1. Here \subseteq Holders(s)
      BY DEF InFlight, Holders, Holds, At
    <3>2. IsFiniteSet(Here) /\ Cardinality(Here) <= Cardinality(Holders(s))
      BY <3>1, SetsFinite, FS_Subset
    <3>3. Cardinality(Here) \in Nat /\ Cardinality(Holders(s)) \in Nat
      BY <3>2, SetsFinite, FS_CardinalityType
    <3>4. Cardinality(Holders(s)) <= SourceLimit[s]
      BY DEF IInv, Balance, Limits
    <3> QED BY <3>2, <3>3, <3>4, LimitTypes
  <2> QED BY <2>1, <2>2 DEF InFlightBounded
<1> QED BY <1>1, Invariance, PTL
=============================================================================
