------------------------------ MODULE Retriever ------------------------------
(***************************************************************************)
(* One call of Retriever.Retrieve (internal/source/gitlab/cache,           *)
(* retriever.go): the caller selects on its context and on a channel, to   *)
(* which a worker goroutine (resolveWithBackoff) sends the outcome of up   *)
(* to MaxRetries API requests.  The channel has no buffer.                 *)
(***************************************************************************)
EXTENDS Naturals

CONSTANTS
  RetrievalTimeout,      \* retrievalTimeout
  MaxRetrievalInterval,  \* maxRetrievalInterval
  MaxRetrievalRetries,   \* maxRetrievalRetries
  MaxTime                \* bound on the clock

ASSUME RetrieverAssumption ==
  /\ RetrievalTimeout \in Nat
  /\ MaxRetrievalInterval \in Nat
  /\ MaxRetrievalRetries \in Nat
  /\ MaxTime \in Nat

VARIABLES
  now,      \* time since Retrieve was called
  caller,   \* "idle", "select", "returned"
  result,   \* the lookup Retrieve returned
  worker,   \* "none", "loop", "get", "sleep", "send", "exit"
  attempt,  \* i of the loop: GetLookup calls begun
  dead,     \* this attempt began with a context that was already done
  lookup,   \* the worker's variable of that name
  wake      \* when time.Sleep returns

retrieveVars == <<now, caller, result, worker, attempt, dead, lookup, wake>>

(***************************************************************************)
(* Outcomes of client.GetLookup: a domain, ErrDomainDoesNotExist,          *)
(* ErrUnauthorizedAPI, any other error.  "zero" is the zero api.Lookup,    *)
(* with neither a domain nor an error.                                     *)
(***************************************************************************)
Outcome  == {"ok", "gone", "unauthorized", "err"}
Definite == {"ok", "gone", "unauthorized"}

\* The context is done once its timeout is over or Retrieve has returned.
CtxDone == now >= RetrievalTimeout \/ caller = "returned"

RetrieveInit ==
  /\ now = 0
  /\ caller = "idle"
  /\ result = "none"
  /\ worker = "none"
  /\ attempt = 0
  /\ dead = FALSE
  /\ lookup = "zero"
  /\ wake = 0

-----------------------------------------------------------------------------
(* Retrieve                                                                *)

\* select evaluates its operands first: the worker starts in any case.
Retrieve ==
  /\ caller = "idle"
  /\ caller' = "select"
  /\ worker' = "loop"
  /\ UNCHANGED <<now, result, attempt, dead, lookup, wake>>

\* case <-ctx.Done()
ContextDone ==
  /\ caller = "select"
  /\ now >= RetrievalTimeout
  /\ caller' = "returned"
  /\ result' = "timeout"
  /\ UNCHANGED <<now, worker, attempt, dead, lookup, wake>>

\* Mutant: a late answer overwrites the lookup that was returned.
ReceiveAfterReturn ==
  /\ caller # "idle"
  /\ worker = "send"
  /\ caller' = "returned"
  /\ result' = lookup
  /\ worker' = "exit"
  /\ UNCHANGED <<now, attempt, dead, lookup, wake>>

\* case lookup = <-r.resolveWithBackoff(ctx, domain), and the worker's send
Receive ==
  /\ caller = "select"
  /\ worker = "send"
  /\ caller' = "returned"
  /\ result' = lookup
  /\ worker' = "exit"
  /\ UNCHANGED <<now, attempt, dead, lookup, wake>>

-----------------------------------------------------------------------------
(* The worker of resolveWithBackoff                                        *)

\* Mutant: one attempt less.
LoopOneShort ==
  /\ worker = "loop"
  /\ IF attempt + 1 < MaxRetrievalRetries
     THEN attempt' = attempt + 1 /\ dead' = CtxDone /\ worker' = "get"
     ELSE worker' = "send" /\ UNCHANGED <<attempt, dead>>
  /\ UNCHANGED <<now, caller, result, lookup, wake>>

\* Mutant: no bound on the attempts (the last ones are counted as one).
LoopForever ==
  /\ worker = "loop"
  /\ attempt' = IF attempt < MaxRetrievalRetries THEN attempt + 1 ELSE attempt
  /\ dead' = CtxDone
  /\ worker' = "get"
  /\ UNCHANGED <<now, caller, result, lookup, wake>>

Loop ==
  /\ worker = "loop"
  /\ IF attempt < MaxRetrievalRetries
     THEN attempt' = attempt + 1 /\ dead' = CtxDone /\ worker' = "get"
     ELSE worker' = "send" /\ UNCHANGED <<attempt, dead>>
  /\ UNCHANGED <<now, caller, result, lookup, wake>>

\* A request with a context that is done fails without reaching the API.
GetLookup(o) ==
  /\ worker = "get"
  /\ dead => o = "err"
  /\ lookup' = o
  /\ \/ /\ o \in Definite
        /\ worker' = "send" /\ wake' = wake
     \/ /\ o \notin Definite
        /\ worker' = "sleep" /\ wake' = now + MaxRetrievalInterval
  /\ UNCHANGED <<now, caller, result, attempt, dead>>

Wake ==
  /\ worker = "sleep"
  /\ now >= wake
  /\ worker' = "loop"
  /\ UNCHANGED <<now, caller, result, attempt, dead, lookup, wake>>

(***************************************************************************)
(* Time passes while both goroutines wait: the caller for its context, the *)
(* worker for the API, for its context or for the end of its sleep.  (The  *)
(* timeouts are seconds; goroutines that can run do so much sooner.)       *)
(***************************************************************************)
Tick ==
  /\ now < MaxTime
  /\ caller = "select" => now < RetrievalTimeout
  /\ \/ worker \in {"send", "exit"}
     \/ worker = "get" /\ ~CtxDone
     \/ worker = "sleep" /\ now < wake
  /\ now' = now + 1
  /\ UNCHANGED <<caller, result, worker, attempt, dead, lookup, wake>>

-----------------------------------------------------------------------------

Worker == Loop \/ (\E o \in Outcome : GetLookup(o)) \/ Wake

RetrieveNext == Retrieve \/ ContextDone \/ Receive \/ Worker \/ Tick

RetrieveSpec == RetrieveInit /\ [][RetrieveNext]_retrieveVars

(***************************************************************************)
(* Goroutines that can run do run, the clock moves, and a GetLookup ends:  *)
(* the HTTP client has a timeout and the context has a deadline.           *)
(***************************************************************************)
Fairness ==
  WF_retrieveVars(Worker) /\ WF_retrieveVars(ContextDone) /\ WF_retrieveVars(Receive) /\ WF_retrieveVars(Tick)

FairSpec == RetrieveSpec /\ Fairness

-----------------------------------------------------------------------------
(* Properties                                                              *)

RetrieveTypeOK ==
  /\ now \in 0..MaxTime
  /\ caller \in {"idle", "select", "returned"}
  /\ result \in Outcome \cup {"none", "zero", "timeout"}
  /\ worker \in {"none", "loop", "get", "sleep", "send", "exit"}
  /\ attempt \in 0..MaxRetrievalRetries
  /\ dead \in BOOLEAN
  /\ lookup \in Outcome \cup {"zero"}
  /\ wake \in Nat

(***************************************************************************)
(* A failure is reported for a reason: an error only after all the         *)
(* attempts, a timeout only after the timeout, and the zero lookup (which  *)
(* GetDomain would dereference) only if the configuration allows no        *)
(* attempt at all.                                                         *)
(***************************************************************************)
FailureJustified ==
  /\ result = "err" => attempt = MaxRetrievalRetries
  /\ result = "timeout" => now >= RetrievalTimeout
  /\ result = "zero" => MaxRetrievalRetries = 0

(***************************************************************************)
(* "do not retry if the domain does not exist or there is an auth error":  *)
(* a definite answer ends the loop, and it is what a caller that has not   *)
(* timed out gets.                                                         *)
(***************************************************************************)
DefiniteAnswerIsFinal ==
  [][(lookup \in Definite) =>
       /\ attempt' = attempt /\ lookup' = lookup
       /\ (result = "none" /\ result' # "none") => result' \in {lookup, "timeout"}]_retrieveVars

(***************************************************************************)
(* The worker goroutine ends, except after a timeout: then it goes through *)
(* its remaining attempts, and its send on the unbuffered channel, which   *)
(* nobody receives from, keeps it for ever.                                *)
(***************************************************************************)
WorkerEndsUnlessTimeout ==
  worker = "loop" ~> (worker = "exit" \/ (worker = "send" /\ result = "timeout"))

\* What module DomainCache assumes of a retrieval (module RetrievalPromise).
Running == caller = "select"

LookupKind(r) ==
  IF r \in {"unauthorized", "err", "timeout"} THEN "err" ELSE r

Promise == INSTANCE RetrievalPromise WITH
  running <- Running, answer <- LookupKind(result)

KeepsPromise == Promise!Spec

=============================================================================
