---------------------------- MODULE LimitListener ----------------------------
(***************************************************************************)
(* Listeners that share a pool of connection slots                         *)
(* (internal/netutil/shared_limit_listener.go).  Every listener has one    *)
(* goroutine, http.Server.Serve, that calls Accept in a loop: it takes a   *)
(* slot first and then waits for a connection.  The connection gives the   *)
(* slot back when it is closed.  The pool is a channel with a buffer of    *)
(* Slots elements: a send takes a slot, a receive gives one back.          *)
(***************************************************************************)
EXTENDS Naturals, FiniteSets

CONSTANTS Listener, Conn, Slots

ASSUME LimiterAssumption ==
  /\ IsFiniteSet(Listener) /\ IsFiniteSet(Conn)
  /\ Listener \cap Conn = {}
  /\ Slots \in Nat \ {0}       \* app.go: a Limiter exists only if MaxConns > 0

VARIABLES
  sem,        \* elements in limiter.sem
  acceptor,   \* where Serve's goroutine is in Accept
  held,       \* listeners whose Accept has acquired a slot
  listening,  \* listeners whose underlying net.Listener is open
  done,       \* listeners whose done channel is closed
  backlog,    \* connections the kernel holds for a listener
  open,       \* accepted connections whose releaseOnce has not fired
  again       \* closed connections that will be closed a second time

listenVars == <<sem, acceptor, held, listening, done, backlog, open, again>>

ListenInit ==
  /\ sem = 0
  /\ acceptor = [l \in Listener |-> "acquire"]
  /\ held = {}
  /\ listening = Listener
  /\ done = {}
  /\ backlog = [l \in Listener |-> {}]
  /\ open = {}
  /\ again = {}

InUse(c) == c \in open \cup again \cup UNION {backlog[l] : l \in Listener}

Connect(l, c) ==
  /\ l \in listening
  /\ ~InUse(c)
  /\ backlog' = [backlog EXCEPT ![l] = @ \cup {c}]
  /\ UNCHANGED <<sem, acceptor, held, listening, done, open, again>>

-----------------------------------------------------------------------------
(* Accept                                                                  *)

\* acquire, case sem <- struct{}{}
Acquire(l) ==
  /\ acceptor[l] = "acquire"
  /\ sem < Slots
  /\ sem' = sem + 1
  /\ held' = held \cup {l}
  /\ acceptor' = [acceptor EXCEPT ![l] = "accept"]
  /\ UNCHANGED <<listening, done, backlog, open, again>>

\* Mutant: acquire waits for a slot only.
AcquireIgnoresDone(l) == FALSE /\ l \in done /\ UNCHANGED listenVars

\* acquire, case <-l.done: Accept goes on without a slot
AcquireFails(l) ==
  /\ acceptor[l] = "acquire"
  /\ l \in done
  /\ acceptor' = [acceptor EXCEPT ![l] = "accept"]
  /\ UNCHANGED <<sem, held, listening, done, backlog, open, again>>

\* l.Listener.Accept() returns a connection; from now on the slot is its own.
AcceptConn(l, c) ==
  /\ acceptor[l] = "accept"
  /\ l \in listening
  /\ c \in backlog[l]
  /\ backlog' = [backlog EXCEPT ![l] = @ \ {c}]
  /\ open' = open \cup {c}
  /\ held' = held \ {l}
  /\ acceptor' = [acceptor EXCEPT ![l] = "acquire"]
  /\ UNCHANGED <<sem, listening, done, again>>

\* if acquired { l.release() }
ReleaseHeld(l) ==
  /\ held' = held \ {l}
  /\ IF l \in held THEN sem > 0 /\ sem' = sem - 1 ELSE sem' = sem

\* Mutant: an error that Serve does not know to be temporary ends its loop.
AcceptErrorStops(l) ==
  /\ acceptor[l] = "accept"
  /\ l \in listening
  /\ ReleaseHeld(l)
  /\ acceptor' = [acceptor EXCEPT ![l] = "stopped"]
  /\ UNCHANGED <<listening, done, backlog, open, again>>

\* A temporary error, such as too many open files: Serve calls Accept again.
AcceptError(l) ==
  /\ acceptor[l] = "accept"
  /\ l \in listening
  /\ ReleaseHeld(l)
  /\ acceptor' = [acceptor EXCEPT ![l] = "acquire"]
  /\ UNCHANGED <<listening, done, backlog, open, again>>

\* The underlying listener is closed: an error at once, and Serve returns.
AcceptClosed(l) ==
  /\ acceptor[l] = "accept"
  /\ l \notin listening
  /\ ReleaseHeld(l)
  /\ acceptor' = [acceptor EXCEPT ![l] = "stopped"]
  /\ UNCHANGED <<listening, done, backlog, open, again>>

-----------------------------------------------------------------------------
(* Close of a listener: the underlying listener first, then done.          *)

CloseListener(l) ==
  /\ l \in listening
  /\ listening' = listening \ {l}
  /\ backlog' = [backlog EXCEPT ![l] = {}]
  /\ UNCHANGED <<sem, acceptor, held, done, open, again>>

\* Mutant: closes done first.
CloseDoneFirst(l) ==
  /\ l \notin done
  /\ done' = done \cup {l}
  /\ UNCHANGED <<sem, acceptor, held, listening, backlog, open, again>>

CloseDone(l) ==
  /\ l \notin listening
  /\ l \notin done
  /\ done' = done \cup {l}
  /\ UNCHANGED <<sem, acceptor, held, listening, backlog, open, again>>

-----------------------------------------------------------------------------
(* Close of a connection, which its users may call more than once.         *)

CloseConn(c) ==
  /\ c \in open
  /\ sem > 0 /\ sem' = sem - 1
  /\ open' = open \ {c}
  /\ again' \in {again, again \cup {c}}
  /\ UNCHANGED <<acceptor, held, listening, done, backlog>>

\* releaseOnce has fired.
CloseAgain(c) ==
  /\ c \in again
  /\ again' = again \ {c}
  /\ UNCHANGED <<sem, acceptor, held, listening, done, backlog, open>>

-----------------------------------------------------------------------------

AcceptStep(l) ==
  \/ Acquire(l) \/ AcquireFails(l)
  \/ AcceptClosed(l)
  \/ \E c \in Conn : AcceptConn(l, c)

ListenNext ==
  \/ \E l \in Listener :
       \/ AcceptStep(l) \/ AcceptError(l)
       \/ CloseListener(l) \/ CloseDone(l)
       \/ \E c \in Conn : Connect(l, c)
  \/ \E c \in Conn : CloseConn(c) \/ CloseAgain(c)

ListenSpec == ListenInit /\ [][ListenNext]_listenVars

(***************************************************************************)
(* A goroutine that can run runs, blocked senders of a channel are served  *)
(* in the order they came, and the errors of the kernel's accept are       *)
(* temporary.  Nobody has to connect, to close a connection (the HTTP      *)
(* servers have no timeouts) or to close a listener; a Close that has      *)
(* begun ends.                                                             *)
(***************************************************************************)
Fairness ==
  \A l \in Listener :
    /\ WF_listenVars(AcceptStep(l))
    /\ SF_listenVars(Acquire(l))
    /\ SF_listenVars(\E c \in Conn : AcceptConn(l, c))
    /\ WF_listenVars(CloseDone(l))

FairSpec == ListenSpec /\ Fairness

-----------------------------------------------------------------------------
(* Properties                                                              *)

ListenTypeOK ==
  /\ sem \in 0..Slots
  /\ acceptor \in [Listener -> {"acquire", "accept", "stopped"}]
  /\ held \subseteq Listener
  /\ listening \subseteq Listener
  /\ done \subseteq Listener
  /\ backlog \in [Listener -> SUBSET Conn]
  /\ open \subseteq Conn
  /\ again \subseteq Conn

(***************************************************************************)
(* Every slot that is taken belongs to one Accept that waits for a         *)
(* connection or to one open connection, and each of those has one.  A     *)
(* connection accepted without a slot would later give back a slot that    *)
(* is not its own; "expect that this call to accept won't block, but       *)
(* immediately return an error" (Accept) is what rules that out.           *)
(***************************************************************************)
SlotsAccounted == sem = Cardinality(held \cup open)

\* No more than MaxConns connections are open, over all the listeners.
LimitHolds == Cardinality(open) <= Slots

\* release, a channel receive, finds its element: closing a connection, or
\* returning from a failed Accept, never blocks.
ReleaseNeverBlocks == held \cup open # {} => sem > 0

\* Serve's goroutine ends after Close, also if it waits for a slot that
\* never comes.
StopsAfterClose ==
  \A l \in Listener : l \notin listening ~> acceptor[l] = "stopped"

(***************************************************************************)
(* max-conns is a "Limit on the number of concurrent connections"          *)
(* (flags.go:55): when there is none, a connection gets in.  It holds if   *)
(* there are as many slots as listeners.  With fewer, a listener nobody    *)
(* connects to keeps the slot its Accept has acquired.                     *)
(***************************************************************************)
ServedWhenNoneOpen ==
  \A l \in Listener, c \in Conn :
    (c \in backlog[l] /\ open = {}) ~> (c \notin backlog[l] \/ open # {})

=============================================================================
