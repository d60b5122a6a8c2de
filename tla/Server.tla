---- MODULE Server ----
(***************************************************************************)
(* The server of main.go: ServeWithContext with its accept loop, the       *)
(* goroutine that closes the listener when the context ends (closeOnDone), *)
(* and for each accepted connection a serveConn goroutine with a watcher   *)
(* (closeConnOnDone).  What handleConn does on a connection is ConnHandler;*)
(* here it runs until it returns, by itself or because its connection was  *)
(* closed.                                                                 *)
(***************************************************************************)
EXTENDS Integers

CONSTANTS
    Conns,        \* connections clients may open
    BackoffBase,  \* first accept backoff, 5ms in the code
    BackoffCap,   \* largest accept backoff, 1s in the code
    MaxFailures   \* bound on retryable Accept errors in a row

ASSUME ServerAssumption ==
    /\ BackoffBase \in Nat \ {0}
    /\ BackoffCap \in Nat /\ BackoffBase <= BackoffCap
    /\ MaxFailures \in Nat

VARIABLES
    cancellable,    \* ctx.Done() is not nil
    ownsListener,   \* called through ListenAndServeWithContext
    ctxDone,        \* the context has been cancelled
    listener,       \* "open" or "closed"
    closer,         \* the goroutine of closeOnDone
    loop,           \* where ServeWithContext is
    result,         \* what it returned
    acceptBackoff,  \* local of acceptLoop
    failures,       \* history: retryable errors since the last accepted connection
    conn,           \* where each connection is: the client's queue or serveConn
    open,           \* the server's end of the connection is open
    stop,           \* the stop channel of closeConnOnDone is closed
    watcher         \* the goroutine of closeConnOnDone

serving == <<conn, open, stop, watcher>>
accepting == <<loop, result, acceptBackoff, failures>>
config == <<cancellable, ownsListener>>
vars == <<config, ctxDone, listener, closer, accepting, serving>>

Init ==
    /\ cancellable \in BOOLEAN
    /\ ownsListener \in BOOLEAN
    /\ ctxDone = FALSE
    /\ listener = "open"
    /\ closer = "none"
    /\ loop = "setup"
    /\ result = "none"
    /\ acceptBackoff = BackoffBase
    /\ failures = 0
    /\ conn = [c \in Conns |-> "unused"]
    /\ open = [c \in Conns |-> FALSE]
    /\ stop = [c \in Conns |-> FALSE]
    /\ watcher = [c \in Conns |-> "none"]

----
(* The environment: the caller cancels, a client connects. *)
Cancel ==
    /\ cancellable /\ ~ctxDone
    /\ ctxDone' = TRUE
    /\ UNCHANGED <<config, listener, closer, accepting, serving>>

Dial(c) ==
    /\ conn[c] = "unused" /\ listener = "open"
    /\ conn' = [conn EXCEPT ![c] = "queued"]
    /\ UNCHANGED <<config, ctxDone, listener, closer, accepting, open, stop, watcher>>

----
(* ServeWithContext up to the accept loop. *)
SetupFails ==
    /\ loop = "setup"
    /\ loop' = "returned"
    /\ result' = "setup error"
    /\ listener' = IF ownsListener THEN "closed" ELSE listener
    /\ UNCHANGED <<config, ctxDone, closer, acceptBackoff, failures, serving>>

SetupDone ==
    /\ loop = "setup"
    /\ loop' = "accept"
    /\ closer' = IF cancellable THEN "waiting" ELSE "none"
    /\ UNCHANGED <<config, ctxDone, listener, result, acceptBackoff, failures, serving>>

(* closeOnDone: the context is done, close the listener. *)
CloseListener ==
    /\ closer = "waiting" /\ ctxDone
    /\ listener' = "closed"
    /\ closer' = "exited"
    /\ UNCHANGED <<config, ctxDone, accepting, serving>>

----
(* acceptLoop *)

(* Plausible bug: a success does not reset the backoff. *)
AcceptKeepingBackoff(c) ==
    /\ loop = "accept" /\ listener = "open" /\ conn[c] = "queued"
    /\ failures' = 0
    /\ conn' = [conn EXCEPT ![c] = "accepted"]
    /\ open' = [open EXCEPT ![c] = TRUE]
    /\ UNCHANGED <<config, ctxDone, listener, closer, loop, result, acceptBackoff, stop, watcher>>

Accept(c) ==
    /\ loop = "accept" /\ listener = "open" /\ conn[c] = "queued"
    /\ acceptBackoff' = BackoffBase
    /\ failures' = 0
    /\ conn' = [conn EXCEPT ![c] = "accepted"]
    /\ open' = [open EXCEPT ![c] = TRUE]
    /\ UNCHANGED <<config, ctxDone, listener, closer, loop, result, stop, watcher>>

(* Errors of Accept: the listener is closed, an error that passes (a       *)
(* timeout, EINTR, EMFILE and the like), or any other.                     *)
AcceptErrors == {"closed", "transient", "other"}

isRetryableAcceptError(e) == e = "transient"

(* Accept fails.  A retryable error puts the loop to sleep; any other one  *)
(* ends it, and the deferred Close of ListenAndServeWithContext runs.      *)
AcceptFails(e) ==
    /\ loop = "accept" /\ (e = "closed" <=> listener = "closed")
    /\ \/ /\ isRetryableAcceptError(e) /\ failures < MaxFailures
          /\ loop' = "sleep"
          /\ failures' = failures + 1
          /\ UNCHANGED <<listener, result>>
       \/ /\ ~isRetryableAcceptError(e)
          /\ loop' = "returned"
          /\ result' = IF e = "closed" THEN "nil" ELSE "accept error"
          /\ listener' = IF ownsListener THEN "closed" ELSE listener
          /\ UNCHANGED failures
    /\ UNCHANGED <<config, ctxDone, closer, acceptBackoff, serving>>

(* Plausible bug: doubling without the ceiling. *)
BackoffUncapped(current) == current * 2

nextAcceptBackoff(current) ==
    IF current * 2 > BackoffCap THEN BackoffCap ELSE current * 2

(* Plausible bug: giving up at the largest backoff. *)
WakeBelowCap ==
    /\ loop = "sleep" /\ acceptBackoff < BackoffCap
    /\ loop' = "accept"
    /\ acceptBackoff' = nextAcceptBackoff(acceptBackoff)
    /\ UNCHANGED <<config, ctxDone, listener, closer, result, failures, serving>>

(* time.Sleep returns; it does not look at the context. *)
Wake ==
    /\ loop = "sleep"
    /\ loop' = "accept"
    /\ acceptBackoff' = nextAcceptBackoff(acceptBackoff)
    /\ UNCHANGED <<config, ctxDone, listener, closer, result, failures, serving>>

----
(* serveConn and its watcher *)

(* Plausible bug: a connection accepted after the cancellation is not watched. *)
StartUnlessDone(c) ==
    /\ conn[c] = "accepted"
    /\ conn' = [conn EXCEPT ![c] = "handling"]
    /\ watcher' = [watcher EXCEPT ![c] = IF cancellable /\ ~ctxDone THEN "waiting" ELSE "none"]
    /\ UNCHANGED <<config, ctxDone, listener, closer, accepting, open, stop>>

(* serveConn begins: closeConnOnDone starts the watcher. *)
Start(c) ==
    /\ conn[c] = "accepted"
    /\ conn' = [conn EXCEPT ![c] = "handling"]
    /\ watcher' = [watcher EXCEPT ![c] = IF cancellable THEN "waiting" ELSE "none"]
    /\ UNCHANGED <<config, ctxDone, listener, closer, accepting, open, stop>>

(* handleConn returns by itself: end of stream, idle timeout, an error. *)
HandlerReturns(c) ==
    /\ conn[c] = "handling"
    /\ conn' = [conn EXCEPT ![c] = "stopping"]
    /\ UNCHANGED <<config, ctxDone, listener, closer, accepting, open, stop, watcher>>

(* handleConn returns because its reads and writes fail with net.ErrClosed. *)
HandlerUnblocked(c) == ~open[c] /\ HandlerReturns(c)

(* Plausible bug: the stop channel is never closed. *)
StopWithoutSignal(c) ==
    /\ conn[c] = "stopping"
    /\ conn' = [conn EXCEPT ![c] = "closing"]
    /\ UNCHANGED <<config, ctxDone, listener, closer, accepting, open, stop, watcher>>

(* The deferred stop() runs before the deferred Close. *)
StopWatcher(c) ==
    /\ conn[c] = "stopping"
    /\ conn' = [conn EXCEPT ![c] = "closing"]
    /\ stop' = [stop EXCEPT ![c] = watcher[c] # "none"]
    /\ UNCHANGED <<config, ctxDone, listener, closer, accepting, open, watcher>>

(* Plausible bug: nothing closes the connection when the handler is done. *)
ExitWithoutClose(c) ==
    /\ conn[c] = "closing"
    /\ conn' = [conn EXCEPT ![c] = "exited"]
    /\ UNCHANGED <<config, ctxDone, listener, closer, accepting, open, stop, watcher>>

Exit(c) ==
    /\ conn[c] = "closing"
    /\ conn' = [conn EXCEPT ![c] = "exited"]
    /\ open' = [open EXCEPT ![c] = FALSE]
    /\ UNCHANGED <<config, ctxDone, listener, closer, accepting, stop, watcher>>

(* The watcher's select: the context is done, or the connection has ended. *)
WatcherCloses(c) ==
    /\ watcher[c] = "waiting" /\ ctxDone
    /\ open' = [open EXCEPT ![c] = FALSE]
    /\ watcher' = [watcher EXCEPT ![c] = "exited"]
    /\ UNCHANGED <<config, ctxDone, listener, closer, accepting, conn, stop>>

WatcherStops(c) ==
    /\ watcher[c] = "waiting" /\ stop[c]
    /\ watcher' = [watcher EXCEPT ![c] = "exited"]
    /\ UNCHANGED <<config, ctxDone, listener, closer, accepting, conn, open, stop>>

----
LoopStep ==
    \/ SetupDone \/ SetupFails
    \/ \E c \in Conns : Accept(c)
    \/ \E e \in AcceptErrors : AcceptFails(e)
    \/ Wake

ConnStep(c) == Start(c) \/ HandlerUnblocked(c) \/ StopWatcher(c) \/ Exit(c)

WatcherStep(c) == WatcherCloses(c) \/ WatcherStops(c)

(* Nothing is left to do until the caller or a client acts. *)
Quiet ==
    /\ loop = "returned" \/ (loop = "accept" /\ listener = "open")
    /\ UNCHANGED vars

Next ==
    \/ Cancel
    \/ LoopStep
    \/ CloseListener
    \/ \E c \in Conns : Dial(c) \/ ConnStep(c) \/ HandlerReturns(c) \/ WatcherStep(c)
    \/ Quiet

(* Every goroutine that can run is scheduled, and Accept returns when a    *)
(* connection is queued or the listener is closed.  No fairness on the     *)
(* caller, the clients, errors of Accept or a handler that goes on.        *)
Fairness ==
    /\ WF_vars(SetupDone \/ SetupFails)
    /\ WF_vars(\E c \in Conns : Accept(c))
    /\ WF_vars(Wake)
    /\ WF_vars(AcceptFails("closed"))
    /\ WF_vars(CloseListener)
    /\ \A c \in Conns : WF_vars(ConnStep(c)) /\ WF_vars(WatcherStep(c))

Spec == Init /\ [][Next]_vars /\ Fairness

----
TypeOK ==
    /\ cancellable \in BOOLEAN /\ ownsListener \in BOOLEAN /\ ctxDone \in BOOLEAN
    /\ listener \in {"open", "closed"}
    /\ closer \in {"none", "waiting", "exited"}
    /\ loop \in {"setup", "accept", "sleep", "returned"}
    /\ result \in {"none", "nil", "setup error", "accept error"}
    /\ acceptBackoff \in BackoffBase..BackoffCap
    /\ failures \in 0..MaxFailures
    /\ conn \in [Conns -> {"unused", "queued", "accepted", "handling", "stopping",
                           "closing", "exited"}]
    /\ open \in [Conns -> BOOLEAN]
    /\ stop \in [Conns -> BOOLEAN]
    /\ watcher \in [Conns -> {"none", "waiting", "exited"}]

(* A connection is open only while its serveConn goroutine is there to     *)
(* close it: however the cancellation, the watcher and the end of the      *)
(* handler interleave, no descriptor outlives its goroutine.               *)
NoOrphanConn ==
    \A c \in Conns : open[c] => conn[c] \in {"accepted", "handling", "stopping", "closing"}

(* The backoff of the accept loop is the one for the number of errors      *)
(* since the last accepted connection, from BackoffBase doubling up to     *)
(* BackoffCap: an earlier burst of errors leaves nothing behind.           *)
BackoffMatchesFailures ==
    LET slept == IF loop = "sleep" THEN failures - 1 ELSE failures
        doubled == BackoffBase * 2 ^ slept
    IN  acceptBackoff = IF doubled > BackoffCap THEN BackoffCap ELSE doubled

AllDown ==
    /\ loop = "returned"
    /\ \A c \in Conns : conn[c] \in {"unused", "queued", "exited"} /\ ~open[c]
                        /\ watcher[c] # "waiting"
    /\ closer # "waiting"
    /\ result # "setup error" \/ ownsListener => listener = "closed"

(* After a cancellation Serve returns, the listener is closed, every       *)
(* connection is closed and every goroutine has ended, also those of       *)
(* connections accepted after the cancellation and before the listener was *)
(* closed, and also when the loop was asleep in its backoff.               *)
ShutdownCompletes == ctxDone ~> AllDown

(* A client that connects is accepted, whatever retryable errors come in   *)
(* between, unless the server stops.                                       *)
QueuedIsAccepted ==
    \A c \in Conns : conn[c] = "queued" ~> (conn[c] # "queued" \/ loop = "returned"
                                            \/ listener = "closed")

(* The watcher of a finished connection ends even if the context never     *)
(* does: no goroutine leak on a long-running server.                       *)
WatcherEnds == \A c \in Conns : conn[c] = "exited" ~> watcher[c] # "waiting"

====
