------------------------------ MODULE Connection ------------------------------
(***************************************************************************)
(* core.New and Engine.Close with the goroutine between them.  The         *)
(* goroutine runs the Telegram client, whose callback reports on the       *)
(* channel "ready"; what the client returns goes to the channel "done".    *)
(* Both channels have room for one value, so their senders never wait.     *)
(***************************************************************************)

VARIABLES
    engine,     \* what New and Close are doing
    run,        \* how far client.Run is
    ready,      \* the value in ready: "empty", "ok" or "error"
    done,       \* whether there is a value in done
    cancelled   \* whether the client's context is cancelled

connectionVars == <<engine, run, ready, done, cancelled>>

ConnectionTypeOK ==
    /\ engine \in {"none", "connecting", "failing", "failed", "open", "closing", "closed"}
    /\ run \in {"none", "connecting", "refused", "callback", "waiting", "returning", "ended"}
    /\ ready \in {"empty", "ok", "error"}
    /\ done \in BOOLEAN
    /\ cancelled \in BOOLEAN

ConnectionInit ==
    /\ engine = "none"
    /\ run = "none"
    /\ ready = "empty"
    /\ done = FALSE
    /\ cancelled = FALSE

-----------------------------------------------------------------------------
(* The goroutine *)

RunConnected ==
    /\ run = "connecting"
    /\ run' = "callback"
    /\ UNCHANGED <<engine, ready, done, cancelled>>

\* Run returns before it has called the callback.
RunRefused ==
    /\ run = "connecting"
    /\ run' = "refused"
    /\ done' = TRUE
    /\ UNCHANGED <<engine, ready, cancelled>>

\* The account is authorized; the callback now waits for its context.
StatusAuthorized ==
    /\ run = "callback" /\ ~cancelled
    /\ ready' = "ok"
    /\ run' = "waiting"
    /\ UNCHANGED <<engine, done, cancelled>>

\* Faulty variant: an account that is not authorized is not reported.
StatusUnreported ==
    /\ run = "callback"
    /\ run' = "returning"
    /\ UNCHANGED <<engine, ready, done, cancelled>>

\* The status cannot be had, or the account is not authorized: the callback
\* reports it, and New may read the report while Run is still to return.
StatusFailed ==
    /\ run = "callback"
    /\ ready' = "error"
    /\ run' = "returning"
    /\ UNCHANGED <<engine, done, cancelled>>

\* The callback's context is done: Close, or the connection is lost for good.
ContextDone ==
    /\ run = "waiting"
    /\ run' = "returning"
    /\ UNCHANGED <<engine, ready, done, cancelled>>

\* The callback has returned: Run closes the connection and returns, and
\* the goroutine sends what it returned.
RunReturns ==
    /\ run = "returning"
    /\ run' = "ended"
    /\ done' = TRUE
    /\ UNCHANGED <<engine, ready, cancelled>>

-----------------------------------------------------------------------------
(* New and Close *)

New ==
    /\ engine = "none"
    /\ engine' = "connecting"
    /\ run' = "connecting"
    /\ UNCHANGED <<ready, done, cancelled>>

NewReturns ==
    /\ engine = "connecting" /\ ready = "ok"
    /\ ready' = "empty"
    /\ engine' = "open"
    /\ UNCHANGED <<run, done, cancelled>>

NewCancels ==
    /\ engine = "connecting" /\ ready = "error"
    /\ ready' = "empty"
    /\ cancelled' = TRUE
    /\ engine' = "failing"
    /\ UNCHANGED <<run, done>>

\* Faulty variant: the error is returned before the client has ended.
NewFailsAtOnce ==
    /\ engine = "failing"
    /\ engine' = "failed"
    /\ UNCHANGED <<run, ready, done, cancelled>>

NewFails ==
    /\ engine = "failing" /\ done
    /\ done' = FALSE
    /\ engine' = "failed"
    /\ UNCHANGED <<run, ready, cancelled>>

\* Faulty variant: Close waits for the client without telling it to stop.
CloseWaiting ==
    /\ engine = "open"
    /\ engine' = "closing"
    /\ UNCHANGED <<run, ready, done, cancelled>>

Close ==
    /\ engine = "open"
    /\ cancelled' = TRUE
    /\ engine' = "closing"
    /\ UNCHANGED <<run, ready, done>>

CloseReturns ==
    /\ engine = "closing" /\ done
    /\ done' = FALSE
    /\ engine' = "closed"
    /\ UNCHANGED <<run, ready, cancelled>>

\* The process is gone, and everything above with it.
Gone ==
    /\ engine' = "none"
    /\ run' = "none"
    /\ ready' = "empty"
    /\ done' = FALSE
    /\ cancelled' = FALSE

-----------------------------------------------------------------------------

\* Nothing is left of a connection that New or Close says has ended: the
\* client has returned, and no value is left in a channel for a later reader.
NothingLeft ==
    engine \in {"failed", "closed"} => run = "ended" /\ ready = "empty" /\ ~done

\* New waits although nothing will ever be sent on ready.
Hung == engine = "connecting" /\ run = "refused"
=============================================================================
