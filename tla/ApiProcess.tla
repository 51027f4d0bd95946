----------------------------- MODULE ApiProcess -----------------------------
(***************************************************************************)
(* The life of an API process from the moment it listens, main() of        *)
(* cmd/api/main.go: the calls it has in hand, the telemetry worker they    *)
(* notify (by what EventSink promises of it), and the way it stops.        *)
(*                                                                         *)
(* A client makes the calls of the simulator's flow, one at a time and in  *)
(* their order; held counts the ones the store has carried out for it.     *)
(* A handler may take for ever: nothing but the 5 s of the shutdown        *)
(* context ends the wait for it.                                           *)
(***************************************************************************)
EXTENDS Naturals

CONSTANTS
    Client,     \* the virtual devices
    Calls,      \* the calls of a flow (6: provision, activate, register,
                \* attach, handover, detach)
    Notifying   \* the ones whose service notifies the worker (the last 3)

ASSUME FlowAssumption ==
    /\ Calls \in Nat \ {0}
    /\ Notifying \subseteq 1..Calls

VARIABLES
    main,       \* where main is: "listening", "draining" (in server.Shutdown),
                \* "drained", "closing" (in worker.Shutdown) or "exited"
    expired,    \* the shutdown context is over
    ending,     \* how main ended: "none", "returned" or "aborted"
    errors,     \* the Shutdowns that gave main an error: "http", "worker"
    call,       \* the call each client has made, 0 for none
    handler,    \* where it is: "none", "sent", or in the hands of a handler
    held,       \* how many calls of each client's flow the store has carried out
    fate, sink  \* the telemetry worker

process == <<main, expired, ending, errors>>
handling == <<call, handler, held>>
worker == <<fate, sink>>
api == <<process, handling, worker>>

Event == Client \X Notifying

Telemetry == INSTANCE EventSink

InHand == {"running", "stored", "ok", "error"}

ApiInit ==
    /\ main = "listening" /\ expired = FALSE /\ ending = "none" /\ errors = {}
    /\ call = [c \in Client |-> 0]
    /\ handler = [c \in Client |-> "none"]
    /\ held = [c \in Client |-> 0]
    /\ Telemetry!Init

-----------------------------------------------------------------------------
(* The handlers                                                            *)

Alive == main # "exited"

Move(c, from, to) == handler[c] = from /\ handler' = [handler EXCEPT ![c] = to]

\* A client sends a call, while the listener is open.
Send(c, k) ==
    /\ main = "listening"
    /\ Move(c, "none", "sent")
    /\ call' = [call EXCEPT ![c] = k]
    /\ UNCHANGED <<process, held, worker>>

\* Its request is read, at once, after its client has left, or never.
\* server.Shutdown closes the connections at rest, but a new one may still
\* bring its first request while it waits, or after it has given up.
Accept(c) ==
    /\ Alive
    /\ main \in {"listening", "draining"} \/ "http" \in errors
    /\ Move(c, "sent", "running")
    /\ UNCHANGED <<process, call, held, worker>>

\* The service stores the change and comes to the notification, if it has one.
Carry(c) ==
    /\ Alive
    /\ Move(c, "running", IF call[c] \in Notifying THEN "stored" ELSE "ok")
    /\ held' = [held EXCEPT ![c] = call[c]]
    /\ UNCHANGED <<process, call, worker>>

\* The change is not made, or it is made and the store's answer is lost.
Reject(c) ==
    /\ Alive
    /\ Move(c, "running", "error")
    /\ held' = [held EXCEPT ![c] = call[c]] \/ UNCHANGED held
    /\ UNCHANGED <<process, call, worker>>

\* worker.Emit, and the answer is ready.
Notify(c) ==
    /\ Alive
    /\ Move(c, "stored", "ok")
    /\ LET e == <<c, call[c]>> IN
         Telemetry!Accept(e) \/ Telemetry!Drop(e) \/ Telemetry!Refuse(e)
    /\ UNCHANGED <<process, call, held>>

\* The answer is written, to a client that reads it or to one that has gone.
Respond(c) ==
    /\ Alive
    /\ handler[c] \in {"ok", "error"}
    /\ handler' = [handler EXCEPT ![c] = "none"]
    /\ call' = [call EXCEPT ![c] = 0]
    /\ UNCHANGED <<process, held, worker>>

Serve(c) == Accept(c) \/ Carry(c) \/ Reject(c) \/ Notify(c)

-----------------------------------------------------------------------------
(* The telemetry worker's goroutine                                        *)

Count ==
    /\ Alive
    /\ (\E e \in Event : Telemetry!Count(e)) \/ Telemetry!Finish
    /\ UNCHANGED <<process, handling>>

-----------------------------------------------------------------------------
(* main                                                                    *)

Signal ==
    /\ main = "listening"
    /\ main' = "draining"
    /\ UNCHANGED <<expired, ending, errors, handling, worker>>

\* The 5 s, which both Shutdowns share.
Expire ==
    /\ main \in {"draining", "drained", "closing"} /\ ~ expired
    /\ expired' = TRUE
    /\ UNCHANGED <<main, ending, errors, handling, worker>>

\* Mutant: the server is closed without waiting for its handlers.
HttpClosed ==
    /\ main = "draining"
    /\ main' = "drained"
    /\ UNCHANGED <<expired, ending, errors, handling, worker>>

\* server.Shutdown returns nil when no call is in hand ...
HttpStopped ==
    /\ main = "draining"
    /\ \A c \in Client : handler[c] \notin InHand
    /\ main' = "drained"
    /\ UNCHANGED <<expired, ending, errors, handling, worker>>

\* Mutant: a Shutdown with a context that never ends.
HttpWaits ==
    /\ FALSE
    /\ UNCHANGED api

\* ... or the context's error, and main goes on.
HttpTimeout ==
    /\ main = "draining" /\ expired
    /\ main' = "drained"
    /\ errors' = errors \cup {"http"}
    /\ UNCHANGED <<expired, ending, handling, worker>>

CloseWorker ==
    /\ main = "drained"
    /\ main' = "closing"
    /\ Telemetry!Close
    /\ UNCHANGED <<expired, ending, errors, handling>>

Exit(how) == main' = "exited" /\ ending' = how

WorkerStopped ==
    /\ main = "closing" /\ sink = "done"
    /\ Exit("returned")
    /\ UNCHANGED <<expired, errors, handling, worker>>

WorkerTimeout ==
    /\ main = "closing" /\ expired
    /\ Exit("returned")
    /\ errors' = errors \cup {"worker"}
    /\ UNCHANGED <<expired, handling, worker>>

\* log.Fatal on an error of ListenAndServe, or a kill.
Abort ==
    /\ Alive
    /\ Exit("aborted")
    /\ UNCHANGED <<expired, errors, handling, worker>>

Stop == HttpStopped \/ HttpTimeout \/ CloseWorker \/ WorkerStopped \/ WorkerTimeout

-----------------------------------------------------------------------------
ApiTypeOK ==
    /\ main \in {"listening", "draining", "drained", "closing", "exited"}
    /\ expired \in BOOLEAN
    /\ ending \in {"none", "returned", "aborted"}
    /\ errors \subseteq {"http", "worker"}
    /\ call \in [Client -> 0..Calls]
    /\ handler \in [Client -> {"none", "sent"} \cup InHand]
    /\ held \in [Client -> 0..Calls]
    /\ fate \in [Event -> {"none", "queued", "counted", "dropped", "refused"}]
    /\ sink \in {"open", "closed", "done"}
    /\ ending = "none" <=> Alive

Settled == {"counted", "dropped"}

\* An API that ends without an error from either Shutdown has cut no call and
\* lost no event; and a call's event is refused only if server.Shutdown ran out
\* of the 5 s both share, and main closed the worker under the handlers it had
\* not waited for (main.go:244-256).
QuietStopLosesNothing ==
    /\ ending = "returned" /\ errors = {} =>
          /\ \A c \in Client : handler[c] \notin InHand
          /\ \A e \in Event : fate[e] # "none" => fate[e] \in Settled
    /\ (\E e \in Event : fate[e] = "refused") => "http" \in errors
=============================================================================
