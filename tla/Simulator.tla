------------------------------ MODULE Simulator ------------------------------
(***************************************************************************)
(* The load simulator, cmd/simulator, against an API process: a goroutine  *)
(* per virtual device that makes the calls of the flow, the collector, the *)
(* WaitGroup and the report.                                               *)
(*                                                                         *)
(* A call ends with the API's answer or without one: the client's 10 s,    *)
(* the end of the run's context, a refused or a cut connection.  The API   *)
(* does not learn which, and goes on with a call whose client has left.    *)
(***************************************************************************)
EXTENDS ApiProcess

VARIABLES
    device,     \* where each runVirtualDevice is
    step,       \* how many of its calls have succeeded
    results,    \* what the collector has for it: "none", "completed", "failed"
    run,        \* where Run is: "waiting", "polling" or "reported"
    report      \* the devices it counted as completed and as failed

simulator == <<device, step, results, run, report>>
vars == <<api, simulator>>

Init ==
    /\ ApiInit
    /\ device = [c \in Client |-> "ready"]
    /\ step = [c \in Client |-> 0]
    /\ results = [c \in Client |-> "none"]
    /\ run = "waiting"
    /\ report = [completed |-> {}, failed |-> {}]

-----------------------------------------------------------------------------
(* runVirtualDevice and the client                                         *)

Ask(c) ==
    /\ device[c] = "ready"
    /\ Send(c, step[c] + 1)
    /\ device' = [device EXCEPT ![c] = "asked"]
    /\ UNCHANGED <<step, results, run, report>>

Record(c, result) ==
    /\ device' = [device EXCEPT ![c] = "recorded"]
    /\ results' = [results EXCEPT ![c] = result]

\* Mutant: the status of the answer is not looked at.
AnyAnswer(c) ==
    /\ device[c] = "asked" /\ handler[c] \in {"ok", "error"}
    /\ Respond(c)
    /\ step' = [step EXCEPT ![c] = step[c] + 1]
    /\ IF step[c] + 1 = Calls
         THEN Record(c, "completed")
         ELSE device' = [device EXCEPT ![c] = "ready"] /\ UNCHANGED results
    /\ UNCHANGED <<run, report>>

\* Mutant: the flow ends one call late.
AnsweredLate(c) ==
    /\ device[c] = "asked" /\ handler[c] = "ok"
    /\ Respond(c)
    /\ step' = [step EXCEPT ![c] = step[c] + 1]
    /\ IF step[c] = Calls
         THEN Record(c, "completed")
         ELSE device' = [device EXCEPT ![c] = "ready"] /\ UNCHANGED results
    /\ UNCHANGED <<run, report>>

Answered(c) ==
    /\ device[c] = "asked" /\ handler[c] = "ok"
    /\ Respond(c)
    /\ step' = [step EXCEPT ![c] = step[c] + 1]
    /\ IF step[c] + 1 = Calls
         THEN Record(c, "completed")
         ELSE device' = [device EXCEPT ![c] = "ready"] /\ UNCHANGED results
    /\ UNCHANGED <<run, report>>

Failed(c) ==
    /\ device[c] = "asked" /\ handler[c] = "error"
    /\ Respond(c)
    /\ Record(c, "failed")
    /\ UNCHANGED <<step, run, report>>

\* Mutant: a client without a timeout, which only a cut connection frees.
Disconnected(c) ==
    /\ device[c] \in {"ready", "asked"} /\ ~ Alive
    /\ Record(c, "failed")
    /\ UNCHANGED <<api, step, run, report>>

Unanswered(c) ==
    /\ device[c] \in {"ready", "asked"}
    /\ Record(c, "failed")
    /\ UNCHANGED <<api, step, run, report>>

\* The deferred wg.Done.
Leave(c) ==
    /\ device[c] = "recorded"
    /\ device' = [device EXCEPT ![c] = "gone"]
    /\ UNCHANGED <<api, step, results, run, report>>

Device(c) == Ask(c) \/ Answered(c) \/ Failed(c) \/ Unanswered(c) \/ Leave(c)

\* An answer whose client has left.
Discard(c) ==
    /\ device[c] # "asked"
    /\ Respond(c)
    /\ UNCHANGED simulator

-----------------------------------------------------------------------------
(* Run                                                                     *)

\* Mutant: Run waits for the first device to leave.
WaitAny ==
    /\ run = "waiting" /\ \E c \in Client : device[c] = "gone"
    /\ run' = "polling"
    /\ UNCHANGED <<api, device, step, results, report>>

\* wg.Wait; GetTelemetry follows, and its failure only leaves its part out.
Wait ==
    /\ run = "waiting" /\ \A c \in Client : device[c] = "gone"
    /\ run' = "polling"
    /\ UNCHANGED <<api, device, step, results, report>>

Report ==
    /\ run = "polling"
    /\ run' = "reported"
    /\ report' = [completed |-> {c \in Client : results[c] = "completed"},
                  failed |-> {c \in Client : results[c] = "failed"}]
    /\ UNCHANGED <<api, device, step, results>>

-----------------------------------------------------------------------------
Next ==
    \/ \E c \in Client : Device(c)
    \/ \E c \in Client : (Serve(c) /\ UNCHANGED simulator) \/ Discard(c)
    \/ (Count \/ Signal \/ Expire \/ Stop \/ Abort) /\ UNCHANGED simulator
    \/ Wait
    \/ Report

Spec == Init /\ [][Next]_vars

\* The goroutines of the simulator and main run, and the timers fire: a call
\* that nobody answers ends.  A handler or the worker may hang.
FairSpec ==
    /\ Spec
    /\ \A c \in Client : WF_vars(Device(c))
    /\ WF_vars(Wait \/ Report)
    /\ WF_vars(Stop /\ UNCHANGED simulator)
    /\ WF_vars(Expire /\ UNCHANGED simulator)

-----------------------------------------------------------------------------
TypeOK ==
    /\ ApiTypeOK
    /\ device \in [Client -> {"ready", "asked", "recorded", "gone"}]
    /\ step \in [Client -> 0..Calls]
    /\ results \in [Client -> {"none", "completed", "failed"}]
    /\ run \in {"waiting", "polling", "reported"}
    /\ report.completed \subseteq Client /\ report.failed \subseteq Client

\* What the simulator says of a device is what the API holds for it: a completed
\* one has had its whole flow carried out and each event of it put to the
\* worker, one that failed at a call has had the calls before it carried out
\* and perhaps that one, later too, and the report counts every device once
\* (runner.go:82-205, client.go:115-161).
ReportAgreesWithApi ==
    /\ \A c \in Client :
          /\ results[c] = "completed" =>
                held[c] = Calls /\ \A k \in Notifying : fate[<<c, k>>] # "none"
          /\ results[c] = "failed" => held[c] \in {step[c], step[c] + 1}
    /\ run = "reported" =>
          /\ report.completed \cup report.failed = Client
          /\ report.completed \cap report.failed = {}
          /\ \A c \in report.completed : held[c] = Calls

\* The API that was told to stop exits, whatever its handlers do, and the run
\* comes to its report, whatever the API does (main.go:244-258, runner.go:173).
StopAndRunEnd ==
    /\ main = "draining" ~> main = "exited"
    /\ <>(run = "reported")
=============================================================================
