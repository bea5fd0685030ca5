------------------------------- MODULE Server -------------------------------
(***************************************************************************)
(* The process of src/cmd/main.go, from the environment it starts in to    *)
(* its exit: the main goroutine, one goroutine for each port, the signal   *)
(* that stops them, and the calls that are being served meanwhile.         *)
(*                                                                         *)
(* The goroutines share the two server pointers without a lock, and any of *)
(* them may end the process at once: log.Fatalf does not wait for the      *)
(* others, nor for stop.  The service is asked once per call and answers   *)
(* anything it may answer (AuthService); Redis is there or not when the    *)
(* service is built.                                                       *)
(***************************************************************************)
EXTENDS FrontEnd, ConfigLoad

CONSTANTS
    EnvironmentsTried,   \* the environments the process may be started in
    Messages,            \* the messages Envoy may send, on either port
    Calls                \* calls that may be under way at once

ASSUME EnvironmentsAssumption == EnvironmentsTried \subseteq Environments

(* A path, wherever a message carries one, is a sequence of pieces; the    *)
(* path of the message itself, if there, begins with a slash.              *)
ASSUME MessagesAssumption ==
    \A m \in Messages :
       /\ m.path \in Seq(STRING)
       /\ m.path # NoPath => Head(m.path) = "/"
       /\ \A header \in {m.originalPath, m.originalURI, m.forwardedURI} :
             header \subseteq Seq(STRING)

Ports == {"grpc", "http"}

Responses ==
    [allowed : {TRUE}, status : {"allowed", "degraded"}] \cup
    [allowed : {FALSE},
     status : {"denied", "invalid_token", "no_action_mapping",
               "circuit_breaker_open", "error"}]

BreakerStates == {"closed", "open", "half_open"}

VARIABLES
    config,      \* what Load has returned
    main,        \* where the main goroutine is
    thread,      \* thread[port]: where the goroutine of the port is
    stopped,     \* the ports whose server has been told to stop
    signalled,   \* a signal is there for main to receive
    exit,        \* "running", or how the process ended
    faulty,      \* history: a port could not be listened on, or broke down
    call         \* call[c]: the call c

vars == <<config, main, thread, stopped, signalled, exit, faulty, call>>

NoConfig == [mode |-> "none"]

NoCall == [at |-> "none"]

Asked(at) == [at : at, port : Ports, msg : Messages]

Replies ==
    [code : {"ok", "bad request", "forbidden"},
     status : {""} \cup {r.status : r \in Responses},
     health : {"", "healthy", "degraded"},
     breaker : {""} \cup BreakerStates]

Answered ==
    [at : {"answered"}, port : Ports, msg : Messages, reply : Replies,
     allowed : BOOLEAN]

(* The goroutine of the port has stored its server.                        *)
Created(port) == thread[port] \in {"created", "serving", "returned"}

TypeOK ==
    /\ config \in {NoConfig} \cup {Loaded(env) : env \in EnvironmentsTried}
    /\ main \in {"loading", "building", "launched", "waiting",
                 "stop grpc", "stop http", "flushing", "returning"}
    /\ thread \in [Ports -> {"off", "listening", "bound", "created",
                             "serving", "returned"}]
    /\ stopped \subseteq Ports
    /\ signalled \in BOOLEAN /\ faulty \in BOOLEAN
    /\ exit \in {"running", "clean", "fatal", "killed"}
    /\ call \in [Calls -> {NoCall} \cup Asked({"asking", "lost"}) \cup Answered]
    /\ \A port \in stopped : Created(port)
-----------------------------------------------------------------------------
Init ==
    /\ config = NoConfig
    /\ main = "loading"
    /\ thread = [port \in Ports |-> "off"]
    /\ stopped = {}
    /\ signalled = FALSE /\ faulty = FALSE
    /\ exit = "running"
    /\ call = [c \in Calls |-> NoCall]

Running == exit = "running"

(* The calls on some ports are cut off: their connections are closed.      *)
CutOff(ports) ==
    call' = [c \in Calls |->
               IF call[c].at = "asking" /\ call[c].port \in ports
               THEN [call[c] EXCEPT !.at = "lost"] ELSE call[c]]

(* The process ends, whatever its goroutines are at.                       *)
Exit(how) ==
    /\ exit' = how
    /\ CutOff(Ports)
    /\ UNCHANGED <<config, main, thread, stopped, signalled>>

Fatal == Exit("fatal") /\ UNCHANGED faulty

MainGoes(where) ==
    /\ main' = where
    /\ UNCHANGED <<config, thread, stopped, signalled, exit, faulty, call>>

ThreadGoes(port, where) ==
    /\ thread' = [thread EXCEPT ![port] = where]
    /\ UNCHANGED <<config, main, stopped, signalled, exit, faulty, call>>
-----------------------------------------------------------------------------
(* The main goroutine.                                                     *)
LoadConfig ==
    /\ main = "loading"
    /\ \E env \in EnvironmentsTried :
          IF Loads(env)
          THEN /\ main' = "building" /\ config' = Loaded(env)
               /\ UNCHANGED <<thread, stopped, signalled, exit, faulty, call>>
          ELSE Fatal

(* NewService, which pings Redis, and the start of the two goroutines.     *)
BuildService ==
    /\ main = "building"
    /\ main' = "launched"
    /\ thread' = [port \in Ports |-> "listening"]
    /\ UNCHANGED <<config, stopped, signalled, exit, faulty, call>>

BuildFails == main = "building" /\ Fatal

Notify == main = "launched" /\ MainGoes("waiting")

WakeUpAnyway ==   \* mutant: main does not wait for the signal
    main = "waiting" /\ MainGoes("stop grpc")

WakeUp == main = "waiting" /\ signalled /\ MainGoes("stop grpc")

StopPortUnchecked(port, here, next) ==   \* mutant: the server may be nil
    /\ main = here
    /\ main' = next
    /\ stopped' = stopped \cup {port} /\ CutOff({port})
    /\ UNCHANGED <<config, thread, signalled, exit, faulty>>

StopPortWhenIdle(port, here, next) ==   \* mutant: it drains an open port
    /\ main = here
    /\ \A c \in Calls : call[c].at = "asking" => call[c].port # port
    /\ main' = next
    /\ IF Created(port) THEN stopped' = stopped \cup {port} ELSE UNCHANGED stopped
    /\ UNCHANGED <<config, thread, signalled, exit, faulty, call>>

(* stop tells a server to stop if its goroutine has stored it by now.      *)
StopPort(port, here, next) ==
    /\ main = here
    /\ main' = next
    /\ IF Created(port)
       THEN stopped' = stopped \cup {port} /\ CutOff({port})
       ELSE UNCHANGED <<stopped, call>>
    /\ UNCHANGED <<config, thread, signalled, exit, faulty>>

StopGRPC == StopPort("grpc", "stop grpc", "stop http")
StopHTTP == StopPort("http", "stop http", "flushing")

(* service.Shutdown, which has five seconds and may fail.                  *)
Flush ==
    /\ main = "flushing"
    /\ MainGoes("returning")

MainReturns == main = "returning" /\ Exit("clean") /\ UNCHANGED faulty

Main ==
    \/ LoadConfig \/ BuildService \/ BuildFails \/ Notify \/ WakeUp
    \/ StopGRPC \/ StopHTTP \/ Flush \/ MainReturns
-----------------------------------------------------------------------------
(* The goroutine of a port.                                                *)
Serving(port) == thread[port] = "serving" /\ port \notin stopped

Listen(port) == thread[port] = "listening" /\ ThreadGoes(port, "bound")

(* The port is taken; or a server that serves cannot accept any more.      *)
BreakDown(port) ==
    /\ thread[port] = "listening" \/ Serving(port)
    /\ faulty' = TRUE
    /\ Exit("fatal")

CreateBlocked(port) == FALSE   \* mutant: nobody takes the port number

(* It puts the number of its port into a channel that has room for one,    *)
(* and stores its server.                                                  *)
Create(port) == thread[port] = "bound" /\ ThreadGoes(port, "created")

(* Serve starts, unless the server has been told to stop before.           *)
StartServing(port) ==
    /\ thread[port] = "created"
    /\ IF port \in stopped THEN Fatal ELSE ThreadGoes(port, "serving")

(* After a stop Serve returns: nil on the gRPC port, and on the HTTP port  *)
(* always an error.                                                        *)
ServeReturns(port) ==
    /\ thread[port] = "serving" /\ port \in stopped
    /\ IF port = "grpc" THEN ThreadGoes(port, "returned") ELSE Fatal

Thread(port) ==
    Listen(port) \/ Create(port) \/ StartServing(port) \/ ServeReturns(port)
-----------------------------------------------------------------------------
(* A call.                                                                 *)
Turn(port, m) == IF port = "grpc" THEN GrpcTurn(m) ELSE HttpTurn(m)

Update(c, value) ==
    /\ call' = [call EXCEPT ![c] = value]
    /\ UNCHANGED <<config, main, thread, stopped, signalled, exit, faulty>>

(* A message comes in and is answered at once ...                          *)
AnswerAtOnce(c, port, m) ==
    /\ Serving(port) /\ call[c].at # "asking"
    /\ Turn(port, m) # "ask"
    /\ Update(c, [at |-> "answered", port |-> port, msg |-> m,
                  reply |-> IF Turn(port, m) = "missing path"
                            THEN DenyMissingPath ELSE Allow,
                  allowed |-> FALSE])

(* ... or the service is asked ...                                         *)
Ask(c, port, m) ==
    /\ Serving(port) /\ call[c].at # "asking"
    /\ Turn(port, m) = "ask"
    /\ Update(c, [at |-> "asking", port |-> port, msg |-> m])

(* ... and its response told to Envoy.                                     *)
Answer(c) ==
    /\ call[c].at = "asking"
    /\ \E response \in Responses, breaker \in BreakerStates :
          Update(c, [at |-> "answered", port |-> call[c].port, msg |-> call[c].msg,
                     reply |-> IF call[c].port = "grpc"
                               THEN GrpcReply(response, breaker)
                               ELSE HttpReply(response, breaker),
                     allowed |-> response.allowed])

(* The operator.  Before main has asked for signals one kills the process. *)
Signal ==
    /\ ~signalled
    /\ IF main \in {"loading", "building", "launched"}
       THEN Exit("killed") /\ UNCHANGED faulty
       ELSE /\ signalled' = TRUE
            /\ UNCHANGED <<config, main, thread, stopped, exit, faulty, call>>

Arrive ==
    \E c \in Calls, port \in Ports, m \in Messages :
       AnswerAtOnce(c, port, m) \/ Ask(c, port, m)

Next ==
    /\ Running
    /\ \/ Main
       \/ \E port \in Ports : Thread(port) \/ BreakDown(port)
       \/ Arrive
       \/ \E c \in Calls : Answer(c)
       \/ Signal

Spec == Init /\ [][Next]_vars

(* The goroutines run on: building the service and stopping it have        *)
(* timeouts, and neither waits for a call.                                 *)
Fairness ==
    /\ WF_vars(Running /\ Main)
    /\ \A port \in Ports : WF_vars(Running /\ Thread(port))

FairSpec == Spec /\ Fairness
-----------------------------------------------------------------------------
(* The process only ever runs on a configuration that is usable, and that  *)
(* Validate, had it been called, would have rejected for want of an        *)
(* endpoint only.                                                          *)
RunsOnUsableConfig ==
    config # NoConfig =>
       /\ Usable(config)
       /\ Valid(config) <=> config.cerbos /\ config.mapping

(* What is asked about is asked in the same words on both ports, but for   *)
(* what PortsAgree names, and without a query.                             *)
AskedAlike ==
    \A c \in Calls :
       call[c].at = "asking" => PortsAgree(call[c].msg) /\ AskedPathIsBare(call[c].msg)

(* Envoy is told to let a request pass only if the service has allowed it, *)
(* or if nobody had to be asked about it.                                  *)
PassedWasAllowed ==
    \A c \in Calls :
       call[c].at = "answered" /\ call[c].reply.code = "ok" =>
          call[c].allowed \/ Turn(call[c].port, call[c].msg) \in {"preflight", "health"}

(* A call is cut off only by a signal or by a port that broke down: not    *)
(* even a stop that overtakes the start makes the process end on its own.  *)
LossHasACause ==
    (\E c \in Calls : call[c].at = "lost") =>
       signalled \/ faulty \/ exit = "killed"

(* The start ends: both ports serve, or the process has ended.             *)
StartEnds ==
    <>(exit # "running" \/ signalled \/ \A port \in Ports : thread[port] = "serving")

(* A signal ends the process, wherever its goroutines are.                 *)
StopEnds == signalled ~> exit # "running"
=============================================================================
