------------------------------ MODULE DriverProcess ------------------------------
(***************************************************************************)
(* The driver process (src/cmd/ontap-cosi-driver/main.go): how it starts,  *)
(* serves calls on its unix socket and ends, with the gRPC server and the  *)
(* container runtime around it as the code uses them.                      *)
(*                                                                         *)
(* Three goroutines besides the handlers: the main one (pc), shutdown (sd) *)
(* and the one that runs GracefulStop (gs).                                *)
(***************************************************************************)
EXTENDS Naturals

CONSTANTS
    Call,          \* RPC invocations, each made once
    Config,        \* environments to start in: see Configs
    MaxSignals,    \* bound on SIGTERM and SIGINT
    MaxKills       \* bound on SIGKILL and failures of Serve

VARIABLES
    config,        \* environment, configuration file and cluster
    pc,            \* the main goroutine; "down" when there is no process
    status,        \* how the last process ended; "alive" while there is one
    ctxDone,       \* the signal context is done
    sd,            \* the shutdown goroutine
    gs,            \* the goroutine in GracefulStop
    server,        \* the gRPC server
    socket,        \* the file of the unix socket, and whether it is listened on
    handler,       \* handler[k]: call k
    forced,        \* the grace period has expired
    signals, kills

processVars == <<config, pc, status, ctxDone, sd, gs, server, socket, handler, forced,
                 signals, kills>>

\* The mode is "" when the file has none; readable is false also for a file that
\* is no YAML.
Configs == [mode : {"", "s3:impl", "s3:fake", "azure:fake", "azure:impl", "unsupported"},
            readable : BOOLEAN, clientOK : BOOLEAN, multitenant : BOOLEAN, inCluster : BOOLEAN,
            listenable : BOOLEAN, override : BOOLEAN]

ASSUME ProcessAssumption ==
    Config \subseteq Configs /\ MaxSignals \in Nat /\ MaxKills \in Nat

\* The calls whose handlers run; the caller of one that is "cut" gets no answer.
Active == {k \in Call : handler[k] \in {"running", "cut"}}

----------------------------------------------------------------------------
(* The end of a process.                                                   *)

End(how) ==
    /\ pc' = "down" /\ status' = how
    /\ ctxDone' = FALSE /\ sd' = "none" /\ gs' = "none" /\ server' = "new" /\ forced' = FALSE
    /\ handler' = [k \in Call |-> IF k \in Active THEN "lost" ELSE handler[k]]
    /\ UNCHANGED config

\* A return from run: the deferred cleanup removes the socket, if run got that
\* far, and main exits.
Return(how) ==
    /\ End(how)
    /\ socket' = IF pc \in {"serve", "serving", "wait"} THEN "none" ELSE socket

\* The process dies without running any deferred function.
Die(how) ==
    /\ End(how)
    /\ socket' = IF socket = "live" THEN "stale" ELSE socket

----------------------------------------------------------------------------
(* run.                                                                    *)

Goto(l) == pc' = l /\ UNCHANGED <<config, status, ctxDone, gs, server, handler, forced>>

\* The container is started (again); nothing is left of the old process but the
\* file of its socket.
Boot ==
    /\ pc = "down"
    /\ pc' = "start" /\ status' = "alive"
    /\ UNCHANGED <<config, ctxDone, sd, gs, server, socket, handler, forced, signals, kills>>

NotifyContext ==
    /\ pc = "start"
    /\ Goto("config")
    /\ UNCHANGED <<sd, socket, signals, kills>>

\* UnmarshalYAML knows the mode; it is not called for a mode that is not there.
UnmarshalYAML == config.mode # "unsupported"

readConfig ==
    /\ pc = "config"
    /\ IF config.readable /\ UnmarshalYAML
         THEN Goto("client") /\ UNCHANGED <<sd, socket>> ELSE Return("error")
    /\ UNCHANGED <<signals, kills>>

\* The switch on the mode; it has no default, so that without a mode the driver
\* goes on without a client.
newClient ==
    /\ pc = "client"
    /\ \/ config.mode = "azure:impl" /\ Die("panic")
       \/ /\ config.mode = "s3:impl"
          /\ ~config.clientOK \/ (config.multitenant /\ ~config.inCluster)
          /\ Return("error")
       \/ /\ config.mode = "s3:impl"
          /\ config.clientOK /\ (config.multitenant => config.inCluster)
          /\ Goto("listen") /\ UNCHANGED <<sd, socket>>
       \/ /\ config.mode \in {"", "s3:fake", "azure:fake"}
          /\ Goto("listen") /\ UNCHANGED <<sd, socket>>
    /\ UNCHANGED <<signals, kills>>

\* Mutant: a stale socket is left where it is.
listenerKeepsStale ==
    /\ pc = "listen"
    /\ IF config.listenable /\ socket = "none"
         THEN Goto("serve") /\ sd' = "await" /\ socket' = "live" ELSE Return("error")
    /\ UNCHANGED <<signals, kills>>

\* Mutant: the socket is removed after it has been made.
listenerRemovesLate ==
    /\ pc = "listen"
    /\ IF config.listenable /\ socket = "none"
         THEN Goto("serve") /\ sd' = "await" ELSE Return("error")
    /\ socket' = "none"
    /\ UNCHANGED <<signals, kills>>

\* A stale socket is removed, then the listener made; shutdown starts.
listener ==
    /\ pc = "listen"
    /\ IF config.listenable
         THEN Goto("serve") /\ sd' = "await" /\ socket' = "live" ELSE Return("error")
    /\ UNCHANGED <<signals, kills>>

\* Serve registers the listener, or returns ErrServerStopped.
Serve ==
    /\ pc = "serve"
    /\ \/ /\ server = "new"
          /\ pc' = "serving" /\ server' = "open"
          /\ UNCHANGED <<config, status, ctxDone, sd, gs, socket, handler, forced>>
       \/ server # "new" /\ Return("error")
    /\ UNCHANGED <<signals, kills>>

\* Serve returns nil once the server has stopped.
ServeReturns ==
    /\ pc = "serving" /\ server = "stopped"
    /\ Goto("wait")
    /\ UNCHANGED <<sd, socket, signals, kills>>

\* Accept fails for good.
ServeFails ==
    /\ pc = "serving" /\ server = "open"
    /\ kills < MaxKills /\ kills' = kills + 1
    /\ Return("error")
    /\ UNCHANGED signals

\* wg.Wait.
Wait ==
    /\ pc = "wait" /\ sd = "done"
    /\ Return("ok")
    /\ UNCHANGED <<signals, kills>>

----------------------------------------------------------------------------
(* shutdown.                                                               *)

\* Closing a connection: the callers get no answer, the handlers go on.
CloseConnections ==
    handler' = [k \in Call |-> IF k \in Active THEN "cut" ELSE handler[k]]

\* Closing a listener that Serve has registered removes the file.
CloseListener == socket' = IF server = "open" THEN "none" ELSE socket

\* Mutant: the server is stopped at once.
shutdownAtOnce ==
    /\ sd = "await" /\ ctxDone
    /\ sd' = "done" /\ server' = "stopped"
    /\ CloseListener /\ CloseConnections
    /\ UNCHANGED <<config, pc, status, ctxDone, gs, forced, signals, kills>>

\* The context is done: GracefulStop gets a goroutine, the grace period begins.
shutdown ==
    /\ sd = "await" /\ ctxDone
    /\ sd' = "grace" /\ gs' = "stopping"
    /\ UNCHANGED <<config, pc, status, ctxDone, server, socket, handler, forced, signals, kills>>

\* No new calls are taken, ...
GracefulStop ==
    /\ gs = "stopping"
    /\ gs' = "draining"
    /\ server' = IF server = "stopped" THEN server ELSE "draining"
    /\ CloseListener
    /\ UNCHANGED <<config, pc, status, ctxDone, sd, handler, forced, signals, kills>>

\* ... and when the handlers have returned the server has stopped.
GracefulStopReturns ==
    /\ gs = "draining" /\ Active = {}
    /\ gs' = "done" /\ server' = "stopped"
    /\ UNCHANGED <<config, pc, status, ctxDone, sd, socket, handler, forced, signals, kills>>

Drained ==
    /\ sd = "grace" /\ gs = "done"
    /\ sd' = "done"
    /\ UNCHANGED <<config, pc, status, ctxDone, gs, server, socket, handler, forced,
                   signals, kills>>

\* Mutant: the grace period has no end.
GraceExpiresNever == FALSE /\ UNCHANGED processVars

\* The grace period expires: Stop closes the connections and does not wait.
GraceExpires ==
    /\ sd = "grace"
    /\ sd' = "done" /\ server' = "stopped" /\ forced' = TRUE
    /\ CloseListener /\ CloseConnections
    /\ UNCHANGED <<config, pc, status, ctxDone, gs, signals, kills>>

----------------------------------------------------------------------------
(* The world outside.                                                      *)

\* A signal: it kills a process that does not handle it yet, and one that is
\* shutting down ignores it.
Signal ==
    /\ pc # "down" /\ signals < MaxSignals /\ signals' = signals + 1
    /\ \/ pc = "start" /\ Die("killed")
       \/ /\ pc # "start" /\ ctxDone' = TRUE
          /\ UNCHANGED <<config, pc, status, sd, gs, server, socket, handler, forced>>
    /\ UNCHANGED kills

Kill ==
    /\ pc # "down" /\ kills < MaxKills /\ kills' = kills + 1
    /\ Die("killed")
    /\ UNCHANGED signals

\* A call is accepted.
Accept(k) ==
    /\ server = "open" /\ handler[k] = "none"
    /\ handler' = [handler EXCEPT ![k] = "running"]
    /\ UNCHANGED <<config, pc, status, ctxDone, sd, gs, server, socket, forced, signals, kills>>

\* The handler of call k returns.
Done(k) ==
    /\ k \in Active
    /\ handler' = [handler EXCEPT ![k] = IF @ = "running" THEN "answered" ELSE "lost"]
    /\ UNCHANGED <<config, pc, status, ctxDone, sd, gs, server, socket, forced, signals, kills>>

\* The handler of call k panics, which gRPC does not recover from.
Panic(k) ==
    /\ k \in Active
    /\ Die("panic")
    /\ UNCHANGED <<signals, kills>>

----------------------------------------------------------------------------
ProcessInit ==
    /\ config \in Config
    /\ pc = "down" /\ status = "none" /\ ctxDone = FALSE
    /\ sd = "none" /\ gs = "none" /\ server = "new" /\ socket = "none"
    /\ handler = [k \in Call |-> "none"]
    /\ forced = FALSE /\ signals = 0 /\ kills = 0

\* The steps of the goroutines other than the handlers.
Main ==
    \/ NotifyContext \/ readConfig \/ newClient \/ listener
    \/ Serve \/ ServeReturns \/ Wait

Shutdown == shutdown \/ Drained \/ GraceExpires

Stopper == GracefulStop \/ GracefulStopReturns

Outside == Signal \/ Kill \/ ServeFails

----------------------------------------------------------------------------
(* Correctness.                                                            *)

\* A process that got a signal ends, also when a handler hangs in a request
\* without a timeout and when the signal came before Serve.
SignalEnds == ctxDone ~> pc = "down"

\* With a usable configuration the driver serves for good once kills and signals
\* stop, whatever socket file a killed process left behind.
Recovers ==
    /\ config.mode = "s3:impl" /\ config.readable /\ config.clientOK /\ config.listenable
    /\ config.multitenant => config.inCluster
    => <>[](pc = "serving")

\* A shutdown answers the calls it finds: a call loses its answer only when the
\* grace period expires or the process ends by a kill, a panic or an error.
LostOnlyIfForced ==
    [][\A k \in Call : handler[k] = "running" /\ handler'[k] \in {"cut", "lost"} =>
          forced' \/ status' \in {"killed", "panic", "error"}]_processVars

\* A process that serves can be reached through its socket, and one that ended
\* well has left none.
SocketFitsProcess ==
    /\ pc = "serving" /\ server = "open" => socket = "live"
    /\ pc = "down" /\ status = "ok" => socket = "none"
====
