---------------------------- MODULE PluginProcess ---------------------------
(***************************************************************************)
(* The plugin process: plugin.Run, server.Run and the gRPC, health and     *)
(* metrics servers (internal/server), from the start to the exit, through  *)
(* signals, crashes and restarts, and with two versions of the plugin      *)
(* alive at once, which share the socket path and the ports of the host.   *)
(*                                                                         *)
(* The listeners, GracefulStop and Close are those of Go's net, net/http   *)
(* and of grpc (external).  Closing a UNIX listener removes its path,      *)
(* whoever's socket is there by then.  A server that is told to stop       *)
(* before it serves closes its listener as soon as it is to serve.         *)
(***************************************************************************)
EXTENDS Naturals

CONSTANTS
    N,          \* bound: the processes that are started, one after the other
    MaxRPCs     \* bound: RPCs that one process serves at once

Processes == 1 .. N
Nobody == 0
Http == {"health", "metrics"}

ASSUME ProcessAssumption == N \in Nat \ {0} /\ MaxRPCs \in Nat \ {0}

VARIABLES
    phase,      \* of each process: new, up, ended
    plugin,     \* PluginServer.Run: the next step, serving, returned, or failed:
                \* the host refused to remove the old socket or to make a new one
    http,       \* Run of the health and the metrics server
    stop,       \* listenSyscalls: the next step
    quit,       \* processes whose gRPC server was told to stop
    closed,     \* closed[p]: HTTP servers of p that were told to stop
    inFlight,   \* csi_plugin_operations_in_flight
    path,       \* the process whose socket is at the socket path
    \* what is to be observed
    alone,      \* processes that no other process has overlapped with
    killed,     \* processes that crashed or got a second signal
    ousted      \* processes whose socket another one removed

vars == <<phase, plugin, http, stop, quit, closed, inFlight, path, alone, killed,
          ousted>>

TypeOK ==
    /\ phase \in [Processes -> {"new", "up", "ended"}]
    /\ plugin \in [Processes -> {"cleanUp", "listen", "serve", "serving", "returned",
                                 "failed"}]
    /\ http \in [Processes -> [Http -> {"listen", "serving", "returned"}]]
    /\ stop \in [Processes -> {"wait", "drain", "cleanUp", "health", "metrics",
                               "done"}]
    /\ quit \subseteq Processes
    /\ closed \in [Processes -> SUBSET Http]
    /\ inFlight \in [Processes -> 0 .. MaxRPCs]
    /\ path \in Processes \union {Nobody}
    /\ alone \subseteq Processes /\ killed \subseteq Processes
    /\ ousted \subseteq Processes

Init ==
    /\ phase = [p \in Processes |-> "new"]
    /\ plugin = [p \in Processes |-> "cleanUp"]
    /\ http = [p \in Processes |-> [x \in Http |-> "listen"]]
    /\ stop = [p \in Processes |-> "wait"]
    /\ quit = {}
    /\ closed = [p \in Processes |-> {}]
    /\ inFlight = [p \in Processes |-> 0]
    /\ path = Nobody
    /\ alone = {} /\ killed = {} /\ ousted = {}

Up(p) == phase[p] = "up"

-----------------------------------------------------------------------------
(***************************************************************************)
(* plugin.Run and server.Run: one goroutine per server, and one that waits *)
(* for a signal.                                                           *)
(***************************************************************************)

\* The servers are made, and run; or the configuration, the zone or the
\* credentials are no good, and the process ends.
Start(p) ==
    /\ phase[p] = "new"
    /\ \A q \in Processes : q < p => phase[q] # "new"
    /\ \/ /\ phase' = [phase EXCEPT ![p] = "up"]
          /\ alone' = IF \E q \in Processes : Up(q) THEN {} ELSE alone \union {p}
       \/ phase' = [phase EXCEPT ![p] = "ended"] /\ UNCHANGED alone
    /\ UNCHANGED <<plugin, http, stop, quit, closed, inFlight, path, killed, ousted>>

\* p removes the socket at the path, whoever listens there.
Unlink(p) ==
    /\ path' = Nobody
    /\ ousted' = ousted \union ({path} \ {p, Nobody})

\* Fault: the socket that is there is left alone.
CleanUpSocketSkipped(p) ==
    /\ Up(p) /\ plugin[p] = "cleanUp"
    /\ plugin' = [plugin EXCEPT ![p] = "listen"]
    /\ UNCHANGED <<phase, http, stop, quit, closed, inFlight, path, alone, killed,
                   ousted>>

\* PluginServer.Run: cleanUpSocket, whose error ends Run.
CleanUpSocket(p) ==
    /\ Up(p) /\ plugin[p] = "cleanUp"
    /\ \/ plugin' = [plugin EXCEPT ![p] = "listen"] /\ Unlink(p)
       \/ plugin' = [plugin EXCEPT ![p] = "failed"] /\ UNCHANGED <<path, ousted>>
    /\ UNCHANGED <<phase, http, stop, quit, closed, inFlight, alone, killed>>

\* Fault: the old socket is removed once the listener is there.
ListenThenCleanUp(p) ==
    /\ Up(p) /\ plugin[p] = "listen"
    /\ plugin' = [plugin EXCEPT ![p] = "serve"]
    /\ path' = Nobody
    /\ UNCHANGED <<phase, http, stop, quit, closed, inFlight, alone, killed, ousted>>

\* PluginServer.Run: Listen.  It fails when there is a socket at the path, and
\* when the host has no directory, permission or descriptor for it.
Listen(p) ==
    /\ Up(p) /\ plugin[p] = "listen"
    /\ \/ path = Nobody /\ plugin' = [plugin EXCEPT ![p] = "serve"] /\ path' = p
       \/ path # Nobody /\ plugin' = [plugin EXCEPT ![p] = "returned"] /\ UNCHANGED path
       \/ plugin' = [plugin EXCEPT ![p] = "failed"] /\ UNCHANGED path
    /\ UNCHANGED <<phase, http, stop, quit, closed, inFlight, alone, killed, ousted>>

\* PluginServer.Run: Serve.
Serve(p) ==
    /\ Up(p) /\ plugin[p] = "serve"
    /\ IF p \in quit
       THEN plugin' = [plugin EXCEPT ![p] = "returned"] /\ Unlink(p)
       ELSE plugin' = [plugin EXCEPT ![p] = "serving"] /\ UNCHANGED <<path, ousted>>
    /\ UNCHANGED <<phase, http, stop, quit, closed, inFlight, alone, killed>>

\* HealthServer.Run and MetricsServer.Run.  Listen may fail, also because the
\* port is still the other process's.
RunHttp(p, x) ==
    /\ Up(p) /\ http[p][x] = "listen"
    /\ \/ /\ x \notin closed[p]
          /\ \A q \in Processes \ {p} : ~ (Up(q) /\ http[q][x] = "serving")
          /\ http' = [http EXCEPT ![p][x] = "serving"]
       \/ http' = [http EXCEPT ![p][x] = "returned"]
    /\ UNCHANGED <<phase, plugin, stop, quit, closed, inFlight, path, alone, killed,
                   ousted>>

\* The process is gone, and its memory with it; a socket stays where it is.
End(p) ==
    /\ phase' = [phase EXCEPT ![p] = "ended"]
    /\ plugin' = [plugin EXCEPT ![p] = "cleanUp"]
    /\ http' = [http EXCEPT ![p] = [x \in Http |-> "listen"]]
    /\ stop' = [stop EXCEPT ![p] = "wait"]
    /\ quit' = quit \ {p}
    /\ closed' = [closed EXCEPT ![p] = {}]
    /\ UNCHANGED <<inFlight, path, alone, ousted>>

\* eg.Wait: the process ends when every server's Run has returned; one that
\* failed does not end the others.
Exit(p) ==
    /\ Up(p)
    /\ plugin[p] \in {"returned", "failed"} /\ \A x \in Http : http[p][x] = "returned"
    /\ End(p)
    /\ UNCHANGED killed

-----------------------------------------------------------------------------
(***************************************************************************)
(* RPCs: the interceptor counts them.                                      *)
(***************************************************************************)

BeginRPC(p) ==
    /\ Up(p) /\ plugin[p] = "serving" /\ p \notin quit
    /\ inFlight[p] < MaxRPCs
    /\ inFlight' = [inFlight EXCEPT ![p] = @ + 1]
    /\ UNCHANGED <<phase, plugin, http, stop, quit, closed, path, alone, killed, ousted>>

\* Fault: the gauge goes down at the end of the handler and once more, deferred.
EndRPCTwice(p) ==
    /\ Up(p)
    /\ inFlight[p] > 0
    /\ inFlight' = [inFlight EXCEPT ![p] = @ - 2]
    /\ UNCHANGED <<phase, plugin, http, stop, quit, closed, path, alone, killed, ousted>>

EndRPC(p) ==
    /\ Up(p)
    /\ inFlight[p] > 0
    /\ inFlight' = [inFlight EXCEPT ![p] = @ - 1]
    /\ UNCHANGED <<phase, plugin, http, stop, quit, closed, path, alone, killed, ousted>>

-----------------------------------------------------------------------------
(***************************************************************************)
(* Signals: listenSyscalls stops the gRPC server, the health server and    *)
(* the metrics server, in this order.                                      *)
(***************************************************************************)

\* The signal, and PluginServer.Stop: GracefulStop refuses new RPCs and closes the
\* listener that is served.
Signal(p) ==
    /\ Up(p) /\ stop[p] = "wait"
    /\ stop' = [stop EXCEPT ![p] = "drain"]
    /\ quit' = quit \union {p}
    /\ IF plugin[p] = "serving" THEN Unlink(p) ELSE UNCHANGED <<path, ousted>>
    /\ UNCHANGED <<phase, plugin, http, closed, inFlight, alone, killed>>

\* Fault: Stop in place of GracefulStop.
DrainNothing(p) ==
    /\ Up(p) /\ stop[p] = "drain"
    /\ stop' = [stop EXCEPT ![p] = "cleanUp"]
    /\ plugin' = [plugin EXCEPT ![p] = IF @ = "serving" THEN "returned" ELSE @]
    /\ UNCHANGED <<phase, http, quit, closed, inFlight, path, alone, killed, ousted>>

\* GracefulStop waits for the RPCs; then Serve returns.
Drain(p) ==
    /\ Up(p) /\ stop[p] = "drain"
    /\ inFlight[p] = 0
    /\ stop' = [stop EXCEPT ![p] = "cleanUp"]
    /\ plugin' = [plugin EXCEPT ![p] = IF @ = "serving" THEN "returned" ELSE @]
    /\ UNCHANGED <<phase, http, quit, closed, inFlight, path, alone, killed, ousted>>

\* PluginServer.Stop: cleanUpSocket, whose error is only logged.
StopCleanUpSocket(p) ==
    /\ Up(p) /\ stop[p] = "cleanUp"
    /\ stop' = [stop EXCEPT ![p] = "health"]
    /\ Unlink(p) \/ UNCHANGED <<path, ousted>>
    /\ UNCHANGED <<phase, plugin, http, quit, closed, inFlight, alone, killed>>

\* Fault: the health server is stopped, the metrics server is forgotten.
StopHttpFirst(p) ==
    /\ Up(p) /\ stop[p] = "health"
    /\ stop' = [stop EXCEPT ![p] = "done"]
    /\ closed' = [closed EXCEPT ![p] = @ \union {"health"}]
    /\ http' = [http EXCEPT ![p]["health"] = IF @ = "serving" THEN "returned" ELSE @]
    /\ UNCHANGED <<phase, plugin, quit, inFlight, path, alone, killed, ousted>>

\* HealthServer.Stop and MetricsServer.Stop: Close.
StopHttp(p) ==
    /\ Up(p) /\ stop[p] \in Http
    /\ stop' = [stop EXCEPT ![p] = IF @ = "health" THEN "metrics" ELSE "done"]
    /\ closed' = [closed EXCEPT ![p] = @ \union {stop[p]}]
    /\ http' = [http EXCEPT ![p][stop[p]] = IF @ = "serving" THEN "returned" ELSE @]
    /\ UNCHANGED <<phase, plugin, quit, inFlight, path, alone, killed, ousted>>

\* The process crashes, or a second signal ends it: signal.Stop gave the signals
\* back their default action.
Kill(p) ==
    /\ Up(p)
    /\ killed' = killed \union {p}
    /\ End(p)

-----------------------------------------------------------------------------

Run(p) == \/ CleanUpSocket(p) \/ Listen(p) \/ Serve(p) \/ Exit(p)
          \/ \E x \in Http : RunHttp(p, x)

ListenSyscalls(p) == Drain(p) \/ StopCleanUpSocket(p) \/ StopHttp(p)

\* All processes have come and gone.
Over == (\A p \in Processes : phase[p] = "ended") /\ UNCHANGED vars

Next == \/ \E p \in Processes : \/ Start(p) \/ Run(p) \/ ListenSyscalls(p)
                                \/ BeginRPC(p) \/ EndRPC(p) \/ Signal(p) \/ Kill(p)
        \/ Over

Spec == Init /\ [][Next]_vars

\* The goroutines run, and every RPC comes to an end.
FairSpec == /\ Spec
            /\ \A p \in Processes : /\ WF_vars(ListenSyscalls(p)) /\ WF_vars(Run(p))
                                    /\ WF_vars(EndRPC(p))

-----------------------------------------------------------------------------
(***************************************************************************)
(* Properties.                                                             *)
(***************************************************************************)

\* A process that serves is at the socket path, through all the removals of the
\* path at its start and at the ends of its predecessors, unless another one
\* removed its socket: a newer one that started, or an older one that stopped.
ServingIsReachable ==
    \A p \in Processes :
        Up(p) /\ plugin[p] = "serving" /\ p \notin quit \union ousted => path = p

\* The health server answers 200 whatever the gRPC server does, and the process
\* stays up without it.  That happens to a process that overlapped with no other
\* one, and was not told to stop, only if the host refused to remove the old socket
\* or to make a new one, never because of what its predecessors left behind.
NeverHalfDead ==
    \A p \in alone : Up(p) /\ plugin[p] = "returned" => stop[p] # "wait"

\* One signal cuts off no RPC: the process ends when all of them are answered.
NoRPCIsCut ==
    \A p \in Processes : phase[p] = "ended" /\ inFlight[p] > 0 => p \in killed

\* A process that is started after the others have gone serves at the path, also
\* after a crash, or a Stop that could not remove it, left a socket there, unless it
\* is stopped or joined or the host refuses it the socket.
AloneServes ==
    \A p \in Processes :
        Up(p) /\ p \in alone
        ~> \/ path = p /\ plugin[p] = "serving"
           \/ plugin[p] = "failed" \/ p \notin alone \/ stop[p] # "wait" \/ ~ Up(p)

\* A signal ends the process, at whatever point of its start it comes.
SignalEnds ==
    \A p \in Processes : Up(p) /\ stop[p] # "wait" ~> ~ Up(p)

=============================================================================
