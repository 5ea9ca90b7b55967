-------------------------------- MODULE Host --------------------------------
(***************************************************************************)
(* The life of a process that runs a gate, as demo/server.js lives it:     *)
(* boot() with the start-up of Startup.tla, then a listening server whose  *)
(* requests Gate.tla handles, then -- on SIGINT or SIGTERM -- shutdown():  *)
(* stop listening, let what is in flight finish, stop the verifier, exit.  *)
(* The options are any an adopter may choose, not the demo's own.          *)
(*                                                                         *)
(* server.close() ends the idle connections and calls back when the last   *)
(* of the others is gone; until then such a connection may carry another   *)
(* request.  A further signal starts a second shutdown() that waits for    *)
(* the same close and the same exit: it changes nothing here.              *)
(***************************************************************************)
EXTENDS Gate

CONSTANT FlawSets   \* see Startup: sets of bad options

VARIABLES
    boot,    \* see Startup
    host     \* where the process is

hostVars == <<vars, boot, host>>

Boot == INSTANCE Startup

ASSUME HostAssumption == FlawSets \subseteq SUBSET Boot!Flaw

\* "failed": exit(1) after boot() rejected; "crashed": ended by an error nobody catches.
HostType == {"booting", "serving", "draining", "stopping", "exited", "failed", "crashed"}

HostInit ==
    /\ Boot!Init /\ host = "booting"
    /\ opts = [limited |-> FALSE, proxied |-> FALSE, trustProxy |-> FALSE, allowReplay |-> FALSE]
    /\ Limiter!Init /\ req = Untouched

---------------------------------------------------------------------------
Booting == host = "booting" /\ Boot!Next /\ UNCHANGED <<vars, host>>

BootFails ==
    /\ host = "booting" /\ boot.pc = "refused"
    /\ host' = "failed" /\ UNCHANGED <<vars, boot>>

\* No handler is installed yet, or the 'error' event of listen() has none.
Crashes ==
    /\ host = "booting" /\ boot.pc # "refused"
    /\ host' = "crashed" /\ UNCHANGED <<vars, boot>>

\* What createGate closed over is all that is left of the options.
Listens ==
    /\ host = "booting" /\ boot.pc = "up"
    /\ opts' \in {o \in Deployment : o.allowReplay = boot.allowReplay}
    /\ host' = "serving"
    /\ boot' = [boot EXCEPT !.opts = Boot!Dropped]
    /\ UNCHANGED <<clock, hits, granted, turnedAway, req>>

\* A new connection, or -- shutting down -- one that is still open.
Reachable ==
    \/ host = "serving"
    \/ host = "draining" /\ \E r \in Request : req[r].pc # "none" /\ ~ req[r].close

\* What the gate does while the server is there, listening or closing.
Up == host \in {"serving", "draining"} /\ UNCHANGED <<boot, host>>
TimePasses == Up /\ Tick
Requested == Up /\ Reachable /\ Arrivals
Served(r) == Up /\ Progress(r)
Settled(r) == Up /\ Settle(r)   \* the part of Served that is not the client's

Signal ==
    /\ host = "serving"
    /\ host' = "draining" /\ UNCHANGED <<vars, boot>>

drained_Unawaited == TRUE
drained_KeepAlive == \A r \in Request : req[r].pc # "none" => req[r].pc = "done" /\ req[r].close
\* No connection is left: whatever arrived was answered.
drained == \A r \in Request : req[r].pc \in {"none", "done"}

\* The callback of server.close().  Nobody will ask the limiter again.
Closed ==
    /\ host = "draining" /\ drained
    /\ host' = "stopping"
    /\ hits' = <<>> /\ granted' = [k \in Key |-> <<>>]
    /\ turnedAway' = [k \in Key |-> Limiter!Never]
    /\ UNCHANGED <<opts, clock, req, boot>>

\* gate.stop() comes back, over a child that is gone or that refuses signals, and the
\* process exits; or it throws (StopPC of Service) and nobody catches that.
Exits ==
    /\ host = "stopping"
    /\ \E child \in {"gone", boot.child} : boot' = [boot EXCEPT !.child = child]
    /\ host' \in {"exited", "crashed"} /\ UNCHANGED vars

HostNext ==
    \/ Booting \/ BootFails \/ Crashes \/ Listens
    \/ TimePasses \/ Requested \/ \E r \in Request : Served(r)
    \/ Signal \/ Closed \/ Exits

HostSpec == HostInit /\ [][HostNext]_hostVars

\* Time passes, a due timer fires, check() settles (Verifier.check of index.js), and
\* close() and stop() call back when they are due.  Nothing is asked of the client.
FairSpec ==
    /\ HostSpec
    /\ WF_hostVars(TimePasses) /\ WF_hostVars(Closed) /\ WF_hostVars(Exits)
    /\ \A r \in Request : WF_hostVars(Settled(r))

---------------------------------------------------------------------------
HostTypeOK == TypeOK /\ Boot!TypeOK /\ host \in HostType

\* What Startup promises of any options holds of the process too, whenever boot() is
\* cut short by a crash: a bad secret or store is refused before there is a child, and
\* a gate that accepts replays was given an option that says so, typed or falsy.
SingleUseErrorsAreCheap == Boot!SingleUseErrorsAreCheap
ReplaySafeByDefault == Boot!ReplaySafeByDefault

\* A signalled process does end, however slowly its clients send their bodies and
\* whatever the kernel answers to the signals it sends its child.
ShutdownFinishes == host = "draining" ~> host \in {"exited", "crashed"}
=============================================================================
