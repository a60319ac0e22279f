------------------------------ MODULE Launcher ------------------------------
(***************************************************************************)
(* openclaw-plugin/src/launcher.ts: one command starts the local program.  *)
(* It loads or creates the private identity that owns the local data,       *)
(* stages a copy of the runtime, starts the bridge, spawns the server, waits *)
(* until it is ready, and takes everything down again in order.  Several   *)
(* launches may share the identity file, and each may die at any step.     *)
(***************************************************************************)
EXTENDS Naturals, FiniteSets

CONSTANTS
    Launches,       \* one process each
    Absent, Empty,  \* an identity file that is missing, or created but unwritten
    MaxPayload      \* bound: how often the source payload changes

VARIABLES
    identityFile,   \* Absent, Empty, or the launch whose identity it holds
    payload,        \* version of the source payload
    launch,         \* per launch: step, owner, verified, stopping
    runtime,        \* staged copy: none, or the version staged
    bridgeOf,       \* none, open, closed
    server          \* none, starting, ready, exited

launcherVars == <<identityFile, payload, launch, runtime, bridgeOf, server>>

Running(l) == server[l] \in {"starting", "ready"}
Goes(l, step) == launch' = [launch EXCEPT ![l].step = step]

-----------------------------------------------------------------------------
(***************************************************************************)
(* loadOrCreateRuntimeIdentity: read, else create exclusively, else read   *)
(* what another launch created.  Creating and writing are two steps.       *)
(***************************************************************************)

\* The environment overrides the identity, or names no usable private directory.
RefusesState(l) ==
    /\ launch[l].step = "read"
    /\ Goes(l, "failed")
    /\ UNCHANGED <<identityFile, payload, runtime, bridgeOf, server>>

\* The file is missing; or it is read and holds a whole identity.
Reads(l) ==
    /\ launch[l].step \in {"read", "reread"}
    /\ IF identityFile \notin {Absent, Empty}
       THEN launch' = [launch EXCEPT ![l].step = "verify", ![l].owner = identityFile]
       ELSE IF identityFile = Absent /\ launch[l].step = "read"
       THEN Goes(l, "create")
       ELSE Goes(l, "failed")
    /\ UNCHANGED <<identityFile, payload, runtime, bridgeOf, server>>

Creates(l) ==
    /\ launch[l].step = "create"
    /\ IF identityFile = Absent
       THEN identityFile' = Empty /\ Goes(l, "write")
       ELSE Goes(l, "reread") /\ UNCHANGED identityFile
    /\ UNCHANGED <<payload, runtime, bridgeOf, server>>

Writes(l) ==
    /\ launch[l].step = "write"
    /\ identityFile' = l
    /\ launch' = [launch EXCEPT ![l].step = "verify", ![l].owner = l]
    /\ UNCHANGED <<payload, runtime, bridgeOf, server>>

-----------------------------------------------------------------------------
(***************************************************************************)
(* Staging: the payload is hashed, copied, and the copy is hashed again.   *)
(***************************************************************************)

PayloadChanges ==
    /\ payload < MaxPayload
    /\ payload' = payload + 1
    /\ UNCHANGED <<identityFile, launch, runtime, bridgeOf, server>>

Verifies(l) ==
    /\ launch[l].step = "verify"
    /\ launch' = [launch EXCEPT ![l].step = "stage", ![l].verified = payload]
    /\ UNCHANGED <<identityFile, payload, runtime, bridgeOf, server>>

\* mkdtemp, copy and link; a failed copy removes its directory.
Stages(l) ==
    /\ launch[l].step = "stage"
    /\ \/ runtime' = [runtime EXCEPT ![l] = payload] /\ Goes(l, "compare")
       \/ UNCHANGED runtime /\ Goes(l, "failed")
    /\ UNCHANGED <<identityFile, payload, bridgeOf, server>>

Compares(l) ==
    /\ launch[l].step = "compare"
    /\ Goes(l, IF runtime[l] = launch[l].verified THEN "bridge" ELSE "cleanup")
    /\ UNCHANGED <<identityFile, payload, runtime, bridgeOf, server>>

-----------------------------------------------------------------------------
(***************************************************************************)
(* Bridge and server.                                                      *)
(***************************************************************************)

StartsBridge(l) ==
    /\ launch[l].step = "bridge"
    /\ \/ bridgeOf' = [bridgeOf EXCEPT ![l] = "open"] /\ Goes(l, "spawn")
       \/ UNCHANGED bridgeOf /\ Goes(l, "cleanup")
    /\ UNCHANGED <<identityFile, payload, runtime, server>>

\* The database setting is missing, not on loopback or malformed: the launch
\* ends with a bridge open and nothing spawned.
RefusesDatabase(l) ==
    /\ launch[l].step = "spawn"
    /\ Goes(l, "cleanup")
    /\ UNCHANGED <<identityFile, payload, runtime, bridgeOf, server>>

\* The server gets the staged copy, the bridge's address and the identity.
Spawns(l) ==
    /\ launch[l].step = "spawn"
    /\ server' = [server EXCEPT ![l] = "starting"]
    /\ Goes(l, "waiting")
    /\ UNCHANGED <<identityFile, payload, runtime, bridgeOf>>

BecomesReady(l) ==
    /\ server[l] = "starting"
    /\ server' = [server EXCEPT ![l] = "ready"]
    /\ UNCHANGED <<identityFile, payload, launch, runtime, bridgeOf>>

\* The server process ends, by itself or by the signal it was sent.
Exits(l) ==
    /\ Running(l)
    /\ server' = [server EXCEPT ![l] = "exited"]
    /\ UNCHANGED <<identityFile, payload, launch, runtime, bridgeOf>>

\* waitForServer: ready, exited early, or out of time.
Waited(l) ==
    /\ launch[l].step = "waiting"
    /\ Goes(l, IF server[l] = "ready" THEN "serving" ELSE "cleanup")
    /\ UNCHANGED <<identityFile, payload, runtime, bridgeOf, server>>

\* SIGINT or SIGTERM while the handlers are installed: the tree is signalled,
\* and the waiting launch goes on once the server is gone.
Stop(l) ==
    /\ launch[l].step \in {"waiting", "serving"}
    /\ ~launch[l].stopping
    /\ launch' = [launch EXCEPT ![l].stopping = TRUE]
    /\ UNCHANGED <<identityFile, payload, runtime, bridgeOf, server>>

Served(l) ==
    /\ launch[l].step = "serving"
    /\ server[l] = "exited"
    /\ Goes(l, "cleanup")
    /\ UNCHANGED <<identityFile, payload, runtime, bridgeOf, server>>

-----------------------------------------------------------------------------
(***************************************************************************)
(* The finally block: stop the server and wait, then the bridge, then the  *)
(* directory.  A server that survives SIGKILL keeps its directory.         *)
(***************************************************************************)

\* Mutant: the wait after SIGTERM is not checked.
Terminates_NoWait(l) ==
    /\ launch[l].step = "cleanup"
    /\ Goes(l, "closing")
    /\ UNCHANGED <<identityFile, payload, runtime, bridgeOf, server>>

Terminates(l) ==
    /\ launch[l].step = "cleanup"
    /\ \/ ~Running(l) /\ Goes(l, "closing")
       \/ Running(l) /\ Goes(l, "failed")
    /\ UNCHANGED <<identityFile, payload, runtime, bridgeOf, server>>

ClosesBridge(l) ==
    /\ launch[l].step = "closing"
    /\ bridgeOf' = [bridgeOf EXCEPT ![l] = IF @ = "open" THEN "closed" ELSE @]
    /\ Goes(l, "removing")
    /\ UNCHANGED <<identityFile, payload, runtime, server>>

Removes(l) ==
    /\ launch[l].step = "removing"
    /\ runtime' = [runtime EXCEPT ![l] = 0]
    /\ Goes(l, "done")
    /\ UNCHANGED <<identityFile, payload, bridgeOf, server>>

\* The launching process is killed: its bridge dies with it, its server and
\* its directory do not.
Killed(l) ==
    /\ launch[l].step \notin {"done", "failed", "dead"}
    /\ Goes(l, "dead")
    /\ bridgeOf' = [bridgeOf EXCEPT ![l] = IF @ = "open" THEN "closed" ELSE @]
    /\ UNCHANGED <<identityFile, payload, runtime, server>>

Init ==
    /\ identityFile = Absent
    /\ payload = 1
    /\ launch = [l \in Launches |->
          [step |-> "read", owner |-> Absent, verified |-> 0,
           stopping |-> FALSE]]
    /\ runtime = [l \in Launches |-> 0]
    /\ bridgeOf = [l \in Launches |-> "none"]
    /\ server = [l \in Launches |-> "none"]

Next ==
    \/ PayloadChanges
    \/ \E l \in Launches :
         \/ RefusesState(l) \/ Reads(l) \/ Creates(l) \/ Writes(l)
         \/ Verifies(l) \/ Stages(l) \/ Compares(l)
         \/ StartsBridge(l) \/ RefusesDatabase(l) \/ Spawns(l)
         \/ BecomesReady(l) \/ Exits(l)
         \/ Waited(l) \/ Stop(l) \/ Served(l)
         \/ Terminates(l) \/ ClosesBridge(l) \/ Removes(l)
         \/ Killed(l)

Spec == Init /\ [][Next]_launcherVars

-----------------------------------------------------------------------------
(***************************************************************************)
(* Properties.                                                             *)
(***************************************************************************)

\* Local data has one owner: launches that got an identity got the same one,
\* and it is the one in the file, whoever else died while creating it.
OneOwner ==
    \A l \in Launches : launch[l].owner # Absent =>
        launch[l].owner = identityFile

\* A server only ever runs the payload that was verified, in a directory that
\* is still there, against a bridge that is open while its launcher lives.
ServersAreBacked ==
    \A l \in Launches : Running(l) =>
        /\ runtime[l] = launch[l].verified
        /\ launch[l].step # "dead" => bridgeOf[l] = "open"

\* A launch that came to its end left nothing behind.
EndsAreClean ==
    \A l \in Launches : launch[l].step = "done" =>
        /\ ~Running(l)
        /\ bridgeOf[l] # "open"
        /\ runtime[l] = 0

LaunchesAreClean == OneOwner /\ ServersAreBacked /\ EndsAreClean
=============================================================================
