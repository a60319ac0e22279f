--------------------------- MODULE ServicesProofs ---------------------------
(***************************************************************************)
(* What stands behind a request, for any number of processes, keys and     *)
(* pages: the invariants of the host's launcher, of its search, of the     *)
(* research broker, of the model adapters and of Wilbur's requests, each   *)
(* with what makes it inductive.  A component is proved about through its  *)
(* instance in MCServices, where the others rest.                          *)
(***************************************************************************)
EXTENDS MCServices, Sequences, FiniteSetTheorems, TLAPS

-----------------------------------------------------------------------------
(* The launcher.                                                           *)

LaunchSteps == {"read", "reread", "create", "write", "verify", "stage", "compare", "bridge",
                "spawn", "waiting", "serving", "cleanup", "closing", "removing", "done",
                "failed", "dead"}
Launch == [step : LaunchSteps, owner : Routes \cup {None}, verified : Nat, stopping : BOOLEAN]

LauncherTyped ==
  /\ launcherIdentityFile \in Routes \cup {None, Empty}
  /\ launcherPayload \in Nat
  /\ launcherLaunch \in [Routes -> Launch]
  /\ launcherRuntime \in [Routes -> Nat]
  /\ launcherBridgeOf \in [Routes -> {"none", "open", "closed"}]
  /\ launcherServer \in [Routes -> {"none", "starting", "ready", "exited"}]

(* The launch that created the identity file is the only one to write it,  *)
(* and it is empty until then.                                             *)
OneWriter ==
  /\ \A l \in Routes : launcherLaunch[l].step = "write" => launcherIdentityFile = Empty
  /\ \A l, m \in Routes :
       launcherLaunch[l].step = "write" /\ launcherLaunch[m].step = "write" => l = m

(* What a launch at a step with this copy, bridge and server has.          *)
Backed(t, runtime, bridge, server) ==
  /\ t.step \in {"bridge", "spawn"} => runtime = t.verified
  /\ t.step = "spawn" => bridge = "open"
  /\ t.step \in {"removing", "done"} => bridge # "open"
  /\ t.step = "done" => runtime = 0
  /\ server \in {"starting", "ready"} =>
       /\ t.step \in {"waiting", "serving", "cleanup", "failed", "dead"}
       /\ runtime = t.verified
       /\ t.step # "dead" => bridge = "open"

LaunchesBacked ==
  \A l \in Routes :
    Backed(launcherLaunch[l], launcherRuntime[l], launcherBridgeOf[l], launcherServer[l])

LauncherInv == LauncherTyped /\ OneWriter /\ Launched!OneOwner /\ LaunchesBacked

(* One launch acts, and the identity file stays as it is.                  *)
LEMMA LaunchStep ==
  ASSUME LauncherInv, NEW l \in Routes, NEW t \in Launch, NEW runtime \in Nat,
         NEW bridge \in {"none", "open", "closed"},
         NEW server \in {"none", "starting", "ready", "exited"},
         launcherLaunch' = [launcherLaunch EXCEPT ![l] = t],
         launcherRuntime' = [launcherRuntime EXCEPT ![l] = runtime],
         launcherBridgeOf' = [launcherBridgeOf EXCEPT ![l] = bridge],
         launcherServer' = [launcherServer EXCEPT ![l] = server],
         UNCHANGED <<launcherIdentityFile, launcherPayload>>,
         t.owner \in {launcherLaunch[l].owner, launcherIdentityFile},
         t.step # "write",
         Backed(t, runtime, bridge, server)
  PROVE  LauncherInv'
<1>1. /\ launcherIdentityFile' = launcherIdentityFile /\ launcherPayload' = launcherPayload
  OBVIOUS
<1>2. LauncherTyped'
  BY <1>1 DEF LauncherInv, LauncherTyped
<1>3. /\ launcherLaunch'[l] = t /\ launcherRuntime'[l] = runtime
      /\ launcherBridgeOf'[l] = bridge /\ launcherServer'[l] = server
      /\ \A m \in Routes \ {l} :
           /\ launcherLaunch'[m] = launcherLaunch[m] /\ launcherRuntime'[m] = launcherRuntime[m]
           /\ launcherBridgeOf'[m] = launcherBridgeOf[m]
           /\ launcherServer'[m] = launcherServer[m]
  BY DEF LauncherInv, LauncherTyped
<1>4. OneWriter'
  BY <1>1, <1>3 DEF LauncherInv, OneWriter
<1>5. Launched!OneOwner'
  BY <1>1, <1>3 DEF LauncherInv, Launched!OneOwner
<1>6. LaunchesBacked'
  BY <1>3 DEF LauncherInv, LaunchesBacked, Backed
<1>. QED
  BY <1>2, <1>4, <1>5, <1>6 DEF LauncherInv
(* What a launch holds.                                                    *)
LEMMA LaunchHeld ==
  ASSUME LauncherInv, NEW l \in Routes
  PROVE  /\ launcherLaunch[l] \in Launch /\ launcherRuntime[l] \in Nat
         /\ launcherBridgeOf[l] \in {"none", "open", "closed"}
         /\ launcherServer[l] \in {"none", "starting", "ready", "exited"}
         /\ Backed(launcherLaunch[l], launcherRuntime[l], launcherBridgeOf[l], launcherServer[l])
BY DEF LauncherInv, LauncherTyped, LaunchesBacked

(* What is left as it was.                                                 *)
LEMMA LaunchSame ==
  ASSUME LauncherInv, NEW l \in Routes
  PROVE  /\ launcherLaunch = [launcherLaunch EXCEPT ![l] = launcherLaunch[l]]
         /\ launcherRuntime = [launcherRuntime EXCEPT ![l] = launcherRuntime[l]]
         /\ launcherBridgeOf = [launcherBridgeOf EXCEPT ![l] = launcherBridgeOf[l]]
         /\ launcherServer = [launcherServer EXCEPT ![l] = launcherServer[l]]
BY DEF LauncherInv, LauncherTyped

(* What is left of a launch that goes on to a step, and what it has then.  *)
LEMMA GoesTo ==
  ASSUME LauncherInv, NEW l \in Routes, NEW step \in LaunchSteps \ {"write"},
         Launched!Goes(l, step), NEW t, t = launcherLaunch[l]
  PROVE  \E new \in Launch :
           /\ launcherLaunch' = [launcherLaunch EXCEPT ![l] = new]
           /\ new.step = step /\ new.owner = t.owner /\ new.verified = t.verified
<1>1. t \in Launch
  BY LaunchHeld
<1>. DEFINE new == [t EXCEPT !.step = step]
<1>2. new \in Launch /\ new.step = step /\ new.owner = t.owner /\ new.verified = t.verified
  BY <1>1 DEF Launch
<1>3. launcherLaunch' = [launcherLaunch EXCEPT ![l] = new]
  BY DEF Launched!Goes
<1>. HIDE DEF new
<1>. QED
  BY <1>2, <1>3

(* A launch takes its next step on what it holds.                          *)
OnlyGoes(l, step) ==
  /\ Launched!Goes(l, step)
  /\ UNCHANGED <<launcherIdentityFile, launcherPayload, launcherRuntime, launcherBridgeOf,
                 launcherServer>>

LEMMA PlainStep ==
  ASSUME LauncherInv, NEW l \in Routes, NEW step \in LaunchSteps \ {"write"},
         OnlyGoes(l, step),
         Backed([launcherLaunch[l] EXCEPT !.step = step], launcherRuntime[l],
                launcherBridgeOf[l], launcherServer[l])
  PROVE  LauncherInv'
<1>1. PICK t \in Launch : t = launcherLaunch[l]
  BY LaunchHeld
<1>2. PICK runtime \in Nat, bridge \in {"none", "open", "closed"},
           server \in {"none", "starting", "ready", "exited"} :
        runtime = launcherRuntime[l] /\ bridge = launcherBridgeOf[l] /\ server = launcherServer[l]
  BY LaunchHeld
<1>3. PICK new \in Launch :
        /\ launcherLaunch' = [launcherLaunch EXCEPT ![l] = new]
        /\ new.step = step /\ new.owner = t.owner /\ new.verified = t.verified
  BY <1>1, GoesTo DEF OnlyGoes
<1>4. Backed([t EXCEPT !.step = step], runtime, bridge, server)
  BY <1>1, <1>2
<1>5. Backed(new, runtime, bridge, server) /\ new.step # "write"
  BY <1>3, <1>4 DEF Backed, Launch
<1>6. /\ launcherRuntime' = [launcherRuntime EXCEPT ![l] = runtime]
      /\ launcherBridgeOf' = [launcherBridgeOf EXCEPT ![l] = bridge]
      /\ launcherServer' = [launcherServer EXCEPT ![l] = server]
      /\ UNCHANGED <<launcherIdentityFile, launcherPayload>>
  BY <1>2, LaunchSame DEF OnlyGoes
<1>. QED
  BY <1>1, <1>3, <1>5, <1>6, LaunchStep

(* The steps before the server is spawned; none has a server running.      *)
LEMMA EarlyStep ==
  ASSUME LauncherInv, NEW l \in Routes,
         \/ Launched!RefusesState(l) \/ Launched!Compares(l) \/ Launched!RefusesDatabase(l)
         \/ Launched!Waited(l) \/ Launched!Served(l) \/ Launched!Terminates(l)
  PROVE  LauncherInv'
<1>1. PICK t \in Launch : /\ t = launcherLaunch[l] /\ t.step \in LaunchSteps
                          /\ Backed(t, launcherRuntime[l], launcherBridgeOf[l], launcherServer[l])
  BY LaunchHeld DEF Launch
<1>2. PICK step \in {"failed", "bridge", "cleanup", "serving", "closing"} :
        /\ Launched!Goes(l, step)
        /\ t.step \in {"read", "compare", "spawn", "waiting", "serving", "cleanup"}
        /\ step = "bridge" => launcherRuntime[l] = t.verified /\ t.step = "compare"
        /\ step = "serving" => t.step = "waiting"
        /\ step = "closing" => ~Launched!Running(l)
        /\ UNCHANGED <<launcherIdentityFile, launcherPayload, launcherRuntime, launcherBridgeOf,
                       launcherServer>>
  BY <1>1 DEF Launched!RefusesState, Launched!Compares, Launched!RefusesDatabase,
              Launched!Waited, Launched!Served, Launched!Terminates
<1>3. step \in LaunchSteps \ {"write"}
  BY DEF LaunchSteps
<1>. DEFINE new == [t EXCEPT !.step = step]
<1>4. new.step = step /\ new.verified = t.verified
  BY DEF Launch
<1>. HIDE DEF new
<1>5. Backed(new, launcherRuntime[l], launcherBridgeOf[l], launcherServer[l])
  BY <1>1, <1>2, <1>4 DEF Backed, Launched!Running
<1>. QED
  BY <1>1, <1>2, <1>3, <1>5, PlainStep DEF new, OnlyGoes
(* The identity: read, else created and written.                           *)
LEMMA ReadsStep ==
  ASSUME LauncherInv, NEW l \in Routes, Launched!Reads(l)
  PROVE  LauncherInv'
<1>1. PICK t \in Launch : /\ t = launcherLaunch[l] /\ t.step \in {"read", "reread"}
                          /\ Backed(t, launcherRuntime[l], launcherBridgeOf[l], launcherServer[l])
  BY LaunchHeld DEF Launched!Reads
<1>2. UNCHANGED <<launcherIdentityFile, launcherPayload, launcherRuntime, launcherBridgeOf,
                  launcherServer>>
  BY DEF Launched!Reads
<1>3. CASE /\ launcherIdentityFile \notin {None, Empty}
           /\ launcherLaunch' = [launcherLaunch EXCEPT ![l].step = "verify",
                                                       ![l].owner = launcherIdentityFile]
  <2>1. PICK owner \in Routes : owner = launcherIdentityFile
    BY <1>3 DEF LauncherInv, LauncherTyped
  <2>. DEFINE new == [t EXCEPT !.step = "verify", !.owner = owner]
  <2>2. new \in Launch /\ new.step = "verify" /\ new.owner = owner
    BY DEF Launch, LaunchSteps
  <2>3. launcherLaunch' = [launcherLaunch EXCEPT ![l] = new]
    BY <1>1, <1>3, <2>1
  <2>. HIDE DEF new
  <2>4. PICK runtime \in Nat, bridge \in {"none", "open", "closed"},
             server \in {"none", "starting", "ready", "exited"} :
          runtime = launcherRuntime[l] /\ bridge = launcherBridgeOf[l] /\ server = launcherServer[l]
    BY LaunchHeld
  <2>5. Backed(new, runtime, bridge, server)
    BY <1>1, <2>2, <2>4 DEF Backed
  <2>6. /\ launcherRuntime' = [launcherRuntime EXCEPT ![l] = runtime]
        /\ launcherBridgeOf' = [launcherBridgeOf EXCEPT ![l] = bridge]
        /\ launcherServer' = [launcherServer EXCEPT ![l] = server]
        /\ UNCHANGED <<launcherIdentityFile, launcherPayload>>
    BY <1>2, <2>4, LaunchSame
  <2>. QED
    BY <2>1, <2>2, <2>3, <2>5, <2>6, LaunchStep
<1>4. ASSUME NEW step \in {"create", "failed"}, Launched!Goes(l, step)
      PROVE  LauncherInv'
  <2>1. step \in LaunchSteps \ {"write"}
    BY DEF LaunchSteps
  <2>. DEFINE new == [t EXCEPT !.step = step]
  <2>2. new.step = step
    BY DEF Launch
  <2>. HIDE DEF new
  <2>3. Backed(new, launcherRuntime[l], launcherBridgeOf[l], launcherServer[l])
    BY <1>1, <2>2 DEF Backed
  <2>. QED
    BY <1>1, <1>2, <1>4, <2>1, <2>3, PlainStep DEF new, OnlyGoes
<1>. QED
  BY <1>3, <1>4 DEF Launched!Reads

LEMMA CreatesStep ==
  ASSUME LauncherInv, NEW l \in Routes, Launched!Creates(l)
  PROVE  LauncherInv'
<1>1. PICK t \in Launch : /\ t = launcherLaunch[l] /\ t.step = "create"
                          /\ Backed(t, launcherRuntime[l], launcherBridgeOf[l], launcherServer[l])
  BY LaunchHeld DEF Launched!Creates
<1>2. /\ launcherPayload' = launcherPayload /\ launcherRuntime' = launcherRuntime
      /\ launcherBridgeOf' = launcherBridgeOf /\ launcherServer' = launcherServer
  BY DEF Launched!Creates
<1>3. CASE launcherIdentityFile # None
  <2>. DEFINE new == [t EXCEPT !.step = "reread"]
  <2>1. new.step = "reread"
    BY DEF Launch
  <2>. HIDE DEF new
  <2>2. Backed(new, launcherRuntime[l], launcherBridgeOf[l], launcherServer[l])
    BY <1>1, <2>1 DEF Backed
  <2>3. Launched!Goes(l, "reread") /\ launcherIdentityFile' = launcherIdentityFile
    BY <1>3 DEF Launched!Creates
  <2>4. "reread" \in LaunchSteps \ {"write"}
    BY DEF LaunchSteps
  <2>. QED
    BY <1>1, <1>2, <2>2, <2>3, <2>4, PlainStep DEF new, OnlyGoes
<1>4. CASE launcherIdentityFile = None
  <2>. DEFINE new == [t EXCEPT !.step = "write"]
  <2>1. new \in Launch /\ new.step = "write" /\ new.owner = t.owner
    BY DEF Launch, LaunchSteps
  <2>2. launcherLaunch' = [launcherLaunch EXCEPT ![l] = new] /\ launcherIdentityFile' = Empty
    BY <1>1, <1>4 DEF Launched!Creates, Launched!Goes
  <2>. HIDE DEF new
  <2>3. LauncherTyped'
    BY <1>2, <2>1, <2>2 DEF LauncherInv, LauncherTyped
  <2>4. /\ launcherLaunch'[l] = new
        /\ \A m \in Routes \ {l} : launcherLaunch'[m] = launcherLaunch[m]
    BY <2>2 DEF LauncherInv, LauncherTyped
  <2>5. Backed(new, launcherRuntime[l], launcherBridgeOf[l], launcherServer[l])
    BY <1>1, <2>1 DEF Backed
  <2>6. LaunchesBacked'
    BY <1>2, <2>4, <2>5 DEF LauncherInv, LaunchesBacked, Backed
  <2>7. \A m \in Routes : launcherLaunch[m].step # "write" /\ launcherLaunch[m].owner = None
    BY <1>4, ServicesAssumption DEF LauncherInv, OneWriter, Launched!OneOwner
  <2>8. OneWriter'
    BY <2>2, <2>4, <2>7 DEF OneWriter
  <2>9. Launched!OneOwner'
    BY <1>1, <2>1, <2>4, <2>7 DEF Launched!OneOwner
  <2>. QED
    BY <2>3, <2>6, <2>8, <2>9 DEF LauncherInv
<1>. QED
  BY <1>3, <1>4

LEMMA WritesStep ==
  ASSUME LauncherInv, NEW l \in Routes, Launched!Writes(l)
  PROVE  LauncherInv'
<1>1. PICK t \in Launch : /\ t = launcherLaunch[l] /\ t.step = "write"
                          /\ Backed(t, launcherRuntime[l], launcherBridgeOf[l], launcherServer[l])
  BY LaunchHeld DEF Launched!Writes
<1>2. /\ launcherPayload' = launcherPayload /\ launcherRuntime' = launcherRuntime
      /\ launcherBridgeOf' = launcherBridgeOf /\ launcherServer' = launcherServer
      /\ launcherIdentityFile' = l
  BY DEF Launched!Writes
<1>. DEFINE new == [t EXCEPT !.step = "verify", !.owner = l]
<1>3. new \in Launch /\ new.step = "verify" /\ new.owner = l
  BY DEF Launch, LaunchSteps
<1>4. launcherLaunch' = [launcherLaunch EXCEPT ![l] = new]
  BY <1>1 DEF Launched!Writes
<1>. HIDE DEF new
<1>5. LauncherTyped'
  BY <1>2, <1>3, <1>4 DEF LauncherInv, LauncherTyped
<1>6. /\ launcherLaunch'[l] = new
      /\ \A m \in Routes \ {l} : launcherLaunch'[m] = launcherLaunch[m]
  BY <1>4 DEF LauncherInv, LauncherTyped
<1>7. Backed(new, launcherRuntime[l], launcherBridgeOf[l], launcherServer[l])
  BY <1>1, <1>3 DEF Backed
<1>8. LaunchesBacked'
  BY <1>2, <1>6, <1>7 DEF LauncherInv, LaunchesBacked, Backed
<1>9. launcherIdentityFile = Empty /\ \A m \in Routes \ {l} : launcherLaunch[m].step # "write"
  BY <1>1 DEF LauncherInv, OneWriter
<1>10. \A m \in Routes : launcherLaunch[m].owner = None
  <2>1. \A m \in Routes : launcherLaunch[m].owner \in Routes \cup {None}
    BY LaunchHeld DEF Launch
  <2>. QED
    BY <1>9, <2>1, ServicesAssumption DEF LauncherInv, Launched!OneOwner
<1>11. OneWriter'
  BY <1>3, <1>6, <1>9 DEF OneWriter
<1>12. Launched!OneOwner'
  BY <1>2, <1>3, <1>6, <1>10 DEF Launched!OneOwner
<1>. QED
  BY <1>5, <1>8, <1>11, <1>12 DEF LauncherInv

LEMMA VerifiesStep ==
  ASSUME LauncherInv, NEW l \in Routes, Launched!Verifies(l) \/ Launched!Stop(l)
  PROVE  LauncherInv'
<1>1. PICK t \in Launch : /\ t = launcherLaunch[l]
                          /\ Backed(t, launcherRuntime[l], launcherBridgeOf[l], launcherServer[l])
  BY LaunchHeld
<1>2. PICK runtime \in Nat, bridge \in {"none", "open", "closed"},
           server \in {"none", "starting", "ready", "exited"} :
        runtime = launcherRuntime[l] /\ bridge = launcherBridgeOf[l] /\ server = launcherServer[l]
  BY LaunchHeld
<1>3. PICK new \in Launch :
        /\ launcherLaunch' = [launcherLaunch EXCEPT ![l] = new] /\ new.owner = t.owner
        /\ \/ t.step = "verify" /\ new.step = "stage"
           \/ t.step \in {"waiting", "serving"} /\ new.step = t.step /\ new.verified = t.verified
  <2>1. CASE Launched!Verifies(l)
    <3>1. PICK payload \in Nat : payload = launcherPayload
      BY DEF LauncherInv, LauncherTyped
    <3>. DEFINE new == [t EXCEPT !.step = "stage", !.verified = payload]
    <3>2. new \in Launch /\ new.owner = t.owner /\ new.step = "stage"
      BY DEF Launch, LaunchSteps
    <3>3. launcherLaunch' = [launcherLaunch EXCEPT ![l] = new] /\ t.step = "verify"
      BY <1>1, <2>1, <3>1 DEF Launched!Verifies
    <3>. HIDE DEF new
    <3>. QED
      BY <3>2, <3>3
  <2>2. CASE Launched!Stop(l)
    <3>. DEFINE new == [t EXCEPT !.stopping = TRUE]
    <3>1. /\ new \in Launch /\ new.owner = t.owner /\ new.step = t.step
          /\ new.verified = t.verified
      BY DEF Launch
    <3>2. /\ launcherLaunch' = [launcherLaunch EXCEPT ![l] = new]
          /\ t.step \in {"waiting", "serving"}
      BY <1>1, <2>2 DEF Launched!Stop
    <3>. HIDE DEF new
    <3>. QED
      BY <3>1, <3>2
  <2>. QED
    BY <2>1, <2>2
<1>4. Backed(new, runtime, bridge, server) /\ new.step # "write"
  BY <1>1, <1>2, <1>3 DEF Backed
<1>5. /\ launcherRuntime' = [launcherRuntime EXCEPT ![l] = runtime]
      /\ launcherBridgeOf' = [launcherBridgeOf EXCEPT ![l] = bridge]
      /\ launcherServer' = [launcherServer EXCEPT ![l] = server]
      /\ UNCHANGED <<launcherIdentityFile, launcherPayload>>
  BY <1>2, LaunchSame DEF Launched!Verifies, Launched!Stop
<1>. QED
  BY <1>1, <1>3, <1>4, <1>5, LaunchStep

(* A server is spawned on the copy that was verified.                      *)
LEMMA SpawnsStep ==
  ASSUME LauncherInv, NEW l \in Routes, Launched!Spawns(l)
  PROVE  LauncherInv'
<1>1. PICK t \in Launch : t = launcherLaunch[l]
  BY LaunchHeld
<1>2. PICK runtime \in Nat, bridge \in {"none", "open", "closed"},
           server \in {"none", "starting", "ready", "exited"} :
        /\ runtime = launcherRuntime[l] /\ bridge = launcherBridgeOf[l] /\ server = launcherServer[l]
        /\ Backed(t, runtime, bridge, server)
  BY <1>1, LaunchHeld
<1>3. t.step = "spawn" /\ Launched!Goes(l, "waiting")
  BY <1>1 DEF Launched!Spawns
<1>4. "waiting" \in LaunchSteps \ {"write"}
  BY DEF LaunchSteps
<1>5. PICK new \in Launch :
        /\ launcherLaunch' = [launcherLaunch EXCEPT ![l] = new]
        /\ new.step = "waiting" /\ new.owner = t.owner /\ new.verified = t.verified
  BY <1>1, <1>3, <1>4, GoesTo
<1>6. PICK server1 \in {"none", "starting", "ready", "exited"} : server1 = "starting"
  BY <1>2
<1>7. /\ launcherRuntime' = [launcherRuntime EXCEPT ![l] = runtime]
      /\ launcherBridgeOf' = [launcherBridgeOf EXCEPT ![l] = bridge]
      /\ launcherServer' = [launcherServer EXCEPT ![l] = server1]
      /\ UNCHANGED <<launcherIdentityFile, launcherPayload>>
  BY <1>2, <1>6, LaunchSame DEF Launched!Spawns
<1>8. Backed(new, runtime, bridge, server1) /\ new.step # "write"
  BY <1>2, <1>3, <1>5, <1>6 DEF Backed
<1>. QED
  BY <1>1, <1>5, <1>7, <1>8, LaunchStep

(* A server that becomes ready is the one that was spawned.                *)
LEMMA BecomesReadyStep ==
  ASSUME LauncherInv, NEW l \in Routes, Launched!BecomesReady(l)
  PROVE  LauncherInv'
<1>1. PICK t \in Launch : t = launcherLaunch[l]
  BY LaunchHeld
<1>2. PICK runtime \in Nat, bridge \in {"none", "open", "closed"},
           server \in {"none", "starting", "ready", "exited"} :
        /\ runtime = launcherRuntime[l] /\ bridge = launcherBridgeOf[l] /\ server = launcherServer[l]
        /\ Backed(t, runtime, bridge, server)
  BY <1>1, LaunchHeld
<1>3. server = "starting"
  BY <1>1, <1>2 DEF Launched!BecomesReady, Launched!Running
<1>5. PICK new \in Launch :
        /\ launcherLaunch' = [launcherLaunch EXCEPT ![l] = new]
        /\ new = t
  BY <1>1, LaunchSame DEF Launched!BecomesReady
<1>6. PICK server1 \in {"none", "starting", "ready", "exited"} : server1 = "ready"
  BY <1>2
<1>7. /\ launcherRuntime' = [launcherRuntime EXCEPT ![l] = runtime]
      /\ launcherBridgeOf' = [launcherBridgeOf EXCEPT ![l] = bridge]
      /\ launcherServer' = [launcherServer EXCEPT ![l] = server1]
      /\ UNCHANGED <<launcherIdentityFile, launcherPayload>>
  BY <1>2, <1>6, LaunchSame DEF Launched!BecomesReady
<1>8. Backed(new, runtime, bridge, server1) /\ new.step # "write"
  BY <1>2, <1>3, <1>5, <1>6 DEF Backed
<1>. QED
  BY <1>1, <1>5, <1>7, <1>8, LaunchStep

(* A server that is gone asks for nothing.                                 *)
LEMMA ExitsStep ==
  ASSUME LauncherInv, NEW l \in Routes, Launched!Exits(l)
  PROVE  LauncherInv'
<1>1. PICK t \in Launch : t = launcherLaunch[l]
  BY LaunchHeld
<1>2. PICK runtime \in Nat, bridge \in {"none", "open", "closed"},
           server \in {"none", "starting", "ready", "exited"} :
        /\ runtime = launcherRuntime[l] /\ bridge = launcherBridgeOf[l] /\ server = launcherServer[l]
        /\ Backed(t, runtime, bridge, server)
  BY <1>1, LaunchHeld
<1>3. server \in {"starting", "ready"}
  BY <1>1, <1>2 DEF Launched!Exits, Launched!Running
<1>5. PICK new \in Launch :
        /\ launcherLaunch' = [launcherLaunch EXCEPT ![l] = new]
        /\ new = t
  BY <1>1, LaunchSame DEF Launched!Exits
<1>6. PICK server1 \in {"none", "starting", "ready", "exited"} : server1 = "exited"
  BY <1>2
<1>7. /\ launcherRuntime' = [launcherRuntime EXCEPT ![l] = runtime]
      /\ launcherBridgeOf' = [launcherBridgeOf EXCEPT ![l] = bridge]
      /\ launcherServer' = [launcherServer EXCEPT ![l] = server1]
      /\ UNCHANGED <<launcherIdentityFile, launcherPayload>>
  BY <1>2, <1>6, LaunchSame DEF Launched!Exits
<1>8. Backed(new, runtime, bridge, server1) /\ new.step # "write"
  BY <1>2, <1>3, <1>5, <1>6 DEF Backed
<1>. QED
  BY <1>1, <1>5, <1>7, <1>8, LaunchStep

(* The bridge is closed once no server runs.                               *)
LEMMA ClosesBridgeStep ==
  ASSUME LauncherInv, NEW l \in Routes, Launched!ClosesBridge(l)
  PROVE  LauncherInv'
<1>1. PICK t \in Launch : t = launcherLaunch[l]
  BY LaunchHeld
<1>2. PICK runtime \in Nat, bridge \in {"none", "open", "closed"},
           server \in {"none", "starting", "ready", "exited"} :
        /\ runtime = launcherRuntime[l] /\ bridge = launcherBridgeOf[l] /\ server = launcherServer[l]
        /\ Backed(t, runtime, bridge, server)
  BY <1>1, LaunchHeld
<1>3. t.step = "closing" /\ Launched!Goes(l, "removing")
  BY <1>1 DEF Launched!ClosesBridge
<1>4. "removing" \in LaunchSteps \ {"write"}
  BY DEF LaunchSteps
<1>5. PICK new \in Launch :
        /\ launcherLaunch' = [launcherLaunch EXCEPT ![l] = new]
        /\ new.step = "removing" /\ new.owner = t.owner /\ new.verified = t.verified
  BY <1>1, <1>3, <1>4, GoesTo
<1>6. PICK bridge1 \in {"none", "open", "closed"} : bridge1 = IF bridge = "open" THEN "closed" ELSE bridge
  BY <1>2
<1>7. /\ launcherRuntime' = [launcherRuntime EXCEPT ![l] = runtime]
      /\ launcherBridgeOf' = [launcherBridgeOf EXCEPT ![l] = bridge1]
      /\ launcherServer' = [launcherServer EXCEPT ![l] = server]
      /\ UNCHANGED <<launcherIdentityFile, launcherPayload>>
  BY <1>2, <1>6, LaunchSame DEF Launched!ClosesBridge
<1>8. Backed(new, runtime, bridge1, server) /\ new.step # "write"
  BY <1>2, <1>3, <1>5, <1>6 DEF Backed
<1>. QED
  BY <1>1, <1>5, <1>7, <1>8, LaunchStep

(* The copy is removed once the bridge is closed.                          *)
LEMMA RemovesStep ==
  ASSUME LauncherInv, NEW l \in Routes, Launched!Removes(l)
  PROVE  LauncherInv'
<1>1. PICK t \in Launch : t = launcherLaunch[l]
  BY LaunchHeld
<1>2. PICK runtime \in Nat, bridge \in {"none", "open", "closed"},
           server \in {"none", "starting", "ready", "exited"} :
        /\ runtime = launcherRuntime[l] /\ bridge = launcherBridgeOf[l] /\ server = launcherServer[l]
        /\ Backed(t, runtime, bridge, server)
  BY <1>1, LaunchHeld
<1>3. t.step = "removing" /\ Launched!Goes(l, "done")
  BY <1>1 DEF Launched!Removes
<1>4. "done" \in LaunchSteps \ {"write"}
  BY DEF LaunchSteps
<1>5. PICK new \in Launch :
        /\ launcherLaunch' = [launcherLaunch EXCEPT ![l] = new]
        /\ new.step = "done" /\ new.owner = t.owner /\ new.verified = t.verified
  BY <1>1, <1>3, <1>4, GoesTo
<1>6. PICK runtime1 \in Nat : runtime1 = 0
  BY <1>2
<1>7. /\ launcherRuntime' = [launcherRuntime EXCEPT ![l] = runtime1]
      /\ launcherBridgeOf' = [launcherBridgeOf EXCEPT ![l] = bridge]
      /\ launcherServer' = [launcherServer EXCEPT ![l] = server]
      /\ UNCHANGED <<launcherIdentityFile, launcherPayload>>
  BY <1>2, <1>6, LaunchSame DEF Launched!Removes
<1>8. Backed(new, runtime1, bridge, server) /\ new.step # "write"
  BY <1>2, <1>3, <1>5, <1>6 DEF Backed
<1>. QED
  BY <1>1, <1>5, <1>7, <1>8, LaunchStep

(* A launch that is killed takes its bridge with it.                       *)
LEMMA KilledStep ==
  ASSUME LauncherInv, NEW l \in Routes, Launched!Killed(l)
  PROVE  LauncherInv'
<1>1. PICK t \in Launch : t = launcherLaunch[l]
  BY LaunchHeld
<1>2. PICK runtime \in Nat, bridge \in {"none", "open", "closed"},
           server \in {"none", "starting", "ready", "exited"} :
        /\ runtime = launcherRuntime[l] /\ bridge = launcherBridgeOf[l] /\ server = launcherServer[l]
        /\ Backed(t, runtime, bridge, server)
  BY <1>1, LaunchHeld
<1>3. Launched!Goes(l, "dead")
  BY DEF Launched!Killed
<1>4. "dead" \in LaunchSteps \ {"write"}
  BY DEF LaunchSteps
<1>5. PICK new \in Launch :
        /\ launcherLaunch' = [launcherLaunch EXCEPT ![l] = new]
        /\ new.step = "dead" /\ new.owner = t.owner /\ new.verified = t.verified
  BY <1>1, <1>3, <1>4, GoesTo
<1>6. PICK bridge1 \in {"none", "closed"} : bridge1 = IF bridge = "open" THEN "closed" ELSE bridge
  BY <1>2
<1>7. /\ launcherRuntime' = [launcherRuntime EXCEPT ![l] = runtime]
      /\ launcherBridgeOf' = [launcherBridgeOf EXCEPT ![l] = bridge1]
      /\ launcherServer' = [launcherServer EXCEPT ![l] = server]
      /\ UNCHANGED <<launcherIdentityFile, launcherPayload>>
  BY <1>2, <1>6, LaunchSame DEF Launched!Killed
<1>8. Backed(new, runtime, bridge1, server) /\ new.step # "write"
  BY <1>2, <1>5, <1>6 DEF Backed
<1>. QED
  BY <1>1, <1>5, <1>6, <1>7, <1>8, LaunchStep

(* The copy is staged, or the launch fails.                                *)
LEMMA StagesStep ==
  ASSUME LauncherInv, NEW l \in Routes, Launched!Stages(l)
  PROVE  LauncherInv'
<1>1. PICK t \in Launch : t = launcherLaunch[l]
  BY LaunchHeld
<1>2. PICK runtime \in Nat, bridge \in {"none", "open", "closed"},
           server \in {"none", "starting", "ready", "exited"} :
        /\ runtime = launcherRuntime[l] /\ bridge = launcherBridgeOf[l] /\ server = launcherServer[l]
        /\ Backed(t, runtime, bridge, server)
  BY <1>1, LaunchHeld
<1>3. PICK step \in {"compare", "failed"}, runtime1 \in Nat :
        /\ Launched!Goes(l, step)
        /\ launcherRuntime' = [launcherRuntime EXCEPT ![l] = runtime1]
  <2>1. launcherPayload \in Nat
    BY DEF LauncherInv, LauncherTyped
  <2>. QED
    BY <1>2, <2>1, LaunchSame DEF Launched!Stages
<1>4. step \in LaunchSteps \ {"write"} /\ t.step = "stage"
  BY <1>1, <1>3 DEF LaunchSteps, Launched!Stages
<1>5. PICK new \in Launch :
        /\ launcherLaunch' = [launcherLaunch EXCEPT ![l] = new]
        /\ new.step = step /\ new.owner = t.owner /\ new.verified = t.verified
  BY <1>1, <1>3, <1>4, GoesTo
<1>6. /\ launcherBridgeOf' = [launcherBridgeOf EXCEPT ![l] = bridge]
      /\ launcherServer' = [launcherServer EXCEPT ![l] = server]
      /\ UNCHANGED <<launcherIdentityFile, launcherPayload>>
  BY <1>2, LaunchSame DEF Launched!Stages
<1>7. Backed(new, runtime1, bridge, server) /\ new.step # "write"
  BY <1>2, <1>3, <1>4, <1>5 DEF Backed
<1>. QED
  BY <1>1, <1>3, <1>5, <1>6, <1>7, LaunchStep

(* The bridge opens, or the launch cleans up.                              *)
LEMMA StartsBridgeStep ==
  ASSUME LauncherInv, NEW l \in Routes, Launched!StartsBridge(l)
  PROVE  LauncherInv'
<1>1. PICK t \in Launch : t = launcherLaunch[l]
  BY LaunchHeld
<1>2. PICK runtime \in Nat, bridge \in {"none", "open", "closed"},
           server \in {"none", "starting", "ready", "exited"} :
        /\ runtime = launcherRuntime[l] /\ bridge = launcherBridgeOf[l] /\ server = launcherServer[l]
        /\ Backed(t, runtime, bridge, server)
  BY <1>1, LaunchHeld
<1>3. PICK step \in {"spawn", "cleanup"}, bridge1 \in {"none", "open", "closed"} :
        /\ Launched!Goes(l, step)
        /\ launcherBridgeOf' = [launcherBridgeOf EXCEPT ![l] = bridge1]
        /\ step = "spawn" => bridge1 = "open"
  BY <1>2, LaunchSame DEF Launched!StartsBridge
<1>4. step \in LaunchSteps \ {"write"} /\ t.step = "bridge"
  BY <1>1, <1>3 DEF LaunchSteps, Launched!StartsBridge
<1>5. PICK new \in Launch :
        /\ launcherLaunch' = [launcherLaunch EXCEPT ![l] = new]
        /\ new.step = step /\ new.owner = t.owner /\ new.verified = t.verified
  BY <1>1, <1>3, <1>4, GoesTo
<1>6. /\ launcherRuntime' = [launcherRuntime EXCEPT ![l] = runtime]
      /\ launcherServer' = [launcherServer EXCEPT ![l] = server]
      /\ UNCHANGED <<launcherIdentityFile, launcherPayload>>
  BY <1>2, LaunchSame DEF Launched!StartsBridge
<1>7. Backed(new, runtime, bridge1, server) /\ new.step # "write"
  BY <1>2, <1>3, <1>4, <1>5 DEF Backed
<1>. QED
  BY <1>1, <1>3, <1>5, <1>6, <1>7, LaunchStep

(* The launcher's invariant: where it begins, at each of its steps, and    *)
(* while another component steps.                                          *)
LEMMA LauncherBegins == Launched!Init => LauncherInv
<1>. SUFFICES ASSUME Launched!Init PROVE LauncherInv
  OBVIOUS
<1>. DEFINE first == [step |-> "read", owner |-> None, verified |-> 0, stopping |-> FALSE]
<1>1. first \in Launch /\ first.step = "read" /\ first.owner = None
  BY DEF Launch, LaunchSteps
<1>2. \A l \in Routes : /\ launcherLaunch[l] = first /\ launcherRuntime[l] = 0
                        /\ launcherBridgeOf[l] = "none" /\ launcherServer[l] = "none"
  BY DEF Launched!Init
<1>3. launcherLaunch = [l \in Routes |-> first]
  BY DEF Launched!Init
<1>. HIDE DEF first
<1>4. LauncherTyped
  BY <1>1, <1>3 DEF Launched!Init, LauncherTyped
<1>5. OneWriter /\ Launched!OneOwner
  BY <1>1, <1>2 DEF OneWriter, Launched!OneOwner
<1>6. LaunchesBacked
  BY <1>1, <1>2 DEF LaunchesBacked, Backed
<1>. QED
  BY <1>4, <1>5, <1>6 DEF LauncherInv

LEMMA LauncherSteps == LauncherInv /\ Launched!Next => LauncherInv'
<1>. SUFFICES ASSUME LauncherInv, Launched!Next PROVE LauncherInv'
  OBVIOUS
<1>1. CASE Launched!PayloadChanges
  BY <1>1 DEF Launched!PayloadChanges, LauncherInv, LauncherTyped, OneWriter, Launched!OneOwner,
              LaunchesBacked, Backed
<1>2. ASSUME NEW l \in Routes, Launched!RefusesState(l) \/ Launched!Reads(l) \/ Launched!Creates(l)
                               \/ Launched!Writes(l) \/ Launched!Verifies(l) \/ Launched!Stages(l)
                               \/ Launched!Compares(l) \/ Launched!StartsBridge(l)
                               \/ Launched!RefusesDatabase(l) \/ Launched!Spawns(l)
                               \/ Launched!BecomesReady(l) \/ Launched!Exits(l)
                               \/ Launched!Waited(l) \/ Launched!Stop(l) \/ Launched!Served(l)
                               \/ Launched!Terminates(l) \/ Launched!ClosesBridge(l)
                               \/ Launched!Removes(l) \/ Launched!Killed(l)
      PROVE  LauncherInv'
  BY <1>2, EarlyStep, ReadsStep, CreatesStep, WritesStep, VerifiesStep, StagesStep,
     StartsBridgeStep, SpawnsStep, BecomesReadyStep, ExitsStep, ClosesBridgeStep, RemovesStep,
     KilledStep
<1>. QED
  BY <1>1, <1>2 DEF Launched!Next

LEMMA LauncherRests == LauncherInv /\ UNCHANGED launcherVars => LauncherInv'
BY DEF launcherVars, LauncherInv, LauncherTyped, OneWriter, Launched!OneOwner, LaunchesBacked,
       Backed

-----------------------------------------------------------------------------
(* The research broker.                                                    *)

Outcomes == {"not_needed", "completed", "failed", "refused", "timed_out"}
Failures == {"failed", "refused", "timed_out"}
ResearchRow == [status : {"absent", "searching"} \cup Outcomes, by : Routes \cup {None},
                evidence : Seq({"fact", "failure"})]
Holder == [step : {"idle", "plan", "search", "searching", "fetch", "store", "fail", "returned",
                   "refused", "dead"},
           got : ResearchRow, sources : Nat, evidence : Seq({"fact", "failure"}),
           failure : Failures \cup {"none"}]
Page == [by : Routes \cup {None}, step : {"none", "resolve", "request", "respond"},
         at : Keys \cup {None}, chain : Seq(Keys)]

BrokerTyped ==
  /\ brokerResearch \in ResearchRow
  /\ brokerCaller \in [Routes -> Holder]
  /\ brokerPage \in Page
  /\ brokerSearches \in Nat
  /\ brokerMoved \in BOOLEAN

(* What the row says of the searches sent and of the run that waits for it.*)
RowSound(row, sent, moved) ==
  /\ row.status = "absent" => row.by = None /\ sent = 0
  /\ sent <= 1
  /\ sent = 1 => row.by # None
  /\ moved => row.status \in Outcomes
  /\ row.status = "completed" => Len(row.evidence) \in 1..2

(* What a caller holds against the row: the right to search is the row's   *)
(* claim, unspent, and an outcome is the row's.                            *)
HolderSound(c, t, row, sent) ==
  /\ t.step = "search" => row.by = c /\ sent = 0
  /\ t.step = "fetch" => t.sources >= 1
  /\ t.step = "store" => Len(t.evidence) >= 1
  /\ t.step = "fail" => t.failure \in Failures
  /\ t.got.status \in Outcomes => t.got = row

PageSound(p) == p.step # "none" => p.at \in Keys /\ Len(p.chain) <= 3

BrokerInv ==
  /\ BrokerTyped
  /\ RowSound(brokerResearch, brokerSearches, brokerMoved)
  /\ \A c \in Routes : HolderSound(c, brokerCaller[c], brokerResearch, brokerSearches)
  /\ PageSound(brokerPage)
  /\ Broker!ConnectionsStayHome

LEMMA CallerHolds ==
  ASSUME BrokerInv, NEW c \in Routes
  PROVE  /\ brokerCaller[c] \in Holder
         /\ HolderSound(c, brokerCaller[c], brokerResearch, brokerSearches)
         /\ brokerCaller = [brokerCaller EXCEPT ![c] = brokerCaller[c]]
BY DEF BrokerInv, BrokerTyped

(* A caller acts and leaves the row alone.                                 *)
LEMMA CallerActs ==
  ASSUME BrokerInv, NEW c \in Routes, NEW t \in Holder,
         brokerCaller' = [brokerCaller EXCEPT ![c] = t],
         HolderSound(c, t, brokerResearch, brokerSearches),
         brokerPage' \in Page, PageSound(brokerPage'), Broker!ConnectionsStayHome',
         UNCHANGED <<brokerResearch, brokerMoved, brokerSearches>>
  PROVE  BrokerInv'
<1>1. /\ brokerResearch' = brokerResearch /\ brokerMoved' = brokerMoved
      /\ brokerSearches' = brokerSearches
  OBVIOUS
<1>2. BrokerTyped'
  BY <1>1 DEF BrokerInv, BrokerTyped
<1>3. /\ brokerCaller'[c] = t
      /\ \A d \in Routes \ {c} : brokerCaller'[d] = brokerCaller[d]
  BY DEF BrokerInv, BrokerTyped
<1>4. \A d \in Routes : HolderSound(d, brokerCaller'[d], brokerResearch, brokerSearches)
  BY <1>3 DEF BrokerInv
<1>5. RowSound(brokerResearch, brokerSearches, brokerMoved)'
  BY <1>1 DEF BrokerInv
<1>6. (\A d \in Routes : HolderSound(d, brokerCaller[d], brokerResearch, brokerSearches))'
  BY <1>1, <1>4
<1>7. PageSound(brokerPage)'
  OBVIOUS
<1>. QED
  BY <1>2, <1>5, <1>6, <1>7 DEF BrokerInv

(* A caller acts and the row, which has no outcome yet, changes with it.   *)
LEMMA RowActs ==
  ASSUME BrokerInv, NEW c \in Routes, NEW t \in Holder, NEW row \in ResearchRow,
         brokerCaller' = [brokerCaller EXCEPT ![c] = t], brokerResearch' = row,
         ~brokerMoved, brokerResearch.status \in {"absent", "searching"},
         row.by = brokerResearch.by \/ brokerResearch.by = None,
         HolderSound(c, t, row, brokerSearches), RowSound(row, brokerSearches, FALSE),
         UNCHANGED <<brokerPage, brokerContacts, brokerMoved, brokerSearches>>
  PROVE  BrokerInv'
<1>1. /\ brokerPage' = brokerPage /\ brokerContacts' = brokerContacts
      /\ brokerMoved' = brokerMoved /\ brokerSearches' = brokerSearches
  OBVIOUS
<1>2. BrokerTyped'
  BY <1>1 DEF BrokerInv, BrokerTyped
<1>3. /\ brokerCaller'[c] = t
      /\ \A d \in Routes \ {c} : brokerCaller'[d] = brokerCaller[d]
  BY DEF BrokerInv, BrokerTyped
<1>4. ASSUME NEW d \in Routes \ {c}
      PROVE  HolderSound(d, brokerCaller[d], row, brokerSearches)
  <2>1. HolderSound(d, brokerCaller[d], brokerResearch, brokerSearches)
    BY DEF BrokerInv
  <2>2. d # None /\ brokerResearch.status \notin Outcomes
    BY ServicesAssumption DEF Outcomes
  <2>. QED
    BY <2>1, <2>2 DEF HolderSound
<1>5. \A d \in Routes : HolderSound(d, brokerCaller'[d], row, brokerSearches)
  BY <1>3, <1>4
<1>6. (\A d \in Routes : HolderSound(d, brokerCaller[d], brokerResearch, brokerSearches))'
  BY <1>1, <1>5
<1>7. RowSound(brokerResearch, brokerSearches, brokerMoved)'
  BY <1>1 DEF RowSound
<1>8. PageSound(brokerPage)' /\ Broker!ConnectionsStayHome'
  BY <1>1 DEF BrokerInv, Broker!ConnectionsStayHome
<1>. QED
  BY <1>2, <1>6, <1>7, <1>8 DEF BrokerInv

(* What a caller holds after it goes on, fails or returns.                 *)
LEMMA CallerGoes ==
  ASSUME BrokerInv, NEW c \in Routes, NEW t, t = brokerCaller[c],
         NEW step \in {"plan", "search", "searching", "store", "refused"}, Broker!Goes(c, step)
  PROVE  \E new \in Holder :
           /\ brokerCaller' = [brokerCaller EXCEPT ![c] = new]
           /\ new.step = step /\ new.got = t.got /\ new.evidence = t.evidence
<1>1. t \in Holder
  BY CallerHolds
<1>. DEFINE new == [t EXCEPT !.step = step]
<1>2. new \in Holder /\ new.step = step /\ new.got = t.got /\ new.evidence = t.evidence
  BY <1>1 DEF Holder
<1>3. brokerCaller' = [brokerCaller EXCEPT ![c] = new]
  BY DEF Broker!Goes
<1>. HIDE DEF new
<1>. QED
  BY <1>2, <1>3

LEMMA CallerFails ==
  ASSUME BrokerInv, NEW c \in Routes, NEW t, t = brokerCaller[c],
         NEW status \in Failures, Broker!Fails(c, status)
  PROVE  \E new \in Holder :
           /\ brokerCaller' = [brokerCaller EXCEPT ![c] = new]
           /\ new.step = "fail" /\ new.got = t.got /\ new.failure = status
<1>1. t \in Holder
  BY CallerHolds
<1>. DEFINE new == [t EXCEPT !.step = "fail", !.failure = status]
<1>2. new \in Holder /\ new.step = "fail" /\ new.got = t.got /\ new.failure = status
  BY <1>1 DEF Holder, Failures
<1>3. brokerCaller' = [brokerCaller EXCEPT ![c] = new]
  BY DEF Broker!Fails
<1>. HIDE DEF new
<1>. QED
  BY <1>2, <1>3

LEMMA CallerIdle ==
  /\ Broker!NoRow \in ResearchRow /\ Broker!NoRow.status = "absent"
  /\ Broker!NoRow.by = None
  /\ Broker!Idle \in Holder /\ Broker!Idle.step = "idle" /\ Broker!Idle.got = Broker!NoRow
<1>. DEFINE none == <<>>
<1>1. none \in Seq({"fact", "failure"})
  OBVIOUS
<1>. HIDE DEF none
<1>2. /\ [status |-> "absent", by |-> None, evidence |-> none] \in ResearchRow
  BY <1>1 DEF ResearchRow
<1>3. Broker!NoRow = [status |-> "absent", by |-> None, evidence |-> none]
  BY DEF Broker!NoRow, none
<1>4. /\ Broker!NoRow \in ResearchRow /\ Broker!NoRow.status = "absent"
      /\ Broker!NoRow.by = None
  BY <1>2, <1>3
<1>5. Broker!Idle = [step |-> "idle", got |-> Broker!NoRow, sources |-> 0, evidence |-> none,
                     failure |-> "none"]
  BY DEF Broker!Idle, none
<1>. QED
  BY <1>1, <1>4, <1>5 DEF Holder

LEMMA CallerReturns ==
  ASSUME NEW c \in Routes, NEW row \in ResearchRow, Broker!Returns(c, row)
  PROVE  \E new \in Holder :
           /\ brokerCaller' = [brokerCaller EXCEPT ![c] = new]
           /\ new.step = "returned" /\ new.got = row
<1>1. PICK idle \in Holder : idle = Broker!Idle
  BY CallerIdle
<1>. DEFINE new == [idle EXCEPT !.step = "returned", !.got = row]
<1>2. new \in Holder /\ new.step = "returned" /\ new.got = row
  BY DEF Holder
<1>3. brokerCaller' = [brokerCaller EXCEPT ![c] = new]
  BY <1>1 DEF Broker!Returns
<1>. HIDE DEF new
<1>. QED
  BY <1>2, <1>3

(* A step that changes no page and no contact, of one caller.              *)
LEMMA QuietStep ==
  ASSUME BrokerInv, NEW c \in Routes, NEW t \in Holder,
         brokerCaller' = [brokerCaller EXCEPT ![c] = t],
         HolderSound(c, t, brokerResearch, brokerSearches),
         brokerPage' \in {brokerPage, Broker!NoPage},
         UNCHANGED <<brokerResearch, brokerMoved, brokerSearches, brokerContacts>>
  PROVE  BrokerInv'
<1>1. brokerPage' \in Page /\ PageSound(brokerPage')
  <2>1. CASE brokerPage' = brokerPage
    BY <2>1 DEF BrokerInv, BrokerTyped
  <2>2. CASE brokerPage' = Broker!NoPage
    <3>. DEFINE none == <<>>
    <3>1. none \in Seq(Keys)
      OBVIOUS
    <3>. HIDE DEF none
    <3>2. brokerPage' = [by |-> None, step |-> "none", at |-> None, chain |-> none]
      BY <2>2 DEF Broker!NoPage, none
    <3>. QED
      BY <3>1, <3>2 DEF Page, PageSound
  <2>. QED
    BY <2>1, <2>2
<1>2. Broker!ConnectionsStayHome'
  BY DEF BrokerInv, Broker!ConnectionsStayHome
<1>3. UNCHANGED <<brokerResearch, brokerMoved, brokerSearches>>
  OBVIOUS
<1>. QED
  BY <1>1, <1>2, <1>3, CallerActs

(* The claim: looked up, taken or recorded.                                *)
LEMMA LooksUpStep ==
  ASSUME BrokerInv, NEW c \in Routes, Broker!LooksUp(c)
  PROVE  BrokerInv'
<1>1. PICK t \in Holder : /\ t = brokerCaller[c]
                          /\ HolderSound(c, t, brokerResearch, brokerSearches)
  BY CallerHolds
<1>2. brokerResearch \in ResearchRow
  BY DEF BrokerInv, BrokerTyped
<1>3. PICK new \in Holder :
        /\ brokerCaller' = [brokerCaller EXCEPT ![c] = new]
        /\ \/ new.step = "plan" /\ new.got = t.got
           \/ new.step = "fail" /\ new.got = t.got /\ new.failure = "timed_out"
           \/ new.step = "returned" /\ new.got = brokerResearch
  <2>1. CASE Broker!Goes(c, "plan")
    BY <1>1, <2>1, CallerGoes
  <2>2. CASE Broker!Fails(c, "timed_out")
    <3>1. "timed_out" \in Failures
      BY DEF Failures
    <3>. QED
      BY <1>1, <2>2, <3>1, CallerFails
  <2>3. CASE Broker!Returns(c, brokerResearch)
    BY <1>2, <2>3, CallerReturns
  <2>. QED
    BY <2>1, <2>2, <2>3 DEF Broker!LooksUp
<1>4. HolderSound(c, new, brokerResearch, brokerSearches)
  BY <1>1, <1>3 DEF HolderSound, Failures
<1>5. /\ UNCHANGED <<brokerResearch, brokerMoved, brokerSearches, brokerContacts>>
      /\ brokerPage' \in {brokerPage, Broker!NoPage}
  BY DEF Broker!LooksUp
<1>. QED
  BY <1>3, <1>4, <1>5, QuietStep

(* A caller that returns what it found in the row.                         *)
LEMMA ReturnsStep ==
  ASSUME BrokerInv, NEW c \in Routes, Broker!Returns(c, brokerResearch),
         UNCHANGED <<brokerResearch, brokerMoved, brokerSearches, brokerContacts, brokerPage>>
  PROVE  BrokerInv'
<1>1. brokerResearch \in ResearchRow
  BY DEF BrokerInv, BrokerTyped
<1>2. PICK new \in Holder :
        /\ brokerCaller' = [brokerCaller EXCEPT ![c] = new]
        /\ new.step = "returned" /\ new.got = brokerResearch
  BY <1>1, CallerReturns
<1>3. HolderSound(c, new, brokerResearch, brokerSearches)
  BY <1>2 DEF HolderSound
<1>4. /\ UNCHANGED <<brokerResearch, brokerMoved, brokerSearches, brokerContacts>>
      /\ brokerPage' \in {brokerPage, Broker!NoPage}
  OBVIOUS
<1>. QED
  BY <1>2, <1>3, <1>4, QuietStep

LEMMA ClaimsStep ==
  ASSUME BrokerInv, NEW c \in Routes, Broker!Claims(c)
  PROVE  BrokerInv'
<1>1. PICK t \in Holder : /\ t = brokerCaller[c] /\ t.step = "plan"
                          /\ HolderSound(c, t, brokerResearch, brokerSearches)
  BY CallerHolds DEF Broker!Claims
<1>2. UNCHANGED <<brokerPage, brokerContacts, brokerMoved, brokerSearches>>
  BY DEF Broker!Claims
<1>3. CASE brokerResearch.status = "absent" /\ ~brokerMoved
  <2>1. PICK row \in ResearchRow :
          brokerResearch' = row /\ row.status = "searching" /\ row.by = c
    <3>1. PICK none \in ResearchRow : none = Broker!NoRow
      BY CallerIdle
    <3>. DEFINE row == [none EXCEPT !.status = "searching", !.by = c]
    <3>2. row \in ResearchRow /\ row.status = "searching" /\ row.by = c
      BY DEF ResearchRow
    <3>3. brokerResearch' = row
      BY <1>3, <3>1 DEF Broker!Claims
    <3>. HIDE DEF row
    <3>. QED
      BY <3>2, <3>3
  <2>2. PICK new \in Holder :
          /\ brokerCaller' = [brokerCaller EXCEPT ![c] = new]
          /\ new.got = t.got
          /\ new.step = "search" \/ (new.step = "fail" /\ new.failure = "refused")
    <3>1. Broker!Fails(c, "refused") \/ Broker!Goes(c, "search")
      BY <1>3 DEF Broker!Claims
    <3>2. "refused" \in Failures
      BY DEF Failures
    <3>. QED
      BY <1>1, <3>1, <3>2, CallerFails, CallerGoes
  <2>3. /\ brokerSearches = 0 /\ brokerResearch.by = None
        /\ brokerResearch.status \in {"absent", "searching"}
    BY <1>3 DEF BrokerInv, RowSound
  <2>4. HolderSound(c, new, row, brokerSearches)
    BY <1>1, <1>3, <2>1, <2>2, <2>3 DEF HolderSound, Failures, Outcomes
  <2>5. RowSound(row, brokerSearches, FALSE)
    BY <2>1, <2>3 DEF RowSound
  <2>. QED
    BY <1>2, <1>3, <2>1, <2>2, <2>3, <2>4, <2>5, RowActs
<1>4. CASE ~(brokerResearch.status = "absent" /\ ~brokerMoved)
  <2>1. /\ Broker!Returns(c, brokerResearch)
        /\ UNCHANGED <<brokerResearch, brokerMoved, brokerSearches, brokerContacts, brokerPage>>
    BY <1>4 DEF Broker!Claims
  <2>. QED
    BY <2>1, ReturnsStep
<1>. QED
  BY <1>3, <1>4

LEMMA RecordsStep ==
  ASSUME BrokerInv, NEW c \in Routes, Broker!Records(c)
  PROVE  BrokerInv'
<1>1. UNCHANGED <<brokerPage, brokerContacts, brokerMoved, brokerSearches>>
  BY DEF Broker!Records
<1>2. CASE brokerResearch.status = "absent" /\ ~brokerMoved
  <2>1. PICK row \in ResearchRow :
          /\ brokerResearch' = row /\ row.status = "not_needed" /\ row.by = None
          /\ Broker!Returns(c, row)
    <3>1. PICK none \in ResearchRow : none = Broker!NoRow /\ none.by = None
      BY CallerIdle
    <3>. DEFINE row == [none EXCEPT !.status = "not_needed"]
    <3>2. row \in ResearchRow /\ row.status = "not_needed" /\ row.by = None
      BY <3>1 DEF ResearchRow, Outcomes
    <3>3. brokerResearch' = row /\ Broker!Returns(c, row)
      BY <1>2, <3>1 DEF Broker!Records
    <3>. HIDE DEF row
    <3>. QED
      BY <3>2, <3>3
  <2>2. PICK new \in Holder :
          /\ brokerCaller' = [brokerCaller EXCEPT ![c] = new]
          /\ new.step = "returned" /\ new.got = row
    BY <2>1, CallerReturns
  <2>3. /\ brokerSearches = 0 /\ brokerResearch.by = None
        /\ brokerResearch.status \in {"absent", "searching"}
    BY <1>2 DEF BrokerInv, RowSound
  <2>4. HolderSound(c, new, row, brokerSearches) /\ RowSound(row, brokerSearches, FALSE)
    BY <2>1, <2>2, <2>3 DEF HolderSound, RowSound
  <2>. QED
    BY <1>1, <1>2, <2>1, <2>2, <2>3, <2>4, RowActs
<1>3. CASE ~(brokerResearch.status = "absent" /\ ~brokerMoved)
  <2>1. /\ Broker!Returns(c, brokerResearch)
        /\ UNCHANGED <<brokerResearch, brokerMoved, brokerSearches, brokerContacts, brokerPage>>
    BY <1>3 DEF Broker!Records
  <2>. QED
    BY <2>1, ReturnsStep
<1>. QED
  BY <1>2, <1>3

(* The search: sent once, and what comes of it.                            *)
LEMMA SearchesStep ==
  ASSUME BrokerInv, NEW c \in Routes, Broker!Searches(c)
  PROVE  BrokerInv'
<1>1. PICK t \in Holder : /\ t = brokerCaller[c] /\ t.step = "search"
                          /\ HolderSound(c, t, brokerResearch, brokerSearches)
  BY CallerHolds DEF Broker!Searches
<1>2. /\ brokerSearches = 0 /\ brokerSearches' = 1 /\ brokerResearch.by = c
      /\ brokerResearch' = brokerResearch /\ brokerMoved' = brokerMoved
      /\ brokerPage' = brokerPage /\ brokerContacts' = brokerContacts
  BY <1>1 DEF Broker!Searches, HolderSound
<1>3. PICK new \in Holder :
        /\ brokerCaller' = [brokerCaller EXCEPT ![c] = new]
        /\ new.step = "searching" /\ new.got = t.got
  BY <1>1, CallerGoes DEF Broker!Searches
<1>4. BrokerTyped'
  BY <1>2, <1>3 DEF BrokerInv, BrokerTyped
<1>5. /\ brokerCaller'[c] = new
      /\ \A d \in Routes \ {c} : brokerCaller'[d] = brokerCaller[d]
  BY <1>3 DEF BrokerInv, BrokerTyped
<1>6. HolderSound(c, new, brokerResearch, 1)
  BY <1>1, <1>3 DEF HolderSound
<1>7. ASSUME NEW d \in Routes \ {c} PROVE HolderSound(d, brokerCaller[d], brokerResearch, 1)
  <2>1. HolderSound(d, brokerCaller[d], brokerResearch, brokerSearches)
    BY DEF BrokerInv
  <2>. QED
    BY <1>2, <2>1 DEF HolderSound
<1>8. \A d \in Routes : HolderSound(d, brokerCaller'[d], brokerResearch, 1)
  BY <1>5, <1>6, <1>7
<1>9. (\A d \in Routes : HolderSound(d, brokerCaller[d], brokerResearch, brokerSearches))'
  BY <1>2, <1>8
<1>10. RowSound(brokerResearch, 1, brokerMoved)
  BY <1>2, ServicesAssumption DEF BrokerInv, RowSound
<1>11. RowSound(brokerResearch, brokerSearches, brokerMoved)'
  BY <1>2, <1>10
<1>12. PageSound(brokerPage)' /\ Broker!ConnectionsStayHome'
  BY <1>2 DEF BrokerInv, Broker!ConnectionsStayHome
<1>. QED
  BY <1>4, <1>9, <1>11, <1>12 DEF BrokerInv

LEMMA SearchEndsStep ==
  ASSUME BrokerInv, NEW c \in Routes,
         Broker!OutOfTime(c) \/ Broker!SearchFails(c) \/ Broker!Finds(c)
  PROVE  BrokerInv'
<1>1. PICK t \in Holder : /\ t = brokerCaller[c]
                          /\ HolderSound(c, t, brokerResearch, brokerSearches)
  BY CallerHolds
<1>2. PICK new \in Holder :
        /\ brokerCaller' = [brokerCaller EXCEPT ![c] = new]
        /\ new.got = t.got
        /\ \/ new.step = "fail" /\ new.failure \in Failures
           \/ new.step = "fetch" /\ new.sources >= 1
  <2>1. CASE \E status \in Failures : Broker!Fails(c, status)
    BY <1>1, <2>1, CallerFails
  <2>2. CASE Broker!Finds(c)
    <3>1. PICK n \in 1..3 :
            brokerCaller' = [brokerCaller EXCEPT ![c].step = "fetch", ![c].sources = n]
      BY <2>2 DEF Broker!Finds
    <3>. DEFINE new == [t EXCEPT !.step = "fetch", !.sources = n]
    <3>2. n \in Nat /\ n >= 1
      BY <3>1
    <3>3. new \in Holder /\ new.step = "fetch" /\ new.sources = n /\ new.got = t.got
      BY <3>2 DEF Holder
    <3>4. brokerCaller' = [brokerCaller EXCEPT ![c] = new]
      BY <1>1, <3>1
    <3>. HIDE DEF new
    <3>. QED
      BY <3>2, <3>3, <3>4
  <2>. QED
    BY <2>1, <2>2 DEF Broker!OutOfTime, Broker!SearchFails, Failures
<1>3. HolderSound(c, new, brokerResearch, brokerSearches)
  BY <1>1, <1>2 DEF HolderSound
<1>4. /\ UNCHANGED <<brokerResearch, brokerMoved, brokerSearches, brokerContacts>>
      /\ brokerPage' \in {brokerPage, Broker!NoPage}
  BY DEF Broker!OutOfTime, Broker!SearchFails, Broker!Finds
<1>. QED
  BY <1>2, <1>3, <1>4, QuietStep

(* A caller goes on without a page or a contact changing.                  *)
LEMMA OpensPageStep ==
  ASSUME BrokerInv, NEW c \in Routes, Broker!OpensPage(c)
  PROVE  BrokerInv'
<1>1. PICK t \in Holder : /\ t = brokerCaller[c] /\ t.step = "fetch" /\ t.sources >= 1
                          /\ HolderSound(c, t, brokerResearch, brokerSearches)
  BY CallerHolds DEF Broker!OpensPage, HolderSound
<1>2. UNCHANGED <<brokerResearch, brokerMoved, brokerSearches, brokerContacts>>
  BY DEF Broker!OpensPage
<1>3. CASE Len(t.evidence) < Broker!ToFetch(c)
  <2>1. PICK p \in Keys :
          brokerPage' = [by |-> c, step |-> "resolve", at |-> p, chain |-> <<p>>]
    BY <1>1, <1>3 DEF Broker!OpensPage
  <2>. DEFINE chain == <<p>>
  <2>2. chain \in Seq(Keys) /\ Len(chain) = 1
    OBVIOUS
  <2>3. brokerPage' = [by |-> c, step |-> "resolve", at |-> p, chain |-> chain]
    BY <2>1
  <2>. HIDE DEF chain
  <2>4. brokerPage' \in Page /\ PageSound(brokerPage')
    BY <2>2, <2>3 DEF Page, PageSound
  <2>5. Broker!ConnectionsStayHome'
    BY <1>2 DEF BrokerInv, Broker!ConnectionsStayHome
  <2>6. /\ brokerCaller' = [brokerCaller EXCEPT ![c] = t]
        /\ UNCHANGED <<brokerResearch, brokerMoved, brokerSearches>>
    BY <1>1, <1>2, <1>3, CallerHolds DEF Broker!OpensPage
  <2>. QED
    BY <1>1, <2>4, <2>5, <2>6, CallerActs
<1>4. CASE ~(Len(t.evidence) < Broker!ToFetch(c))
  <2>1. brokerPage' = brokerPage /\ Broker!Goes(c, "store")
    BY <1>1, <1>4 DEF Broker!OpensPage
  <2>2. PICK new \in Holder :
          /\ brokerCaller' = [brokerCaller EXCEPT ![c] = new]
          /\ new.step = "store" /\ new.got = t.got /\ new.evidence = t.evidence
    BY <1>1, <2>1, CallerGoes
  <2>3. Len(t.evidence) >= 1
    <3>1. t.evidence \in Seq({"fact", "failure"}) /\ t.sources \in Nat
      BY DEF Holder
    <3>2. Broker!ToFetch(c) = IF t.sources < 2 THEN t.sources ELSE 2
      BY <1>1 DEF Broker!ToFetch
    <3>3. Broker!ToFetch(c) \in Nat /\ Broker!ToFetch(c) >= 1
      BY <1>1, <3>1, <3>2
    <3>. QED
      BY <1>4, <3>1, <3>3
  <2>4. HolderSound(c, new, brokerResearch, brokerSearches)
    BY <1>1, <2>2, <2>3 DEF HolderSound
  <2>. QED
    BY <1>2, <2>1, <2>2, <2>4, QuietStep
<1>. QED
  BY <1>3, <1>4

(* What a caller holds once a page has ended.                              *)
LEMMA PageEnds ==
  ASSUME BrokerInv, NEW c \in Routes, NEW t, t = brokerCaller[c],
         NEW what \in {"fact", "failure"}, Broker!Ends(c, what)
  PROVE  \E new \in Holder :
           /\ brokerCaller' = [brokerCaller EXCEPT ![c] = new]
           /\ new.step = t.step /\ new.got = t.got /\ new.sources = t.sources
           /\ new.failure = t.failure /\ Len(new.evidence) = Len(t.evidence) + 1
<1>1. t \in Holder
  BY CallerHolds
<1>2. PICK old \in Seq({"fact", "failure"}) : old = t.evidence
  BY <1>1 DEF Holder
<1>. DEFINE longer == Append(old, what)
<1>3. longer \in Seq({"fact", "failure"}) /\ Len(longer) = Len(old) + 1
  OBVIOUS
<1>. HIDE DEF longer
<1>. DEFINE new == [t EXCEPT !.evidence = longer]
<1>4. /\ new \in Holder /\ new.step = t.step /\ new.got = t.got /\ new.sources = t.sources
      /\ new.failure = t.failure /\ new.evidence = longer
  BY <1>1, <1>3 DEF Holder
<1>5. brokerCaller' = [brokerCaller EXCEPT ![c] = new]
  BY <1>2 DEF Broker!Ends, longer
<1>. HIDE DEF new
<1>. QED
  BY <1>2, <1>3, <1>4, <1>5

(* The page ends as a fact or a failure, with at most one more contact.    *)
LEMMA PageEndsStep ==
  ASSUME BrokerInv, NEW c \in Routes, NEW what \in {"fact", "failure"}, Broker!Ends(c, what),
         Broker!ConnectionsStayHome',
         UNCHANGED <<brokerResearch, brokerMoved, brokerSearches>>
  PROVE  BrokerInv'
<1>1. PICK t \in Holder : /\ t = brokerCaller[c]
                          /\ HolderSound(c, t, brokerResearch, brokerSearches)
  BY CallerHolds
<1>2. PICK new \in Holder :
        /\ brokerCaller' = [brokerCaller EXCEPT ![c] = new]
        /\ new.step = t.step /\ new.got = t.got /\ new.sources = t.sources
        /\ new.failure = t.failure /\ Len(new.evidence) = Len(t.evidence) + 1
  BY <1>1, PageEnds
<1>3. Len(t.evidence) \in Nat
  BY DEF Holder
<1>4. HolderSound(c, new, brokerResearch, brokerSearches)
  BY <1>1, <1>2, <1>3 DEF HolderSound
<1>. DEFINE none == <<>>
<1>5. none \in Seq(Keys)
  OBVIOUS
<1>6. brokerPage' = [by |-> None, step |-> "none", at |-> None, chain |-> none]
  BY DEF Broker!Ends, Broker!NoPage
<1>. HIDE DEF none
<1>7. brokerPage' \in Page /\ PageSound(brokerPage')
  BY <1>5, <1>6 DEF Page, PageSound
<1>8. UNCHANGED <<brokerResearch, brokerMoved, brokerSearches>>
  OBVIOUS
<1>. QED
  BY <1>2, <1>4, <1>7, <1>8, CallerActs

(* The page moves on and its caller waits.                                 *)
LEMMA PageMoves ==
  ASSUME BrokerInv, NEW c \in Routes, brokerCaller' = brokerCaller,
         brokerPage' \in Page, PageSound(brokerPage'), Broker!ConnectionsStayHome',
         UNCHANGED <<brokerResearch, brokerMoved, brokerSearches>>
  PROVE  BrokerInv'
<1>1. PICK t \in Holder : /\ t = brokerCaller[c]
                          /\ HolderSound(c, t, brokerResearch, brokerSearches)
                          /\ brokerCaller' = [brokerCaller EXCEPT ![c] = t]
  BY CallerHolds
<1>2. UNCHANGED <<brokerResearch, brokerMoved, brokerSearches>>
  OBVIOUS
<1>. QED
  BY <1>1, <1>2, CallerActs

LEMMA PageStep ==
  ASSUME BrokerInv, NEW c \in Routes,
         \/ Broker!Resolves(c) \/ Broker!Requests(c) \/ Broker!Redirects(c)
         \/ Broker!PageRefused(c) \/ Broker!PageRead(c)
  PROVE  BrokerInv'
<1>1. PICK p \in Page : p = brokerPage /\ p.at \in Keys /\ Len(p.chain) <= 3
  BY DEF BrokerInv, BrokerTyped, PageSound, Broker!Resolves, Broker!Requests, Broker!Redirects,
         Broker!PageRefused, Broker!PageRead
<1>2. /\ brokerResearch' = brokerResearch /\ brokerMoved' = brokerMoved
      /\ brokerSearches' = brokerSearches
  BY DEF Broker!Resolves, Broker!Requests, Broker!Redirects, Broker!PageRefused, Broker!PageRead
<1>3. Broker!ConnectionsStayHome'
  <2>1. CASE Broker!Requests(c)
    <3>. DEFINE hop == Len(p.chain)
    <3>1. hop \in Nat /\ hop <= 3
      <4>1. p.chain \in Seq(Keys)
        BY DEF Page
      <4>. QED
        BY <1>1, <4>1
    <3>2. p.at # Elsewhere
      BY <1>1, ServicesAssumption
    <3>3. brokerContacts' = brokerContacts \cup {[at |-> p.at, hop |-> hop]}
      BY <1>1, <2>1, <3>1 DEF Broker!Requests
    <3>. HIDE DEF hop
    <3>4. Broker!ConnectionsStayHome
      BY DEF BrokerInv
    <3>. QED
      BY <3>1, <3>2, <3>3, <3>4 DEF Broker!ConnectionsStayHome
  <2>2. CASE brokerContacts' = brokerContacts
    BY <2>2 DEF BrokerInv, Broker!ConnectionsStayHome
  <2>. QED
    BY <2>1, <2>2 DEF Broker!Resolves, Broker!Redirects, Broker!PageRefused, Broker!PageRead
<1>4. CASE \E what \in {"fact", "failure"} : Broker!Ends(c, what)
  BY <1>2, <1>3, <1>4, PageEndsStep
<1>5. CASE /\ brokerCaller' = brokerCaller
           /\ \E step \in {"request", "respond"} : brokerPage' = [brokerPage EXCEPT !.step = step]
  <2>1. PICK step \in {"request", "respond"} : brokerPage' = [p EXCEPT !.step = step]
    BY <1>1, <1>5
  <2>2. brokerPage' \in Page /\ PageSound(brokerPage')
    BY <1>1, <2>1 DEF Page, PageSound
  <2>. QED
    BY <1>2, <1>3, <1>5, <2>2, PageMoves
<1>6. CASE Broker!Redirects(c)
  <2>1. PICK q \in Keys : /\ Len(p.chain) <= 2
                          /\ brokerPage' = [p EXCEPT !.step = "resolve", !.at = q,
                                                     !.chain = Append(p.chain, q)]
    BY <1>1, <1>6 DEF Broker!Redirects, Broker!Followable
  <2>. DEFINE chain == Append(p.chain, q)
  <2>2. chain \in Seq(Keys) /\ Len(chain) <= 3
    <3>1. p.chain \in Seq(Keys)
      BY DEF Page
    <3>2. chain \in Seq(Keys) /\ Len(chain) = Len(p.chain) + 1 /\ Len(p.chain) \in Nat
      BY <3>1
    <3>. QED
      BY <2>1, <3>2
  <2>3. brokerPage' = [p EXCEPT !.step = "resolve", !.at = q, !.chain = chain]
    BY <2>1
  <2>. HIDE DEF chain
  <2>4. brokerPage' \in Page /\ PageSound(brokerPage')
    BY <1>1, <2>2, <2>3 DEF Page, PageSound
  <2>5. brokerCaller' = brokerCaller
    BY <1>6 DEF Broker!Redirects
  <2>. QED
    BY <1>2, <1>3, <2>4, <2>5, PageMoves
<1>. QED
  BY <1>4, <1>5, <1>6 DEF Broker!Resolves, Broker!Requests, Broker!PageRefused, Broker!PageRead

(* The outcome: stored while the row waits for it, else refused.           *)
LEMMA CompletesStep ==
  ASSUME BrokerInv, NEW c \in Routes, Broker!Completes(c)
  PROVE  BrokerInv'
<1>1. PICK t \in Holder : /\ t = brokerCaller[c] /\ t.step = "store" /\ Len(t.evidence) >= 1
                          /\ HolderSound(c, t, brokerResearch, brokerSearches)
  BY CallerHolds DEF Broker!Completes, HolderSound
<1>2. UNCHANGED <<brokerPage, brokerContacts, brokerMoved, brokerSearches>>
  BY DEF Broker!Completes
<1>3. CASE Broker!EvidenceFits(c) /\ Broker!MayComplete(c)
  <2>1. brokerResearch.status = "searching" /\ ~brokerMoved
    BY <1>3 DEF Broker!MayComplete
  <2>2. PICK row \in ResearchRow :
          /\ brokerResearch' = row /\ row.status = "completed" /\ row.by = brokerResearch.by
          /\ Len(row.evidence) \in 1..2 /\ Broker!Returns(c, row)
    <3>1. PICK old \in ResearchRow : old = brokerResearch
      BY DEF BrokerInv, BrokerTyped
    <3>2. PICK found \in Seq({"fact", "failure"}) : found = t.evidence
      BY DEF Holder
    <3>. DEFINE row == [old EXCEPT !.status = "completed", !.evidence = found]
    <3>3. /\ row \in ResearchRow /\ row.status = "completed" /\ row.by = old.by
          /\ row.evidence = found
      BY DEF ResearchRow, Outcomes
    <3>4. Len(found) \in Nat /\ Len(found) >= 1 /\ Len(found) <= 2
      BY <1>1, <1>3, <3>2 DEF Broker!EvidenceFits
    <3>5. brokerResearch' = row /\ Broker!Returns(c, row)
      BY <1>1, <1>3, <3>1, <3>2 DEF Broker!Completes
    <3>. HIDE DEF row
    <3>6. row.by = brokerResearch.by /\ Len(row.evidence) = Len(found)
      BY <3>1, <3>3
    <3>7. Len(found) \in 1..2
      <4>1. \A n \in Nat : n >= 1 /\ n <= 2 => n \in 1..2
        OBVIOUS
      <4>. QED
        BY <3>4, <4>1
    <3>. QED
      BY <3>3, <3>5, <3>6, <3>7
  <2>3. PICK new \in Holder :
          /\ brokerCaller' = [brokerCaller EXCEPT ![c] = new]
          /\ new.step = "returned" /\ new.got = row
    BY <2>2, CallerReturns
  <2>4. RowSound(brokerResearch, brokerSearches, brokerMoved)
    BY DEF BrokerInv
  <2>5. HolderSound(c, new, row, brokerSearches) /\ RowSound(row, brokerSearches, FALSE)
    BY <2>1, <2>2, <2>3, <2>4 DEF HolderSound, RowSound
  <2>. QED
    BY <1>2, <2>1, <2>2, <2>3, <2>5, RowActs
<1>4. CASE ~(Broker!EvidenceFits(c) /\ Broker!MayComplete(c))
  <2>1. brokerResearch' = brokerResearch /\ Broker!Goes(c, "refused")
    BY <1>4 DEF Broker!Completes
  <2>2. PICK new \in Holder :
          /\ brokerCaller' = [brokerCaller EXCEPT ![c] = new]
          /\ new.step = "refused" /\ new.got = t.got
    BY <1>1, <2>1, CallerGoes
  <2>3. HolderSound(c, new, brokerResearch, brokerSearches)
    BY <1>1, <2>2 DEF HolderSound
  <2>. QED
    BY <1>2, <2>1, <2>2, <2>3, QuietStep
<1>. QED
  BY <1>3, <1>4

LEMMA FailsRowStep ==
  ASSUME BrokerInv, NEW c \in Routes, Broker!FailsRow(c)
  PROVE  BrokerInv'
<1>1. PICK t \in Holder : /\ t = brokerCaller[c] /\ t.step = "fail" /\ t.failure \in Failures
                          /\ HolderSound(c, t, brokerResearch, brokerSearches)
  BY CallerHolds DEF Broker!FailsRow, HolderSound
<1>2. UNCHANGED <<brokerPage, brokerContacts, brokerMoved, brokerSearches>>
  BY DEF Broker!FailsRow
<1>3. CASE brokerResearch.status = "searching" /\ ~brokerMoved
  <2>1. PICK row \in ResearchRow :
          /\ brokerResearch' = row /\ row.status \in Failures /\ row.by = brokerResearch.by
          /\ Broker!Returns(c, row)
    <3>1. PICK old \in ResearchRow : old = brokerResearch
      BY DEF BrokerInv, BrokerTyped
    <3>2. PICK failure \in Failures : failure = t.failure
      BY <1>1
    <3>. DEFINE row == [old EXCEPT !.status = failure]
    <3>3. row \in ResearchRow /\ row.status = failure /\ row.by = old.by
      BY DEF ResearchRow, Outcomes, Failures
    <3>4. brokerResearch' = row /\ Broker!Returns(c, row)
      BY <1>1, <1>3, <3>1, <3>2 DEF Broker!FailsRow
    <3>. HIDE DEF row
    <3>. QED
      BY <3>1, <3>3, <3>4
  <2>2. PICK new \in Holder :
          /\ brokerCaller' = [brokerCaller EXCEPT ![c] = new]
          /\ new.step = "returned" /\ new.got = row
    BY <2>1, CallerReturns
  <2>3. RowSound(brokerResearch, brokerSearches, brokerMoved)
    BY DEF BrokerInv
  <2>4. HolderSound(c, new, row, brokerSearches) /\ RowSound(row, brokerSearches, FALSE)
    BY <1>3, <2>1, <2>2, <2>3 DEF HolderSound, RowSound, Failures
  <2>. QED
    BY <1>2, <1>3, <2>1, <2>2, <2>4, RowActs
<1>4. CASE ~(brokerResearch.status = "searching" /\ ~brokerMoved)
  <2>1. /\ brokerResearch' = brokerResearch
        /\ Broker!Returns(c, brokerResearch) \/ Broker!Goes(c, "refused")
    BY <1>4 DEF Broker!FailsRow
  <2>2. CASE Broker!Returns(c, brokerResearch)
    <3>1. UNCHANGED <<brokerResearch, brokerMoved, brokerSearches, brokerContacts, brokerPage>>
      BY <1>2, <2>1
    <3>. QED
      BY <2>2, <3>1, ReturnsStep
  <2>3. CASE Broker!Goes(c, "refused")
    <3>1. PICK new \in Holder :
            /\ brokerCaller' = [brokerCaller EXCEPT ![c] = new]
            /\ new.step = "refused" /\ new.got = t.got
      BY <1>1, <2>3, CallerGoes
    <3>2. HolderSound(c, new, brokerResearch, brokerSearches)
      BY <1>1, <3>1 DEF HolderSound
    <3>. QED
      BY <1>2, <2>1, <3>1, <3>2, QuietStep
  <2>. QED
    BY <2>1, <2>2, <2>3
<1>. QED
  BY <1>3, <1>4

(* A caller that asks again or dies holds nothing.                         *)
LEMMA CallerResets ==
  ASSUME BrokerInv, NEW c \in Routes, Broker!AsksAgain(c) \/ Broker!Dies(c)
  PROVE  BrokerInv'
<1>1. PICK idle \in Holder : /\ idle = Broker!Idle /\ idle.step = "idle"
                             /\ idle.got.status = "absent"
  BY CallerIdle
<1>2. PICK new \in Holder : /\ brokerCaller' = [brokerCaller EXCEPT ![c] = new]
                            /\ new.step \in {"idle", "dead"} /\ new.got = idle.got
  <2>1. CASE Broker!AsksAgain(c)
    BY <1>1, <2>1 DEF Broker!AsksAgain
  <2>2. CASE Broker!Dies(c)
    <3>. DEFINE new == [idle EXCEPT !.step = "dead"]
    <3>1. new \in Holder /\ new.step = "dead" /\ new.got = idle.got
      BY DEF Holder
    <3>2. brokerCaller' = [brokerCaller EXCEPT ![c] = new]
      BY <1>1, <2>2 DEF Broker!Dies
    <3>. HIDE DEF new
    <3>. QED
      BY <3>1, <3>2
  <2>. QED
    BY <2>1, <2>2
<1>3. HolderSound(c, new, brokerResearch, brokerSearches)
  BY <1>1, <1>2 DEF HolderSound, Outcomes
<1>4. /\ UNCHANGED <<brokerResearch, brokerMoved, brokerSearches, brokerContacts>>
      /\ brokerPage' \in {brokerPage, Broker!NoPage}
  BY DEF Broker!AsksAgain, Broker!Dies
<1>. QED
  BY <1>2, <1>3, <1>4, QuietStep

(* The run moves on with an outcome that a caller was given.               *)
LEMMA RunMovesStep ==
  ASSUME BrokerInv, Broker!RunMoves
  PROVE  BrokerInv'
<1>1. /\ brokerMoved' = TRUE /\ brokerResearch' = brokerResearch /\ brokerCaller' = brokerCaller
      /\ brokerPage' = brokerPage /\ brokerSearches' = brokerSearches
      /\ brokerContacts' = brokerContacts
  BY DEF Broker!RunMoves
<1>2. PICK c \in Routes : brokerCaller[c].got.status \in Outcomes
  BY DEF Broker!RunMoves, Broker!Ended, Outcomes
<1>3. brokerResearch.status \in Outcomes
  BY <1>2, CallerHolds DEF HolderSound
<1>4. RowSound(brokerResearch, brokerSearches, TRUE)
  BY <1>3 DEF BrokerInv, RowSound
<1>5. BrokerTyped'
  BY <1>1 DEF BrokerInv, BrokerTyped
<1>6. RowSound(brokerResearch, brokerSearches, brokerMoved)'
  BY <1>1, <1>4
<1>7. /\ (\A d \in Routes : HolderSound(d, brokerCaller[d], brokerResearch, brokerSearches))'
      /\ PageSound(brokerPage)' /\ Broker!ConnectionsStayHome'
  BY <1>1 DEF BrokerInv, Broker!ConnectionsStayHome
<1>. QED
  BY <1>5, <1>6, <1>7 DEF BrokerInv

(* The broker's invariant: where it begins, at each of its steps, and      *)
(* while it rests.                                                         *)
LEMMA BrokerRests ==
  ASSUME BrokerInv,
         UNCHANGED <<brokerResearch, brokerMoved, brokerCaller, brokerPage, brokerSearches,
                     brokerContacts>>
  PROVE  BrokerInv'
<1>1. /\ brokerMoved' = brokerMoved /\ brokerResearch' = brokerResearch
      /\ brokerCaller' = brokerCaller /\ brokerPage' = brokerPage
      /\ brokerSearches' = brokerSearches /\ brokerContacts' = brokerContacts
  OBVIOUS
<1>. QED
  BY <1>1 DEF BrokerInv, BrokerTyped, Broker!ConnectionsStayHome

LEMMA BrokerBegins == Broker!Init => BrokerInv
<1>. SUFFICES ASSUME Broker!Init PROVE BrokerInv
  OBVIOUS
<1>1. brokerCaller = [c \in Routes |-> Broker!Idle] /\ brokerResearch = Broker!NoRow
  BY DEF Broker!Init
<1>2. \A c \in Routes : brokerCaller[c] = Broker!Idle
  BY <1>1
<1>. DEFINE none == <<>>
<1>3. none \in Seq(Keys)
  OBVIOUS
<1>4. brokerPage = [by |-> None, step |-> "none", at |-> None, chain |-> none]
  BY DEF Broker!Init, Broker!NoPage
<1>. HIDE DEF none
<1>5. brokerPage \in Page /\ PageSound(brokerPage)
  BY <1>3, <1>4 DEF Page, PageSound
<1>6. brokerSearches = 0 /\ brokerMoved = FALSE /\ brokerContacts = {}
  BY DEF Broker!Init
<1>7. BrokerTyped
  BY <1>1, <1>5, <1>6, CallerIdle DEF BrokerTyped
<1>8. RowSound(brokerResearch, brokerSearches, brokerMoved)
  BY <1>1, <1>6, CallerIdle DEF RowSound
<1>9. \A c \in Routes : HolderSound(c, brokerCaller[c], brokerResearch, brokerSearches)
  BY <1>1, <1>2, CallerIdle DEF HolderSound
<1>10. Broker!ConnectionsStayHome
  BY <1>6 DEF Broker!ConnectionsStayHome
<1>. QED
  BY <1>5, <1>7, <1>8, <1>9, <1>10 DEF BrokerInv

LEMMA BrokerSteps == BrokerInv /\ Broker!Next => BrokerInv'
<1>. SUFFICES ASSUME BrokerInv, Broker!Next PROVE BrokerInv'
  OBVIOUS
<1>1. CASE Broker!DeadlinePasses
  BY <1>1, BrokerRests DEF Broker!DeadlinePasses
<1>2. ASSUME NEW c \in Routes,
             \/ Broker!LooksUp(c) \/ Broker!Claims(c) \/ Broker!Records(c) \/ Broker!OutOfTime(c)
             \/ Broker!Searches(c) \/ Broker!SearchFails(c) \/ Broker!Finds(c)
             \/ Broker!OpensPage(c) \/ Broker!Resolves(c) \/ Broker!Requests(c)
             \/ Broker!Redirects(c) \/ Broker!PageRefused(c) \/ Broker!PageRead(c)
             \/ Broker!Completes(c) \/ Broker!FailsRow(c) \/ Broker!AsksAgain(c) \/ Broker!Dies(c)
      PROVE  BrokerInv'
  BY <1>2, LooksUpStep, ClaimsStep, RecordsStep, SearchesStep, SearchEndsStep, OpensPageStep,
     PageStep, CompletesStep, FailsRowStep, CallerResets
<1>. QED
  BY <1>1, <1>2, RunMovesStep DEF Broker!Next

-----------------------------------------------------------------------------
(* The host's search.                                                      *)

Bytes == {"pinned", "other"}
CodexSearchState ==
  [step : {"idle", "checking", "rechecking", "starting", "running", "done", "failed"},
   read : SUBSET Search!Files, aborted : BOOLEAN, intact : BOOLEAN]
ClientState == {"none", "starting", "open", "closed"}

CodexTyped ==
  /\ searchDisk \in [Search!Files -> [bytes : Bytes, changed : Nat]]
  /\ searchInspected \in Nat
  /\ searchSeals \in [{f1} -> Nat]
  /\ searchModules \in [Search!Files -> Bytes \cup {"none"}]
  /\ searchSearch \in [Routes -> CodexSearchState]
  /\ searchClient \in [Routes -> ClientState]

(* What the seal of a file says: while it matches, the bytes are those that *)
(* were reviewed, and nothing else was ever loaded.                        *)
SealSpeaks(file, seal, module) ==
  /\ file.changed >= seal
  /\ file.changed = seal => file.bytes = "pinned" /\ module \in {"none", "pinned"}

(* What a search has made sure of, and the client process it owns.         *)
SearchSound(t, owned, modules) ==
  /\ t.step \in {"idle", "checking", "rechecking"} => owned = "none"
  /\ owned = "starting" =>
       t.step = "starting" \/ (t.step = "failed" /\ t.aborted = TRUE)
  /\ owned = "open" => t.step = "running" /\ t.aborted = FALSE
  /\ t.step = "done" => t.intact = TRUE /\ owned = "closed"
  /\ t.step \in {"rechecking", "starting", "running", "done"} =>
       \A f \in Search!Files : modules[f] # "none"
  /\ t.step = "rechecking" /\ f1 \in t.read => modules[f1] = "pinned"
  /\ t.step \in {"starting", "running", "done"} => modules[f1] = "pinned"

CodexInv ==
  /\ CodexTyped
  /\ \A s \in Routes : SearchSound(searchSearch[s], searchClient[s], searchModules)
  /\ ~Search!Attested =>
       /\ \A s \in Routes : searchSearch[s].step = "idle"
       /\ \A f \in Search!Files : searchModules[f] = "none"
  /\ Search!Attested => SealSpeaks(searchDisk[f1], searchSeals[f1], searchModules[f1])

LEMMA CodexHolds ==
  ASSUME CodexInv, NEW s \in Routes
  PROVE  /\ searchSearch[s] \in CodexSearchState /\ searchClient[s] \in ClientState
         /\ SearchSound(searchSearch[s], searchClient[s], searchModules)
         /\ searchSearch[s].step # "idle" => Search!Attested
         /\ searchClient = [searchClient EXCEPT ![s] = searchClient[s]]
         /\ f1 \in Search!Files
BY DEF CodexInv, CodexTyped, Search!Files

(* A search of an attested package acts.                                   *)
LEMMA CodexActs ==
  ASSUME CodexInv, NEW s \in Routes, NEW t \in CodexSearchState, NEW owned \in ClientState,
         Search!Attested,
         searchSearch' = [searchSearch EXCEPT ![s] = t],
         searchClient' = [searchClient EXCEPT ![s] = owned],
         SearchSound(t, owned, searchModules),
         UNCHANGED <<searchDisk, searchInspected, searchSeals, searchModules>>
  PROVE  CodexInv'
<1>1. /\ searchDisk' = searchDisk /\ searchInspected' = searchInspected
      /\ searchSeals' = searchSeals /\ searchModules' = searchModules
  OBVIOUS
<1>2. CodexTyped'
  BY <1>1 DEF CodexInv, CodexTyped
<1>3. /\ searchSearch'[s] = t /\ searchClient'[s] = owned
      /\ \A d \in Routes \ {s} : searchSearch'[d] = searchSearch[d] /\ searchClient'[d] = searchClient[d]
  BY DEF CodexInv, CodexTyped
<1>4. \A d \in Routes : SearchSound(searchSearch'[d], searchClient'[d], searchModules)
  BY <1>3 DEF CodexInv
<1>5. (\A d \in Routes : SearchSound(searchSearch[d], searchClient[d], searchModules))'
  BY <1>1, <1>4
<1>6. Search!Attested'
  BY <1>1 DEF Search!Attested
<1>7. SealSpeaks(searchDisk[f1], searchSeals[f1], searchModules[f1])'
  BY <1>1 DEF CodexInv
<1>. QED
  BY <1>2, <1>5, <1>6, <1>7 DEF CodexInv

(* The inspection goes on, or one of its facts stops holding.              *)
LEMMA CodexInspects ==
  ASSUME CodexInv, Search!Inspect \/ Search!HostDrifts
  PROVE  CodexInv'
<1>1. /\ searchDisk' = searchDisk /\ searchSeals' = searchSeals
      /\ searchModules' = searchModules /\ searchSearch' = searchSearch
      /\ searchClient' = searchClient
  BY DEF Search!Inspect, Search!HostDrifts
<1>2. Len(Search!Inspection) = 7
  BY DEF Search!Inspection
<1>3. /\ ~Search!Attested /\ ~Search!Attested' /\ searchInspected' \in Nat
  BY <1>2 DEF Search!Inspect, Search!HostDrifts, Search!Attested, CodexInv, CodexTyped
<1>4. CodexTyped'
  BY <1>1, <1>3 DEF CodexInv, CodexTyped
<1>. QED
  BY <1>1, <1>3, <1>4 DEF CodexInv

(* The package is attested: every file holds the reviewed bytes.           *)
LEMMA CodexAttests ==
  ASSUME CodexInv, Search!Attest
  PROVE  CodexInv'
<1>1. /\ searchDisk' = searchDisk /\ searchModules' = searchModules
      /\ searchSearch' = searchSearch /\ searchClient' = searchClient
      /\ searchSeals' = [f \in {f1} |-> searchDisk[f].changed]
      /\ searchInspected' = searchInspected + 1
  BY DEF Search!Attest
<1>2. Len(Search!Inspection) = 7
  BY DEF Search!Inspection
<1>3. ~Search!Attested /\ Search!Attested' /\ f1 \in Search!Files
  BY <1>1, <1>2 DEF Search!Attest, Search!Attested, Search!Files
<1>4. /\ searchDisk[f1].changed \in Nat /\ searchDisk[f1].bytes = "pinned"
      /\ searchModules[f1] = "none"
  BY <1>3 DEF CodexInv, CodexTyped, Search!Attest
<1>5. CodexTyped'
  BY <1>1, <1>4 DEF CodexInv, CodexTyped
<1>6. SealSpeaks(searchDisk[f1], searchSeals[f1], searchModules[f1])'
  BY <1>1, <1>4 DEF SealSpeaks
<1>7. (\A d \in Routes : SearchSound(searchSearch[d], searchClient[d], searchModules))'
  BY <1>1 DEF CodexInv
<1>. QED
  BY <1>3, <1>5, <1>6, <1>7 DEF CodexInv

(* The change time of a rewritten file is later than any before.           *)
LEMMA NowIsLatest ==
  ASSUME CodexTyped
  PROVE  Search!Now \in Nat /\ \A f \in Search!Files : searchDisk[f].changed <= Search!Now
<1>. DEFINE times == {searchDisk[f].changed : f \in Search!Files}
<1>1. \E t \in times : \A f \in Search!Files : searchDisk[f].changed <= t
  <2>1. searchDisk[f1].changed \in Nat /\ searchDisk[f2].changed \in Nat
    BY DEF CodexTyped, Search!Files
  <2>2. searchDisk[f1].changed \in times /\ searchDisk[f2].changed \in times
    BY DEF Search!Files
  <2>3. Search!Files = {f1, f2}
    BY DEF Search!Files
  <2>4. CASE searchDisk[f1].changed <= searchDisk[f2].changed
    BY <2>1, <2>2, <2>3, <2>4
  <2>5. CASE searchDisk[f2].changed <= searchDisk[f1].changed
    BY <2>1, <2>2, <2>3, <2>5
  <2>. QED
    BY <2>1, <2>4, <2>5
<1>2. Search!Now \in times /\ \A f \in Search!Files : searchDisk[f].changed <= Search!Now
  BY <1>1 DEF Search!Now
<1>3. times \subseteq Nat
  BY DEF CodexTyped
<1>. QED
  BY <1>2, <1>3

LEMMA CodexRewrites ==
  ASSUME CodexInv, NEW f \in Search!Files, Search!Rewrite(f)
  PROVE  CodexInv'
<1>1. /\ searchModules' = searchModules /\ searchSearch' = searchSearch
      /\ searchClient' = searchClient /\ searchSeals' = searchSeals
      /\ searchInspected' = searchInspected
  BY DEF Search!Rewrite
<1>2. /\ Search!Now \in Nat /\ \A g \in Search!Files : searchDisk[g].changed <= Search!Now
  BY NowIsLatest DEF CodexInv
<1>3. PICK bytes \in Bytes :
        searchDisk' = [searchDisk EXCEPT ![f] = [bytes |-> bytes, changed |-> Search!Now + 1]]
  BY DEF Search!Rewrite, Bytes
<1>4. CodexTyped'
  BY <1>1, <1>2, <1>3 DEF CodexInv, CodexTyped
<1>5. Search!Attested' <=> Search!Attested
  BY <1>1 DEF Search!Attested
<1>6. ASSUME Search!Attested
      PROVE  SealSpeaks(searchDisk[f1], searchSeals[f1], searchModules[f1])'
  <2>1. SealSpeaks(searchDisk[f1], searchSeals[f1], searchModules[f1])
    BY <1>6 DEF CodexInv
  <2>2. f1 \in Search!Files /\ searchSeals[f1] \in Nat /\ searchDisk[f1].changed \in Nat
    BY DEF CodexInv, CodexTyped, Search!Files
  <2>3. CASE f = f1
    <3>1. searchDisk'[f1].changed = Search!Now + 1
      BY <1>3, <2>2, <2>3 DEF CodexInv, CodexTyped
    <3>2. Search!Now + 1 > searchSeals[f1]
      BY <1>2, <2>1, <2>2 DEF SealSpeaks
    <3>. QED
      BY <1>1, <1>2, <2>2, <3>1, <3>2 DEF SealSpeaks
  <2>4. CASE f # f1
    <3>1. searchDisk'[f1] = searchDisk[f1]
      BY <1>3, <2>2, <2>4 DEF CodexInv, CodexTyped
    <3>. QED
      BY <1>1, <2>1, <3>1
  <2>. QED
    BY <2>3, <2>4
<1>7. (\A d \in Routes : SearchSound(searchSearch[d], searchClient[d], searchModules))'
  BY <1>1 DEF CodexInv
<1>8. ~Search!Attested =>
       /\ \A s \in Routes : searchSearch'[s].step = "idle"
       /\ \A g \in Search!Files : searchModules'[g] = "none"
  BY <1>1 DEF CodexInv
<1>. QED
  BY <1>4, <1>5, <1>6, <1>7, <1>8 DEF CodexInv

(* Loading: what was loaded before stays, and the rest is read now.        *)
LEMMA CodexLoads ==
  ASSUME CodexInv, NEW s \in Routes, Search!Load(s)
  PROVE  CodexInv'
<1>1. /\ searchDisk' = searchDisk /\ searchClient' = searchClient
      /\ searchSeals' = searchSeals /\ searchInspected' = searchInspected
      /\ searchModules' = [f \in Search!Files |->
           IF searchModules[f] = "none" THEN searchDisk[f].bytes ELSE searchModules[f]]
  BY DEF Search!Load
<1>2. PICK t \in CodexSearchState : /\ t = searchSearch[s] /\ t.step = "checking"
                                    /\ SearchSound(t, searchClient[s], searchModules)
  BY CodexHolds DEF Search!Load
<1>. DEFINE new == [t EXCEPT !.step = "rechecking", !.read = {}]
<1>3. new \in CodexSearchState /\ new.step = "rechecking" /\ new.read = {}
  BY DEF CodexSearchState
<1>4. searchSearch' = [searchSearch EXCEPT ![s] = new]
  BY <1>2 DEF Search!Load
<1>. HIDE DEF new
<1>5. Search!Attested /\ Search!Attested'
  BY <1>1, <1>2, CodexHolds DEF Search!Attested
<1>6. CodexTyped'
  BY <1>1, <1>3, <1>4 DEF CodexInv, CodexTyped, Bytes
<1>7. /\ searchSearch'[s] = new
      /\ \A d \in Routes \ {s} : searchSearch'[d] = searchSearch[d]
  BY <1>4 DEF CodexInv, CodexTyped
<1>8. /\ \A f \in Search!Files : /\ searchModules'[f] # "none"
                                 /\ searchModules[f] # "none" => searchModules'[f] = searchModules[f]
      /\ f1 \in Search!Files
  BY <1>1 DEF CodexInv, CodexTyped, Bytes, Search!Files
<1>9. SearchSound(new, searchClient[s], searchModules')
  BY <1>2, <1>3, <1>8 DEF SearchSound
<1>10. ASSUME NEW d \in Routes \ {s} PROVE SearchSound(searchSearch[d], searchClient[d], searchModules')
  <2>1. SearchSound(searchSearch[d], searchClient[d], searchModules)
    BY DEF CodexInv
  <2>. QED
    BY <1>8, <2>1 DEF SearchSound
<1>11. \A d \in Routes : SearchSound(searchSearch'[d], searchClient[d], searchModules')
  BY <1>7, <1>9, <1>10
<1>12. (\A d \in Routes : SearchSound(searchSearch[d], searchClient[d], searchModules))'
  BY <1>1, <1>11
<1>13. SealSpeaks(searchDisk[f1], searchSeals[f1], searchModules'[f1])
  BY <1>1, <1>5, <1>8 DEF CodexInv, SealSpeaks
<1>14. SealSpeaks(searchDisk[f1], searchSeals[f1], searchModules[f1])'
  BY <1>1, <1>13
<1>. QED
  BY <1>5, <1>6, <1>12, <1>14 DEF CodexInv

(* The steps of one search before its client starts.                       *)
LEMMA CodexChecks ==
  ASSUME CodexInv, NEW s \in Routes,
         \/ Search!Begin(s) \/ Search!Refused(s) \/ \E f \in Search!Files : Search!Reads(s, f)
  PROVE  CodexInv'
<1>1. PICK t \in CodexSearchState, owned \in ClientState :
        /\ t = searchSearch[s] /\ owned = searchClient[s]
        /\ SearchSound(t, owned, searchModules)
        /\ searchClient = [searchClient EXCEPT ![s] = owned]
  BY CodexHolds
<1>2. /\ searchDisk' = searchDisk /\ searchClient' = searchClient
      /\ searchSeals' = searchSeals /\ searchInspected' = searchInspected
      /\ searchModules' = searchModules
  BY DEF Search!Begin, Search!Refused, Search!Reads
<1>3. Search!Attested /\ t.step \in {"idle", "checking", "rechecking"}
  BY <1>1, CodexHolds DEF Search!Begin, Search!Refused, Search!Reads
<1>4. PICK new \in CodexSearchState :
        /\ searchSearch' = [searchSearch EXCEPT ![s] = new]
        /\ \/ new.step \in {"checking", "failed"}
           \/ /\ new.step = "rechecking" /\ t.step = "rechecking"
              /\ f1 \in new.read /\ f1 \notin t.read => Search!Intact(f1)
  <2>1. CASE Search!Begin(s) \/ Search!Refused(s)
    <3>1. PICK step \in {"checking", "failed"} :
            searchSearch' = [searchSearch EXCEPT ![s].step = step]
      BY <2>1 DEF Search!Begin, Search!Refused
    <3>. DEFINE new == [t EXCEPT !.step = step]
    <3>2. new \in CodexSearchState /\ new.step = step
      BY DEF CodexSearchState
    <3>3. searchSearch' = [searchSearch EXCEPT ![s] = new]
      BY <1>1, <3>1
    <3>. HIDE DEF new
    <3>. QED
      BY <3>2, <3>3
  <2>2. CASE \E f \in Search!Files : Search!Reads(s, f)
    <3>1. PICK f \in Search!Files : Search!Reads(s, f)
      BY <2>2
    <3>2. PICK step \in {"checking", "rechecking", "failed"} :
            step = IF Search!Intact(f) THEN t.step ELSE "failed"
      BY <1>1, <3>1 DEF Search!Reads
    <3>3. PICK read \in SUBSET Search!Files : read = t.read \cup {f}
      BY DEF CodexSearchState
    <3>. DEFINE new == [t EXCEPT !.read = read, !.step = step]
    <3>4. new \in CodexSearchState /\ new.step = step /\ new.read = read
      BY DEF CodexSearchState
    <3>5. searchSearch' = [searchSearch EXCEPT ![s] = new]
      BY <1>1, <3>1, <3>2, <3>3 DEF Search!Reads
    <3>. HIDE DEF new
    <3>6. step = "rechecking" => /\ t.step = "rechecking"
                                 /\ f1 \in read /\ f1 \notin t.read => Search!Intact(f1)
      BY <3>2, <3>3
    <3>. QED
      BY <3>2, <3>4, <3>5, <3>6
  <2>. QED
    BY <2>1, <2>2
<1>5. SearchSound(new, owned, searchModules)
  <2>1. CASE new.step \in {"checking", "failed"}
    BY <1>1, <1>3, <2>1 DEF SearchSound
  <2>2. CASE /\ new.step = "rechecking" /\ t.step = "rechecking"
             /\ f1 \in new.read /\ f1 \notin t.read => Search!Intact(f1)
    <3>1. SealSpeaks(searchDisk[f1], searchSeals[f1], searchModules[f1]) /\ f1 \in Search!Files
      BY <1>3 DEF CodexInv, Search!Files
    <3>2. Search!Intact(f1) /\ searchModules[f1] # "none" => searchModules[f1] = "pinned"
      BY <3>1 DEF SealSpeaks, Search!Intact
    <3>. QED
      BY <1>1, <2>2, <3>1, <3>2 DEF SearchSound
  <2>. QED
    BY <1>4, <2>1, <2>2
<1>6. searchClient' = [searchClient EXCEPT ![s] = owned]
  BY <1>1, <1>2
<1>. QED
  BY <1>2, <1>3, <1>4, <1>5, <1>6, CodexActs

(* The steps of a search around its client, whatever comes first.          *)
LEMMA CodexRuns ==
  ASSUME CodexInv, NEW s \in Routes,
         \/ Search!Run(s) \/ Search!AbortSearch(s) \/ Search!StartupLost(s)
         \/ Search!StartFails(s) \/ Search!Started(s) \/ Search!Rebinds(s) \/ Search!Return(s)
  PROVE  CodexInv'
<1>1. PICK t \in CodexSearchState, owned \in ClientState :
        /\ t = searchSearch[s] /\ owned = searchClient[s]
        /\ SearchSound(t, owned, searchModules)
        /\ searchClient = [searchClient EXCEPT ![s] = owned]
  BY CodexHolds
<1>2. /\ searchDisk' = searchDisk /\ searchSeals' = searchSeals
      /\ searchInspected' = searchInspected /\ searchModules' = searchModules
  BY DEF Search!Run, Search!AbortSearch, Search!StartupLost, Search!StartFails, Search!Started,
         Search!Rebinds, Search!Return
<1>3. Search!Attested
  <2>1. owned = "starting" => t.step # "idle"
    BY <1>1 DEF SearchSound
  <2>. QED
    BY <1>1, <2>1, CodexHolds DEF Search!Run, Search!AbortSearch, Search!StartupLost,
       Search!StartFails, Search!Started, Search!Rebinds, Search!Return
<1>4. f1 \in Search!Files /\ t.aborted \in BOOLEAN /\ t.intact \in BOOLEAN
  BY DEF Search!Files, CodexSearchState
<1>5. PICK new \in CodexSearchState, client \in ClientState :
        /\ searchSearch' = [searchSearch EXCEPT ![s] = new]
        /\ searchClient' = [searchClient EXCEPT ![s] = client]
        /\ SearchSound(new, client, searchModules)
  <2>1. CASE Search!Run(s)
    <3>1. PICK step \in {"failed", "starting"} :
            step = IF t.aborted THEN "failed" ELSE "starting"
      OBVIOUS
    <3>2. PICK client \in ClientState : client = IF t.aborted THEN owned ELSE "starting"
      BY DEF ClientState
    <3>. DEFINE new == [t EXCEPT !.step = step]
    <3>3. new \in CodexSearchState /\ new.step = step /\ new.aborted = t.aborted
      BY DEF CodexSearchState
    <3>4. /\ searchSearch' = [searchSearch EXCEPT ![s] = new]
          /\ searchClient' = [searchClient EXCEPT ![s] = client]
          /\ t.step = "rechecking" /\ t.read = Search!Files
      BY <1>1, <2>1, <3>1, <3>2 DEF Search!Run
    <3>. HIDE DEF new
    <3>5. SearchSound(new, client, searchModules)
      BY <1>1, <1>4, <3>1, <3>2, <3>3, <3>4 DEF SearchSound
    <3>. QED
      BY <3>3, <3>4, <3>5
  <2>2. CASE Search!AbortSearch(s)
    <3>1. PICK client \in ClientState : client = IF owned = "open" THEN "closed" ELSE owned
      BY DEF ClientState
    <3>. DEFINE new == [t EXCEPT !.aborted = TRUE]
    <3>2. /\ new \in CodexSearchState /\ new.step = t.step /\ new.aborted = TRUE
          /\ new.read = t.read /\ new.intact = t.intact
      BY DEF CodexSearchState
    <3>3. /\ searchSearch' = [searchSearch EXCEPT ![s] = new]
          /\ searchClient' = [searchClient EXCEPT ![s] = client]
          /\ t.step \notin {"idle", "done", "failed"}
      BY <1>1, <2>2, <3>1 DEF Search!AbortSearch
    <3>. HIDE DEF new
    <3>4. SearchSound(new, client, searchModules)
      BY <1>1, <3>1, <3>2, <3>3 DEF SearchSound
    <3>. QED
      BY <3>2, <3>3, <3>4
  <2>3. CASE Search!StartupLost(s)
    <3>1. PICK client \in ClientState : client = IF owned = "open" THEN "closed" ELSE owned
      BY DEF ClientState
    <3>. DEFINE new == [t EXCEPT !.step = "failed"]
    <3>2. new \in CodexSearchState /\ new.step = "failed" /\ new.aborted = t.aborted
      BY DEF CodexSearchState
    <3>3. /\ searchSearch' = [searchSearch EXCEPT ![s] = new]
          /\ searchClient' = [searchClient EXCEPT ![s] = client]
          /\ t.step = "starting" /\ t.aborted = TRUE
      BY <1>1, <1>4, <2>3, <3>1 DEF Search!StartupLost
    <3>. HIDE DEF new
    <3>4. SearchSound(new, client, searchModules)
      BY <1>1, <3>1, <3>2, <3>3 DEF SearchSound
    <3>. QED
      BY <3>2, <3>3, <3>4
  <2>4. CASE Search!Started(s)
    <3>1. PICK client \in ClientState :
            client = IF t.aborted \/ ~t.intact THEN "closed" ELSE "open"
      BY DEF ClientState
    <3>2. PICK step \in {"idle", "checking", "rechecking", "starting", "running", "done", "failed"} :
            step = IF t.step # "starting" \/ t.aborted THEN t.step
                   ELSE IF t.intact THEN "running" ELSE "failed"
      BY DEF CodexSearchState
    <3>. DEFINE new == [t EXCEPT !.step = step]
    <3>3. /\ new \in CodexSearchState /\ new.step = step /\ new.aborted = t.aborted
          /\ new.read = t.read /\ new.intact = t.intact
      BY DEF CodexSearchState
    <3>4. /\ searchSearch' = [searchSearch EXCEPT ![s] = new]
          /\ searchClient' = [searchClient EXCEPT ![s] = client]
          /\ owned = "starting"
      BY <1>1, <2>4, <3>1, <3>2 DEF Search!Started
    <3>. HIDE DEF new
    <3>5. SearchSound(new, client, searchModules)
      BY <1>1, <1>4, <3>1, <3>2, <3>3, <3>4 DEF SearchSound
    <3>. QED
      BY <3>3, <3>4, <3>5
  <2>5. CASE Search!Rebinds(s)
    <3>. DEFINE new == [t EXCEPT !.intact = FALSE]
    <3>1. /\ new \in CodexSearchState /\ new.step = t.step /\ new.aborted = t.aborted
      BY DEF CodexSearchState
    <3>2. /\ searchSearch' = [searchSearch EXCEPT ![s] = new]
          /\ searchClient' = [searchClient EXCEPT ![s] = owned]
          /\ t.step \in {"starting", "running"}
      BY <1>1, <2>5 DEF Search!Rebinds
    <3>. HIDE DEF new
    <3>3. SearchSound(new, owned, searchModules)
      BY <1>1, <3>1, <3>2 DEF SearchSound
    <3>. QED
      BY <3>1, <3>2, <3>3
  <2>6. CASE Search!Return(s)
    <3>1. PICK result \in {"done", "failed"} :
            searchSearch' = [searchSearch EXCEPT
              ![s].step = IF searchSearch[s].intact THEN result ELSE "failed"]
      BY <2>6 DEF Search!Return
    <3>2. PICK step \in {"done", "failed"} : step = IF t.intact THEN result ELSE "failed"
      OBVIOUS
    <3>. DEFINE new == [t EXCEPT !.step = step]
    <3>3. new \in CodexSearchState /\ new.step = step /\ new.intact = t.intact
      BY DEF CodexSearchState
    <3>4. /\ searchSearch' = [searchSearch EXCEPT ![s] = new]
          /\ searchClient' = [searchClient EXCEPT ![s] = "closed"]
          /\ t.step = "running" /\ "closed" \in ClientState
      BY <1>1, <2>6, <3>1, <3>2 DEF Search!Return, ClientState
    <3>. HIDE DEF new
    <3>5. SearchSound(new, "closed", searchModules)
      BY <1>1, <1>4, <3>2, <3>3, <3>4 DEF SearchSound
    <3>. QED
      BY <3>3, <3>4, <3>5
  <2>7. CASE Search!StartFails(s)
    <3>. DEFINE new == [t EXCEPT !.step = "failed"]
    <3>1. new \in CodexSearchState /\ new.step = "failed" /\ "closed" \in ClientState
      BY DEF CodexSearchState, ClientState
    <3>2. /\ searchSearch' = [searchSearch EXCEPT ![s] = new]
          /\ searchClient' = [searchClient EXCEPT ![s] = "closed"]
      BY <1>1, <2>7 DEF Search!StartFails
    <3>. HIDE DEF new
    <3>3. SearchSound(new, "closed", searchModules)
      BY <3>1 DEF SearchSound
    <3>. QED
      BY <3>1, <3>2, <3>3
  <2>. QED
    BY <2>1, <2>2, <2>3, <2>4, <2>5, <2>6, <2>7
<1>. QED
  BY <1>2, <1>3, <1>5, CodexActs

(* The search's invariant: where it begins, at each of its steps, and      *)
(* while it rests.                                                         *)
LEMMA CodexRests ==
  ASSUME CodexInv,
         UNCHANGED <<searchDisk, searchInspected, searchSeals, searchModules, searchSearch,
                     searchClient>>
  PROVE  CodexInv'
<1>1. /\ searchDisk' = searchDisk /\ searchInspected' = searchInspected
      /\ searchSeals' = searchSeals /\ searchModules' = searchModules
      /\ searchSearch' = searchSearch /\ searchClient' = searchClient
  OBVIOUS
<1>. QED
  BY <1>1 DEF CodexInv, CodexTyped, Search!Attested

LEMMA CodexBegins == Search!Init => CodexInv
<1>. SUFFICES ASSUME Search!Init PROVE CodexInv
  OBVIOUS
<1>. DEFINE first == [step |-> "idle", read |-> {}, aborted |-> FALSE, intact |-> TRUE]
<1>1. first \in CodexSearchState /\ first.step = "idle"
  BY DEF CodexSearchState
<1>2. searchSearch = [s \in Routes |-> first]
  BY DEF Search!Init
<1>. HIDE DEF first
<1>3. Len(Search!Inspection) = 7 /\ searchInspected = 0
  BY DEF Search!Inspection, Search!Init
<1>4. ~Search!Attested
  BY <1>3 DEF Search!Attested
<1>5. CodexTyped
  <2>1. searchDisk \in [Search!Files -> [bytes : Bytes, changed : Nat]]
    BY DEF Search!Init, Bytes
  <2>2. searchSeals \in [{f1} -> Nat] /\ searchModules \in [Search!Files -> Bytes \cup {"none"}]
    BY DEF Search!Init
  <2>3. searchSearch \in [Routes -> CodexSearchState] /\ searchClient \in [Routes -> ClientState]
    BY <1>1, <1>2 DEF Search!Init, ClientState
  <2>. QED
    BY <1>3, <2>1, <2>2, <2>3 DEF CodexTyped
<1>6. \A s \in Routes : searchSearch[s] = first /\ searchClient[s] = "none"
  BY <1>2 DEF Search!Init
<1>7. \A s \in Routes : SearchSound(searchSearch[s], searchClient[s], searchModules)
  BY <1>1, <1>6 DEF SearchSound
<1>8. \A f \in Search!Files : searchModules[f] = "none"
  BY DEF Search!Init
<1>. QED
  BY <1>1, <1>4, <1>5, <1>6, <1>7, <1>8 DEF CodexInv

LEMMA CodexSteps == CodexInv /\ Search!Next => CodexInv'
<1>. SUFFICES ASSUME CodexInv, Search!Next PROVE CodexInv'
  OBVIOUS
<1>. QED
  BY CodexInspects, CodexAttests, CodexRewrites, CodexLoads, CodexChecks, CodexRuns
  DEF Search!Next

-----------------------------------------------------------------------------
(* The model adapters.                                                     *)

Turn == [key : [part : Nat, corrected : BOOLEAN], fenced : BOOLEAN]
AttemptState ==
  [step : {"new", "awaiting", "progress", "start", "turn", "waiting", "done", "failed", "over"},
   kind : {"single", "answer", "portia", "local"}, drafts : Nat, corrected : BOOLEAN]
PartOf(t) == IF t.kind = "portia" THEN t.drafts + 1 ELSE 0

AdapterTyped ==
  /\ adapterServiceState \in {"none", "creating", "closing", "ready"}
  /\ adapterCreations = IF adapterServiceState = "none" THEN 0 ELSE 1
  /\ adapterAttempt \in [Routes -> AttemptState]
  /\ adapterLease \in [Routes -> {"none", "held", "lost"}]
  /\ adapterSaved \in Nat
  /\ adapterAsked \in [Routes -> Seq(Turn)]

(* A key follows another: a later part, or the correction of the same one. *)
Follows(p, q) == p # q /\ p.part <= q.part /\ (p.part = q.part => q.corrected = TRUE)

(* The turns of an attempt have keys that follow each other, and before a  *)
(* turn the next key follows them all; when a turn went out unfenced, the  *)
(* lease is gone, and no turn follows.                                     *)
TurnsSound(t, lease, turns) ==
  /\ \A i, j \in DOMAIN turns : i < j => Follows(turns[i].key, turns[j].key)
  /\ t.step \in {"new", "awaiting"} => turns = <<>> /\ lease # "held"
  /\ t.step \in {"progress", "start", "turn"} =>
       \A i \in DOMAIN turns :
         Follows(turns[i].key, [part |-> PartOf(t), corrected |-> t.corrected])
  /\ t.step = "waiting" =>
       \A i \in DOMAIN turns :
         /\ turns[i].key.part <= PartOf(t)
         /\ turns[i].key.part = PartOf(t) /\ t.corrected = FALSE => turns[i].key.corrected = FALSE
  /\ \A i \in DOMAIN turns : turns[i].fenced = FALSE =>
       /\ i = Len(turns)
       /\ t.step # "turn" /\ lease # "held" /\ t.kind # "local"

AdapterInv ==
  /\ AdapterTyped
  /\ \A a \in Routes : TurnsSound(adapterAttempt[a], adapterLease[a], adapterAsked[a])
  /\ \A a, b \in Routes : adapterLease[a] = "held" /\ adapterLease[b] = "held" => a = b
  /\ \A a \in Routes : adapterLease[a] = "held" /\ adapterAttempt[a].kind = "portia" =>
       adapterSaved <= adapterAttempt[a].drafts

LEMMA AttemptHolds ==
  ASSUME AdapterInv, NEW a \in Routes
  PROVE  /\ adapterAttempt[a] \in AttemptState /\ adapterLease[a] \in {"none", "held", "lost"}
         /\ adapterAsked[a] \in Seq(Turn)
         /\ TurnsSound(adapterAttempt[a], adapterLease[a], adapterAsked[a])
         /\ adapterLease = [adapterLease EXCEPT ![a] = adapterLease[a]]
         /\ adapterAsked = [adapterAsked EXCEPT ![a] = adapterAsked[a]]
         /\ adapterAttempt = [adapterAttempt EXCEPT ![a] = adapterAttempt[a]]
BY DEF AdapterInv, AdapterTyped

(* One attempt acts; what is stored changes only by the one with the lease.*)
LEMMA AttemptActs ==
  ASSUME AdapterInv, NEW a \in Routes, NEW t \in AttemptState,
         NEW lease \in {"none", "held", "lost"}, NEW turns \in Seq(Turn), NEW saved \in Nat,
         adapterAttempt' = [adapterAttempt EXCEPT ![a] = t],
         adapterLease' = [adapterLease EXCEPT ![a] = lease],
         adapterAsked' = [adapterAsked EXCEPT ![a] = turns],
         adapterSaved' = saved,
         adapterServiceState' \in {"none", "creating", "closing", "ready"},
         adapterCreations' = IF adapterServiceState' = "none" THEN 0 ELSE 1,
         TurnsSound(t, lease, turns),
         lease = "held" =>
           /\ adapterLease[a] = "held" \/ \A b \in Routes : adapterLease[b] # "held"
           /\ t.kind = "portia" => saved <= t.drafts,
         saved # adapterSaved => adapterLease[a] = "held" /\ lease = "held"
  PROVE  AdapterInv'
<1>1. AdapterTyped'
  BY DEF AdapterInv, AdapterTyped
<1>2. /\ adapterAttempt'[a] = t /\ adapterLease'[a] = lease /\ adapterAsked'[a] = turns
      /\ \A b \in Routes \ {a} :
           /\ adapterAttempt'[b] = adapterAttempt[b] /\ adapterLease'[b] = adapterLease[b]
           /\ adapterAsked'[b] = adapterAsked[b]
  BY DEF AdapterInv, AdapterTyped
<1>3. \A b \in Routes : TurnsSound(adapterAttempt'[b], adapterLease'[b], adapterAsked'[b])
  BY <1>2 DEF AdapterInv
<1>4. \A b, c \in Routes : adapterLease'[b] = "held" /\ adapterLease'[c] = "held" => b = c
  BY <1>2 DEF AdapterInv
<1>5. \A b \in Routes : adapterLease'[b] = "held" /\ adapterAttempt'[b].kind = "portia" =>
        saved <= adapterAttempt'[b].drafts
  BY <1>2, <1>4 DEF AdapterInv
<1>. QED
  BY <1>1, <1>3, <1>4, <1>5 DEF AdapterInv

(* An attempt that asks for no turn: the rest of it changes.               *)
LEMMA AttemptGoes ==
  ASSUME AdapterInv, NEW a \in Routes, NEW t \in AttemptState,
         NEW lease \in {"none", "held", "lost"},
         adapterAttempt' = [adapterAttempt EXCEPT ![a] = t],
         adapterLease' = [adapterLease EXCEPT ![a] = lease],
         UNCHANGED <<adapterAsked, adapterSaved, adapterServiceState, adapterCreations>>,
         TurnsSound(t, lease, adapterAsked[a]),
         lease = "held" =>
           /\ adapterLease[a] = "held" \/ \A b \in Routes : adapterLease[b] # "held"
           /\ t.kind = "portia" => adapterSaved <= t.drafts
  PROVE  AdapterInv'
<1>1. PICK turns \in Seq(Turn) : turns = adapterAsked[a]
  BY AttemptHolds
<1>2. PICK saved \in Nat : saved = adapterSaved
  BY DEF AdapterInv, AdapterTyped
<1>3. adapterAsked' = [adapterAsked EXCEPT ![a] = turns] /\ adapterSaved' = saved
  BY <1>1, <1>2, AttemptHolds
<1>4. /\ adapterServiceState' \in {"none", "creating", "closing", "ready"}
      /\ adapterCreations' = IF adapterServiceState' = "none" THEN 0 ELSE 1
  BY DEF AdapterInv, AdapterTyped
<1>5. TurnsSound(t, lease, turns)
  BY <1>1
<1>6. /\ saved # adapterSaved => adapterLease[a] = "held" /\ lease = "held"
      /\ lease = "held" =>
           /\ adapterLease[a] = "held" \/ \A b \in Routes : adapterLease[b] # "held"
           /\ t.kind = "portia" => saved <= t.drafts
  BY <1>2
<1>. QED
  BY <1>2, <1>3, <1>4, <1>5, <1>6, AttemptActs

(* What an attempt holds after it takes another step.                      *)
LEMMA AttemptBecomes ==
  ASSUME AdapterInv, NEW a \in Routes, NEW t, t = adapterAttempt[a],
         NEW step \in {"turn", "waiting", "done", "failed", "over"}, Adapters!Becomes(a, step)
  PROVE  \E new \in AttemptState :
           /\ adapterAttempt' = [adapterAttempt EXCEPT ![a] = new]
           /\ new.step = step /\ new.kind = t.kind /\ new.drafts = t.drafts
           /\ new.corrected = t.corrected
<1>1. t \in AttemptState
  BY AttemptHolds
<1>. DEFINE new == [t EXCEPT !.step = step]
<1>2. /\ new \in AttemptState /\ new.step = step /\ new.kind = t.kind /\ new.drafts = t.drafts
      /\ new.corrected = t.corrected
  BY <1>1 DEF AttemptState
<1>3. adapterAttempt' = [adapterAttempt EXCEPT ![a] = new]
  BY DEF Adapters!Becomes
<1>. HIDE DEF new
<1>. QED
  BY <1>2, <1>3

LEMMA FreshIsSound ==
  /\ Adapters!Fresh \in AttemptState
  /\ Adapters!Fresh.step = "new" /\ Adapters!Fresh.kind = "single"
  /\ \A lease \in {"none", "lost"} : TurnsSound(Adapters!Fresh, lease, <<>>)
<1>1. /\ Adapters!Fresh \in AttemptState
      /\ Adapters!Fresh.step = "new" /\ Adapters!Fresh.kind = "single"
  BY DEF Adapters!Fresh, AttemptState
<1>2. DOMAIN <<>> = {}
  OBVIOUS
<1>. QED
  BY <1>1, <1>2 DEF TurnsSound

(* The shared services: asked for once, and rejected for all who wait.     *)
LEMMA AsksStep ==
  ASSUME AdapterInv, NEW a \in Routes, NEW kind \in {"answer", "portia"},
         Adapters!AsksForServices(a, kind)
  PROVE  AdapterInv'
<1>1. PICK t \in AttemptState, lease \in {"none", "held", "lost"}, turns \in Seq(Turn) :
        /\ t = adapterAttempt[a] /\ lease = adapterLease[a] /\ turns = adapterAsked[a]
        /\ TurnsSound(t, lease, turns) /\ t.step = "new"
        /\ adapterLease = [adapterLease EXCEPT ![a] = lease]
        /\ adapterAsked = [adapterAsked EXCEPT ![a] = turns]
  BY AttemptHolds DEF Adapters!AsksForServices
<1>2. PICK saved \in Nat : saved = adapterSaved
  BY DEF AdapterInv, AdapterTyped
<1>. DEFINE new == [t EXCEPT !.step = "awaiting", !.kind = kind]
<1>3. new \in AttemptState /\ new.step = "awaiting"
  BY DEF AttemptState
<1>4. adapterAttempt' = [adapterAttempt EXCEPT ![a] = new]
  BY <1>1 DEF Adapters!AsksForServices
<1>. HIDE DEF new
<1>5. /\ adapterLease' = [adapterLease EXCEPT ![a] = lease]
      /\ adapterAsked' = [adapterAsked EXCEPT ![a] = turns]
      /\ adapterSaved' = saved
  BY <1>1, <1>2 DEF Adapters!AsksForServices
<1>6. /\ adapterServiceState' \in {"none", "creating", "closing", "ready"}
      /\ adapterCreations' = IF adapterServiceState' = "none" THEN 0 ELSE 1
  BY DEF Adapters!AsksForServices, AdapterInv, AdapterTyped
<1>7. turns = <<>> /\ lease # "held"
  BY <1>1 DEF TurnsSound
<1>8. DOMAIN turns = {}
  BY <1>7
<1>9. TurnsSound(new, lease, turns)
  BY <1>3, <1>7, <1>8 DEF TurnsSound
<1>10. /\ lease = "held" =>
            /\ adapterLease[a] = "held" \/ \A b \in Routes : adapterLease[b] # "held"
            /\ new.kind = "portia" => saved <= new.drafts
       /\ saved # adapterSaved => adapterLease[a] = "held" /\ lease = "held"
  BY <1>2, <1>7
<1>. QED
  BY <1>3, <1>4, <1>5, <1>6, <1>9, <1>10, AttemptActs

LEMMA ServiceMoves ==
  ASSUME AdapterInv,
         UNCHANGED <<adapterAttempt, adapterLease, adapterAsked, adapterSaved>>,
         adapterServiceState' \in {"none", "creating", "closing", "ready"},
         adapterCreations' = IF adapterServiceState' = "none" THEN 0 ELSE 1
  PROVE  AdapterInv'
<1>1. /\ adapterAttempt' = adapterAttempt /\ adapterLease' = adapterLease
      /\ adapterAsked' = adapterAsked /\ adapterSaved' = adapterSaved
  OBVIOUS
<1>2. AdapterTyped'
  BY <1>1 DEF AdapterInv, AdapterTyped
<1>. QED
  BY <1>1, <1>2 DEF AdapterInv

LEMMA RejectedStep ==
  ASSUME AdapterInv, Adapters!ServicesRejected
  PROVE  AdapterInv'
<1>1. /\ adapterLease' = adapterLease /\ adapterAsked' = adapterAsked
      /\ adapterSaved' = adapterSaved /\ adapterServiceState' = "none"
      /\ adapterCreations' = 0
      /\ adapterAttempt' = [a \in Routes |-> IF adapterAttempt[a].step = "awaiting"
                                             THEN Adapters!Fresh ELSE adapterAttempt[a]]
  BY DEF Adapters!ServicesRejected, AdapterInv, AdapterTyped
<1>2. AdapterTyped'
  BY <1>1, FreshIsSound DEF AdapterInv, AdapterTyped
<1>3. ASSUME NEW a \in Routes
      PROVE  /\ TurnsSound(adapterAttempt'[a], adapterLease[a], adapterAsked[a])
             /\ adapterLease[a] = "held" => adapterAttempt'[a] = adapterAttempt[a]
  <2>1. /\ TurnsSound(adapterAttempt[a], adapterLease[a], adapterAsked[a])
        /\ adapterLease[a] \in {"none", "held", "lost"}
    BY AttemptHolds
  <2>2. CASE adapterAttempt[a].step = "awaiting"
    <3>1. adapterAsked[a] = <<>> /\ adapterLease[a] \in {"none", "lost"}
      BY <2>1, <2>2 DEF TurnsSound
    <3>2. adapterAttempt'[a] = Adapters!Fresh
      BY <1>1, <2>2
    <3>. QED
      BY <3>1, <3>2, FreshIsSound
  <2>3. CASE adapterAttempt[a].step # "awaiting"
    <3>1. adapterAttempt'[a] = adapterAttempt[a]
      BY <1>1, <2>3
    <3>. QED
      BY <2>1, <3>1
  <2>. QED
    BY <2>2, <2>3
<1>4. (\A a \in Routes : TurnsSound(adapterAttempt[a], adapterLease[a], adapterAsked[a]))'
  BY <1>1, <1>3
<1>5. (\A a, b \in Routes : adapterLease[a] = "held" /\ adapterLease[b] = "held" => a = b)'
  BY <1>1 DEF AdapterInv
<1>6. (\A a \in Routes : adapterLease[a] = "held" /\ adapterAttempt[a].kind = "portia" =>
         adapterSaved <= adapterAttempt[a].drafts)'
  BY <1>1, <1>3 DEF AdapterInv
<1>. QED
  BY <1>2, <1>4, <1>5, <1>6 DEF AdapterInv

(* An attempt begins, holding the one lease, or is turned away.            *)
LEMMA BeginsStep ==
  ASSUME AdapterInv, NEW a \in Routes, Adapters!Begins(a) \/ Adapters!BeginsLocal(a)
  PROVE  AdapterInv'
<1>1. PICK t \in AttemptState :
        /\ t = adapterAttempt[a] /\ TurnsSound(t, adapterLease[a], adapterAsked[a])
        /\ t.step \in {"new", "awaiting"}
  BY AttemptHolds DEF Adapters!Begins, Adapters!BeginsLocal
<1>2. adapterAsked[a] = <<>> /\ adapterLease[a] # "held" /\ DOMAIN adapterAsked[a] = {}
  BY <1>1 DEF TurnsSound
<1>3. adapterSaved \in Nat
  BY DEF AdapterInv, AdapterTyped
<1>4. PICK new \in AttemptState, lease \in {"none", "held", "lost"} :
        /\ adapterAttempt' = [adapterAttempt EXCEPT ![a] = new]
        /\ adapterLease' = [adapterLease EXCEPT ![a] = lease]
        /\ new.step \in {"new", "progress", "start"}
        /\ new.step = "new" => lease # "held"
        /\ lease = "held" => /\ \A b \in Routes : adapterLease[b] # "held"
                             /\ new.kind = "portia" => new.drafts = adapterSaved
  <2>1. CASE Adapters!Begins(a) /\ adapterHealthy /\ ~\E b \in Routes : Adapters!Holds(b)
    <3>1. PICK drafts \in Nat : drafts = IF t.kind = "portia" THEN adapterSaved ELSE 0
      BY <1>3
    <3>2. PICK step \in {"progress", "start"} :
            step = IF t.kind = "portia" THEN "progress" ELSE "start"
      OBVIOUS
    <3>. DEFINE new == [t EXCEPT !.step = step, !.drafts = drafts]
    <3>3. new \in AttemptState /\ new.step = step /\ new.drafts = drafts /\ new.kind = t.kind
      BY DEF AttemptState
    <3>4. /\ adapterAttempt' = [adapterAttempt EXCEPT ![a] = new]
          /\ adapterLease' = [adapterLease EXCEPT ![a] = "held"]
      BY <1>1, <2>1, <3>1, <3>2 DEF Adapters!Begins
    <3>. HIDE DEF new
    <3>5. \A b \in Routes : adapterLease[b] # "held"
      BY <2>1 DEF Adapters!Holds
    <3>. QED
      BY <3>1, <3>3, <3>4, <3>5
  <2>2. CASE Adapters!Begins(a) /\ ~(adapterHealthy /\ ~\E b \in Routes : Adapters!Holds(b))
    <3>1. /\ adapterAttempt' = [adapterAttempt EXCEPT ![a] = Adapters!Fresh]
          /\ adapterLease' = adapterLease
      BY <2>2 DEF Adapters!Begins
    <3>2. PICK lease \in {"none", "held", "lost"} :
            lease # "held" /\ adapterLease' = [adapterLease EXCEPT ![a] = lease]
      BY <1>2, <3>1, AttemptHolds
    <3>. QED
      BY <3>1, <3>2, FreshIsSound
  <2>3. CASE Adapters!BeginsLocal(a)
    <3>. DEFINE new == [t EXCEPT !.step = "start", !.kind = "local"]
    <3>1. new \in AttemptState /\ new.step = "start"
      BY DEF AttemptState
    <3>2. adapterAttempt' = [adapterAttempt EXCEPT ![a] = new] /\ adapterLease' = adapterLease
      BY <1>1, <2>3 DEF Adapters!BeginsLocal
    <3>. HIDE DEF new
    <3>3. PICK lease \in {"none", "held", "lost"} :
            lease # "held" /\ adapterLease' = [adapterLease EXCEPT ![a] = lease]
      BY <1>2, <3>2, AttemptHolds
    <3>. QED
      BY <3>1, <3>2, <3>3
  <2>. QED
    BY <2>1, <2>2, <2>3
<1>5. TurnsSound(new, lease, adapterAsked[a])
  BY <1>2, <1>4 DEF TurnsSound
<1>6. /\ UNCHANGED <<adapterAsked, adapterSaved, adapterServiceState, adapterCreations>>
      /\ lease = "held" =>
           /\ adapterLease[a] = "held" \/ \A b \in Routes : adapterLease[b] # "held"
           /\ new.kind = "portia" => adapterSaved <= new.drafts
  BY <1>3, <1>4 DEF Adapters!Begins, Adapters!BeginsLocal
<1>. QED
  BY <1>4, <1>5, <1>6, AttemptGoes

(* An attempt that goes on with the lease it has.                          *)
LEMMA AttemptKeeps ==
  ASSUME AdapterInv, NEW a \in Routes, NEW t \in AttemptState,
         adapterAttempt' = [adapterAttempt EXCEPT ![a] = t],
         t.kind = adapterAttempt[a].kind, t.drafts >= adapterAttempt[a].drafts,
         TurnsSound(t, adapterLease[a], adapterAsked[a]),
         UNCHANGED <<adapterLease, adapterAsked, adapterSaved, adapterServiceState,
                     adapterCreations>>
  PROVE  AdapterInv'
<1>1. PICK lease \in {"none", "held", "lost"} : lease = adapterLease[a]
  BY AttemptHolds
<1>2. adapterLease' = [adapterLease EXCEPT ![a] = lease]
  BY <1>1, AttemptHolds
<1>3. UNCHANGED <<adapterAsked, adapterSaved, adapterServiceState, adapterCreations>>
  OBVIOUS
<1>4. adapterAttempt[a] \in AttemptState /\ adapterSaved \in Nat
  BY AttemptHolds DEF AdapterInv, AdapterTyped
<1>5. t.drafts \in Nat /\ adapterAttempt[a].drafts \in Nat
  BY <1>4 DEF AttemptState
<1>6. lease = "held" =>
        /\ adapterLease[a] = "held" \/ \A b \in Routes : adapterLease[b] # "held"
        /\ t.kind = "portia" => adapterSaved <= t.drafts
  <2>1. adapterLease[a] = "held" /\ adapterAttempt[a].kind = "portia" =>
          adapterSaved <= adapterAttempt[a].drafts
    BY DEF AdapterInv
  <2>. QED
    BY <1>1, <1>4, <1>5, <2>1
<1>7. TurnsSound(t, lease, adapterAsked[a])
  BY <1>1
<1>. QED
  BY <1>2, <1>3, <1>6, <1>7, AttemptGoes

(* The fence is renewed before a turn, and Portia's progress stored.       *)
LEMMA StartsTurnStep ==
  ASSUME AdapterInv, NEW a \in Routes, Adapters!StartsTurn(a)
  PROVE  AdapterInv'
<1>1. PICK t \in AttemptState :
        /\ t = adapterAttempt[a] /\ TurnsSound(t, adapterLease[a], adapterAsked[a])
        /\ t.step = "start"
  BY AttemptHolds DEF Adapters!StartsTurn
<1>2. PICK step \in {"turn", "failed"} :
        /\ Adapters!Becomes(a, step)
        /\ step = "turn" => adapterLease[a] = "held" \/ t.kind = "local"
  BY <1>1 DEF Adapters!StartsTurn, Adapters!Fenced, Adapters!Holds
<1>3. PICK new \in AttemptState :
        /\ adapterAttempt' = [adapterAttempt EXCEPT ![a] = new]
        /\ new.step = step /\ new.kind = t.kind /\ new.drafts = t.drafts
        /\ new.corrected = t.corrected
  BY <1>1, <1>2, AttemptBecomes
<1>4. TurnsSound(new, adapterLease[a], adapterAsked[a])
  BY <1>1, <1>2, <1>3 DEF TurnsSound, PartOf
<1>5. /\ UNCHANGED <<adapterLease, adapterAsked, adapterSaved, adapterServiceState,
                     adapterCreations>>
      /\ new.kind = adapterAttempt[a].kind
  BY <1>1, <1>3 DEF Adapters!StartsTurn
<1>6. new.drafts >= adapterAttempt[a].drafts
  BY <1>1, <1>3 DEF AttemptState
<1>. QED
  BY <1>3, <1>4, <1>5, <1>6, AttemptKeeps

LEMMA ProgressesStep ==
  ASSUME AdapterInv, NEW a \in Routes, Adapters!Progresses(a)
  PROVE  AdapterInv'
<1>1. PICK t \in AttemptState, lease \in {"none", "held", "lost"}, turns \in Seq(Turn) :
        /\ t = adapterAttempt[a] /\ lease = adapterLease[a] /\ turns = adapterAsked[a]
        /\ TurnsSound(t, lease, turns) /\ t.step = "progress"
        /\ adapterLease = [adapterLease EXCEPT ![a] = lease]
        /\ adapterAsked = [adapterAsked EXCEPT ![a] = turns]
  BY AttemptHolds DEF Adapters!Progresses
<1>2. adapterSaved \in Nat /\ t.drafts \in Nat
  BY DEF AdapterInv, AdapterTyped, AttemptState
<1>3. PICK step \in {"turn", "failed"}, saved \in Nat :
        /\ Adapters!Becomes(a, step) /\ adapterSaved' = saved
        /\ \/ lease = "held" /\ step = "turn" /\ saved = t.drafts
           \/ lease # "held" /\ step = "failed" /\ saved = adapterSaved
  BY <1>1, <1>2 DEF Adapters!Progresses, Adapters!Holds
<1>4. PICK new \in AttemptState :
        /\ adapterAttempt' = [adapterAttempt EXCEPT ![a] = new]
        /\ new.step = step /\ new.kind = t.kind /\ new.drafts = t.drafts
        /\ new.corrected = t.corrected
  BY <1>1, <1>3, AttemptBecomes
<1>5. TurnsSound(new, lease, turns)
  BY <1>1, <1>3, <1>4 DEF TurnsSound, PartOf
<1>6. /\ adapterLease' = [adapterLease EXCEPT ![a] = lease]
      /\ adapterAsked' = [adapterAsked EXCEPT ![a] = turns]
  BY <1>1 DEF Adapters!Progresses
<1>7. /\ adapterServiceState' \in {"none", "creating", "closing", "ready"}
      /\ adapterCreations' = IF adapterServiceState' = "none" THEN 0 ELSE 1
  BY DEF Adapters!Progresses, AdapterInv, AdapterTyped
<1>8. /\ lease = "held" =>
           /\ adapterLease[a] = "held" \/ \A b \in Routes : adapterLease[b] # "held"
           /\ new.kind = "portia" => saved <= new.drafts
      /\ saved # adapterSaved => adapterLease[a] = "held" /\ lease = "held"
  BY <1>1, <1>2, <1>3, <1>4
<1>. QED
  BY <1>3, <1>4, <1>5, <1>6, <1>7, <1>8, AttemptActs

(* A turn goes out under a key that follows the keys before it.            *)
LEMMA DispatchesStep ==
  ASSUME AdapterInv, NEW a \in Routes, Adapters!Dispatches(a)
  PROVE  AdapterInv'
<1>1. PICK t \in AttemptState, lease \in {"none", "held", "lost"}, turns \in Seq(Turn) :
        /\ t = adapterAttempt[a] /\ lease = adapterLease[a] /\ turns = adapterAsked[a]
        /\ TurnsSound(t, lease, turns) /\ t.step = "turn"
        /\ adapterLease = [adapterLease EXCEPT ![a] = lease]
        /\ adapterAsked = [adapterAsked EXCEPT ![a] = turns]
  BY AttemptHolds DEF Adapters!Dispatches
<1>2. PICK saved \in Nat : saved = adapterSaved
  BY DEF AdapterInv, AdapterTyped
<1>3. /\ PartOf(t) \in Nat /\ t.corrected \in BOOLEAN
      /\ Adapters!Part(a) = PartOf(t)
  BY <1>1 DEF AttemptState, PartOf, Adapters!Part
<1>4. PICK fenced \in BOOLEAN :
        /\ fenced = Adapters!Fenced(a)
        /\ fenced = FALSE => lease # "held" /\ t.kind # "local"
  BY <1>1 DEF Adapters!Fenced, Adapters!Holds
<1>. DEFINE key == [part |-> PartOf(t), corrected |-> t.corrected]
            item == [key |-> key, fenced |-> fenced]
<1>5. item \in Turn /\ item.key = key /\ item.fenced = fenced
  BY <1>3 DEF Turn
<1>6. key.part = PartOf(t) /\ key.corrected = t.corrected
  OBVIOUS
<1>7. adapterAsked' = [adapterAsked EXCEPT ![a] = Append(turns, item)]
  BY <1>1, <1>3, <1>4 DEF Adapters!Dispatches, Adapters!Key
<1>8. \A i \in DOMAIN turns : Follows(turns[i].key, key) /\ turns[i].fenced # FALSE
  BY <1>1 DEF TurnsSound
<1>9. \A i \in DOMAIN turns : turns[i].key.corrected \in BOOLEAN /\ turns[i].key.part \in Nat
  <2>1. \A i \in DOMAIN turns : turns[i] \in Turn
    OBVIOUS
  <2>. QED
    BY <2>1 DEF Turn
<1>. HIDE DEF key, item
<1>. DEFINE longer == Append(turns, item)
<1>10. /\ longer \in Seq(Turn) /\ Len(longer) = Len(turns) + 1 /\ Len(turns) \in Nat
       /\ DOMAIN turns = 1 .. Len(turns) /\ DOMAIN longer = 1 .. Len(turns) + 1
       /\ \A i \in DOMAIN turns : longer[i] = turns[i]
       /\ longer[Len(turns) + 1] = item
  BY <1>5
<1>. HIDE DEF longer
<1>11. PICK new \in AttemptState :
        /\ adapterAttempt' = [adapterAttempt EXCEPT ![a] = new]
        /\ new.step = "waiting" /\ new.kind = t.kind /\ new.drafts = t.drafts
        /\ new.corrected = t.corrected
  BY <1>1, AttemptBecomes DEF Adapters!Dispatches
<1>12. PartOf(new) = PartOf(t)
  BY <1>11 DEF PartOf
<1>13. \A i, j \in DOMAIN longer : i < j => Follows(longer[i].key, longer[j].key)
  <2>. SUFFICES ASSUME NEW i \in DOMAIN longer, NEW j \in DOMAIN longer, i < j
                PROVE  Follows(longer[i].key, longer[j].key)
    OBVIOUS
  <2>1. i \in DOMAIN turns /\ longer[i] = turns[i]
    BY <1>10
  <2>2. CASE j \in DOMAIN turns
    BY <1>1, <1>10, <2>1, <2>2 DEF TurnsSound
  <2>3. CASE j \notin DOMAIN turns
    <3>1. longer[j] = item
      BY <1>10, <2>3
    <3>. QED
      BY <1>5, <1>8, <2>1, <3>1
  <2>. QED
    BY <2>2, <2>3
<1>14. ASSUME NEW i \in DOMAIN longer
       PROVE  /\ longer[i].key.part <= PartOf(t)
              /\ longer[i].key.part = PartOf(t) /\ t.corrected = FALSE =>
                   longer[i].key.corrected = FALSE
              /\ longer[i].fenced = FALSE => /\ i = Len(longer)
                                             /\ lease # "held" /\ t.kind # "local"
  <2>1. CASE i \in DOMAIN turns
    BY <1>6, <1>8, <1>9, <1>10, <2>1 DEF Follows
  <2>2. CASE i \notin DOMAIN turns
    <3>1. longer[i] = item /\ i = Len(longer)
      BY <1>10, <2>2
    <3>. QED
      BY <1>3, <1>4, <1>5, <1>6, <3>1
  <2>. QED
    BY <2>1, <2>2
<1>15. TurnsSound(new, lease, longer)
  BY <1>11, <1>12, <1>13, <1>14 DEF TurnsSound
<1>16. /\ adapterLease' = [adapterLease EXCEPT ![a] = lease]
       /\ adapterAsked' = [adapterAsked EXCEPT ![a] = longer]
       /\ adapterSaved' = saved
  BY <1>1, <1>2, <1>7 DEF Adapters!Dispatches, longer
<1>17. /\ adapterServiceState' \in {"none", "creating", "closing", "ready"}
       /\ adapterCreations' = IF adapterServiceState' = "none" THEN 0 ELSE 1
  BY DEF Adapters!Dispatches, AdapterInv, AdapterTyped
<1>18. /\ lease = "held" =>
            /\ adapterLease[a] = "held" \/ \A b \in Routes : adapterLease[b] # "held"
            /\ new.kind = "portia" => saved <= new.drafts
       /\ saved # adapterSaved => adapterLease[a] = "held" /\ lease = "held"
  BY <1>1, <1>2, <1>11 DEF AdapterInv
<1>. QED
  BY <1>10, <1>11, <1>15, <1>16, <1>17, <1>18, AttemptActs

(* What came back: the next part, one correction, or the end.              *)
LEMMA HearsStep ==
  ASSUME AdapterInv, NEW a \in Routes,
         Adapters!Accepts(a) \/ Adapters!Corrects(a) \/ Adapters!GivesUp(a)
  PROVE  AdapterInv'
<1>1. PICK t \in AttemptState :
        /\ t = adapterAttempt[a] /\ TurnsSound(t, adapterLease[a], adapterAsked[a])
        /\ t.step = "waiting"
  BY AttemptHolds DEF Adapters!Accepts, Adapters!Corrects, Adapters!GivesUp, Adapters!Hears
<1>2. UNCHANGED <<adapterLease, adapterAsked, adapterSaved, adapterServiceState,
                  adapterCreations>>
  BY DEF Adapters!Accepts, Adapters!Corrects, Adapters!GivesUp
<1>3. t.drafts \in Nat /\ t.corrected \in BOOLEAN
  BY DEF AttemptState
<1>4. \A i \in DOMAIN adapterAsked[a] :
        /\ adapterAsked[a][i].key.part \in Nat
        /\ adapterAsked[a][i].key.corrected \in BOOLEAN
  <2>1. \A i \in DOMAIN adapterAsked[a] : adapterAsked[a][i] \in Turn
    BY AttemptHolds
  <2>. QED
    BY <2>1 DEF Turn
<1>5. CASE \E step \in {"done", "failed"} : Adapters!Becomes(a, step)
  <2>1. PICK step \in {"done", "failed"} : Adapters!Becomes(a, step)
    BY <1>5
  <2>2. PICK new \in AttemptState :
          /\ adapterAttempt' = [adapterAttempt EXCEPT ![a] = new]
          /\ new.step = step /\ new.kind = t.kind /\ new.drafts = t.drafts
          /\ new.corrected = t.corrected
    BY <1>1, <2>1, AttemptBecomes
  <2>3. TurnsSound(new, adapterLease[a], adapterAsked[a])
    BY <1>1, <2>2 DEF TurnsSound
  <2>4. new.kind = adapterAttempt[a].kind /\ new.drafts >= adapterAttempt[a].drafts
    BY <1>1, <1>3, <2>2
  <2>. QED
    BY <1>2, <2>2, <2>3, <2>4, AttemptKeeps
<1>6. CASE /\ Adapters!Accepts(a)
           /\ adapterAttempt[a].kind = "portia" /\ Adapters!Part(a) # Adapters!Summary
  <2>1. PICK drafts \in Nat : drafts = t.drafts + 1
    BY <1>3
  <2>. DEFINE new == [t EXCEPT !.step = "progress", !.corrected = FALSE, !.drafts = drafts]
  <2>2. /\ new \in AttemptState /\ new.step = "progress" /\ new.corrected = FALSE
        /\ new.drafts = drafts /\ new.kind = t.kind
    BY DEF AttemptState
  <2>3. adapterAttempt' = [adapterAttempt EXCEPT ![a] = new]
    BY <1>1, <1>6, <2>1 DEF Adapters!Accepts
  <2>. HIDE DEF new
  <2>4. PartOf(new) = PartOf(t) + 1 /\ PartOf(t) \in Nat
    BY <1>1, <1>3, <1>6, <2>1, <2>2 DEF PartOf
  <2>5. \A i \in DOMAIN adapterAsked[a] : adapterAsked[a][i].key.part < PartOf(new)
    BY <1>1, <1>4, <2>4 DEF TurnsSound
  <2>6. \A i \in DOMAIN adapterAsked[a] :
          Follows(adapterAsked[a][i].key, [part |-> PartOf(new), corrected |-> new.corrected])
    BY <1>4, <2>4, <2>5 DEF Follows
  <2>7. TurnsSound(new, adapterLease[a], adapterAsked[a])
    BY <1>1, <2>2, <2>6 DEF TurnsSound
  <2>8. new.kind = adapterAttempt[a].kind /\ new.drafts >= adapterAttempt[a].drafts
    BY <1>1, <1>3, <2>1, <2>2
  <2>. QED
    BY <1>2, <2>2, <2>3, <2>7, <2>8, AttemptKeeps
<1>7. CASE Adapters!Corrects(a)
  <2>1. t.corrected = FALSE
    BY <1>1, <1>3, <1>7 DEF Adapters!Corrects, Adapters!Correctable
  <2>. DEFINE new == [t EXCEPT !.corrected = TRUE, !.step = "start"]
  <2>2. /\ new \in AttemptState /\ new.step = "start" /\ new.corrected = TRUE
        /\ new.drafts = t.drafts /\ new.kind = t.kind
    BY DEF AttemptState
  <2>3. adapterAttempt' = [adapterAttempt EXCEPT ![a] = new]
    BY <1>1, <1>7 DEF Adapters!Corrects
  <2>. HIDE DEF new
  <2>4. PartOf(new) = PartOf(t)
    BY <2>2 DEF PartOf
  <2>. DEFINE next == [part |-> PartOf(new), corrected |-> new.corrected]
  <2>5. next.part = PartOf(new) /\ next.corrected = TRUE
    BY <2>2
  <2>6. \A i \in DOMAIN adapterAsked[a] : Follows(adapterAsked[a][i].key, next)
    <3>. SUFFICES ASSUME NEW i \in DOMAIN adapterAsked[a]
                  PROVE  Follows(adapterAsked[a][i].key, next)
      OBVIOUS
    <3>1. /\ adapterAsked[a][i].key.part <= PartOf(t)
          /\ adapterAsked[a][i].key.part = PartOf(t) => adapterAsked[a][i].key.corrected = FALSE
      BY <1>1, <2>1 DEF TurnsSound
    <3>. HIDE DEF next
    <3>. QED
      BY <2>4, <2>5, <3>1 DEF Follows
  <2>7. TurnsSound(new, adapterLease[a], adapterAsked[a])
    BY <1>1, <2>2, <2>6 DEF TurnsSound
  <2>8. new.kind = adapterAttempt[a].kind /\ new.drafts >= adapterAttempt[a].drafts
    BY <1>1, <1>3, <2>2
  <2>. QED
    BY <1>2, <2>2, <2>3, <2>7, <2>8, AttemptKeeps
<1>. QED
  BY <1>5, <1>6, <1>7 DEF Adapters!Accepts, Adapters!GivesUp

(* The lease ends: settled by the attempt, or taken from it.               *)
LEMMA LeaseEndsStep ==
  ASSUME AdapterInv, NEW a \in Routes, Adapters!Settled(a) \/ Adapters!LeaseLost(a)
  PROVE  AdapterInv'
<1>1. PICK t \in AttemptState :
        /\ t = adapterAttempt[a] /\ TurnsSound(t, adapterLease[a], adapterAsked[a])
        /\ adapterAttempt = [adapterAttempt EXCEPT ![a] = t]
  BY AttemptHolds
<1>2. PICK new \in AttemptState, lease \in {"none", "lost"} :
        /\ adapterAttempt' = [adapterAttempt EXCEPT ![a] = new]
        /\ adapterLease' = [adapterLease EXCEPT ![a] = lease]
        /\ new.kind = t.kind /\ (new = t \/ new.step = "over")
  <2>1. CASE Adapters!Settled(a)
    <3>1. Adapters!Becomes(a, "over") /\ adapterLease' = [adapterLease EXCEPT ![a] = "none"]
      BY <2>1 DEF Adapters!Settled
    <3>. QED
      BY <1>1, <3>1, AttemptBecomes
  <2>2. CASE Adapters!LeaseLost(a)
    <3>1. adapterAttempt' = adapterAttempt /\ adapterLease' = [adapterLease EXCEPT ![a] = "lost"]
      BY <2>2 DEF Adapters!LeaseLost
    <3>. QED
      BY <1>1, <3>1
  <2>. QED
    BY <2>1, <2>2
<1>3. TurnsSound(new, lease, adapterAsked[a])
  BY <1>1, <1>2 DEF TurnsSound
<1>4. UNCHANGED <<adapterAsked, adapterSaved, adapterServiceState, adapterCreations>>
  BY DEF Adapters!Settled, Adapters!LeaseLost
<1>5. lease \in {"none", "held", "lost"} /\ lease # "held"
  OBVIOUS
<1>. QED
  BY <1>2, <1>3, <1>4, <1>5, AttemptGoes

(* The adapters' invariant: where it begins, at each of its steps, and     *)
(* while it rests.                                                         *)
LEMMA AdapterRests ==
  ASSUME AdapterInv,
         UNCHANGED <<adapterAttempt, adapterLease, adapterAsked, adapterSaved,
                     adapterServiceState, adapterCreations>>
  PROVE  AdapterInv'
<1>1. /\ adapterServiceState' \in {"none", "creating", "closing", "ready"}
      /\ adapterCreations' = IF adapterServiceState' = "none" THEN 0 ELSE 1
      /\ UNCHANGED <<adapterAttempt, adapterLease, adapterAsked, adapterSaved>>
  BY DEF AdapterInv, AdapterTyped
<1>. QED
  BY <1>1, ServiceMoves

LEMMA AdapterBegins == Adapters!Init => AdapterInv
<1>. SUFFICES ASSUME Adapters!Init PROVE AdapterInv
  OBVIOUS
<1>. DEFINE none == <<>>
<1>1. none \in Seq(Turn)
  OBVIOUS
<1>2. adapterAsked = [a \in Routes |-> none]
  BY DEF Adapters!Init
<1>3. \A lease \in {"none", "lost"} : TurnsSound(Adapters!Fresh, lease, none)
  BY FreshIsSound
<1>. HIDE DEF none
<1>4. AdapterTyped
  BY <1>1, <1>2, FreshIsSound DEF Adapters!Init, AdapterTyped
<1>5. \A a \in Routes : /\ adapterAttempt[a] = Adapters!Fresh /\ adapterLease[a] = "none"
                        /\ adapterAsked[a] = none
  BY <1>2 DEF Adapters!Init
<1>. QED
  BY <1>3, <1>4, <1>5 DEF AdapterInv

LEMMA AdapterSteps == AdapterInv /\ Adapters!Next => AdapterInv'
<1>. SUFFICES ASSUME AdapterInv, Adapters!Next PROVE AdapterInv'
  OBVIOUS
<1>1. CASE Adapters!ServicesReady \/ Adapters!ServicesFail \/ Adapters!WatchdogTick
  <2>1. /\ UNCHANGED <<adapterAttempt, adapterLease, adapterAsked, adapterSaved>>
        /\ adapterServiceState' \in {"none", "creating", "closing", "ready"}
        /\ adapterCreations' = IF adapterServiceState' = "none" THEN 0 ELSE 1
    BY <1>1 DEF Adapters!ServicesReady, Adapters!ServicesFail, Adapters!WatchdogTick,
                AdapterInv, AdapterTyped
  <2>. QED
    BY <2>1, ServiceMoves
<1>2. CASE \E a \in Routes : \E outcome \in Adapters!Outcomes : Adapters!Settles(a, outcome)
  BY <1>2, AdapterRests DEF Adapters!Settles
<1>3. CASE \E a \in Routes : \E kind \in {"answer", "portia", "local"} \ {"local"} :
             Adapters!AsksForServices(a, kind)
  BY <1>3, AsksStep
<1>4. ASSUME NEW a \in Routes,
             \/ Adapters!Begins(a) \/ Adapters!BeginsLocal(a) \/ Adapters!Progresses(a)
             \/ Adapters!StartsTurn(a) \/ Adapters!Dispatches(a) \/ Adapters!Accepts(a)
             \/ Adapters!Corrects(a) \/ Adapters!GivesUp(a) \/ Adapters!Settled(a)
             \/ Adapters!LeaseLost(a)
      PROVE  AdapterInv'
  BY <1>4, BeginsStep, ProgressesStep, StartsTurnStep, DispatchesStep, HearsStep, LeaseEndsStep
<1>. QED
  BY <1>1, <1>2, <1>3, <1>4, RejectedStep DEF Adapters!Next

-----------------------------------------------------------------------------
(* The components together: only the one under check takes steps.          *)

(* The launcher's invariant holds while it is the component under check.   *)
THEOREM LauncherInvariant == MCSpec => [](part = "launcher" => LauncherInv)
<1>. DEFINE Inv == part = "launcher" => LauncherInv
<1>1. MCInit => Inv
  BY LauncherBegins DEF MCInit
<1>2. Inv /\ [MCNext]_<<part, vars, wilburVars, adapterVars, brokerVars, launcherVars,
                        searchVars>> => Inv'
  <2>. SUFFICES ASSUME Inv, [MCNext]_<<part, vars, wilburVars, adapterVars, brokerVars,
                                       launcherVars, searchVars>>,
                       part' = "launcher"
                PROVE  LauncherInv'
    OBVIOUS
  <2>1. CASE LaunchedStep
    BY <2>1, LauncherSteps DEF LaunchedStep
  <2>2. CASE UNCHANGED launcherVars /\ part' = part
    BY <2>2, LauncherRests
  <2>. QED
    BY <2>1, <2>2 DEF MCNext, AnswersStep, WilburStep, AdaptersStep, BrokerStep, SearchStep
<1>. QED
  BY <1>1, <1>2, PTL DEF MCSpec

(* Launches agree on one identity, whoever died creating it; a server runs *)
(* only a copy that is there and was verified, on an open bridge while its *)
(* launcher lives; a launch that ended left nothing: Launcher's property.  *)
THEOREM LaunchesAlwaysClean == MCSpec => []LaunchesAreClean
<1>1. (part = "launcher" => LauncherInv) => LaunchesAreClean
  <2>. SUFFICES ASSUME LauncherInv PROVE Launched!LaunchesAreClean
    BY DEF LaunchesAreClean
  <2>1. Launched!OneOwner
    BY DEF LauncherInv
  <2>2. Launched!ServersAreBacked /\ Launched!EndsAreClean
    BY DEF LauncherInv, LaunchesBacked, Backed, Launched!ServersAreBacked, Launched!EndsAreClean,
           Launched!Running
  <2>. QED
    BY <2>1, <2>2 DEF Launched!LaunchesAreClean
<1>. QED
  BY <1>1, LauncherInvariant, PTL


(* The broker's invariant holds while it is the component under check.     *)
THEOREM BrokerInvariant == MCSpec => [](part = "broker" => BrokerInv)
<1>. DEFINE Inv == part = "broker" => BrokerInv
<1>1. MCInit => Inv
  BY BrokerBegins DEF MCInit
<1>2. Inv /\ [MCNext]_<<part, vars, wilburVars, adapterVars, brokerVars, launcherVars,
                        searchVars>> => Inv'
  <2>. SUFFICES ASSUME Inv, [MCNext]_<<part, vars, wilburVars, adapterVars, brokerVars,
                                       launcherVars, searchVars>>,
                       part' = "broker"
                PROVE  BrokerInv'
    OBVIOUS
  <2>1. CASE BrokerStep
    BY <2>1, BrokerSteps DEF BrokerStep
  <2>2. CASE UNCHANGED brokerVars /\ part' = part
    BY <2>2, BrokerRests DEF brokerVars
  <2>. QED
    BY <2>1, <2>2 DEF MCNext, AnswersStep, WilburStep, AdaptersStep, LaunchedStep, SearchStep
<1>. QED
  BY <1>1, <1>2, PTL DEF MCSpec

(* A stage is researched once: one search is sent, by the caller whose     *)
(* claim is stored, everyone acts on the outcome that is stored, a run goes *)
(* on only with one, and no connection leaves a source's host: Research's  *)
(* property.                                                               *)
THEOREM ResearchAlwaysSettledOnce == MCSpec => []ResearchIsSettledOnce
<1>1. (part = "broker" => BrokerInv) => ResearchIsSettledOnce
  <2>. SUFFICES ASSUME BrokerInv PROVE Broker!ResearchIsSettledOnce
    BY DEF ResearchIsSettledOnce
  <2>1. Broker!OneSearch /\ Broker!NothingPendingBehind
    BY DEF BrokerInv, BrokerTyped, RowSound, Broker!OneSearch, Broker!NothingPendingBehind,
           Broker!Ended, Outcomes
  <2>2. Broker!OutcomesAgree
    BY DEF BrokerInv, HolderSound, Broker!OutcomesAgree, Broker!Ended, Outcomes
  <2>3. Broker!ConnectionsStayHome
    BY DEF BrokerInv
  <2>. QED
    BY <2>1, <2>2, <2>3 DEF Broker!ResearchIsSettledOnce
<1>. QED
  BY <1>1, BrokerInvariant, PTL

(* The search's invariant holds while it is the component under check.     *)
THEOREM CodexInvariant == MCSpec => [](part = "search" => CodexInv)
<1>. DEFINE Inv == part = "search" => CodexInv
<1>1. MCInit => Inv
  BY CodexBegins DEF MCInit
<1>2. Inv /\ [MCNext]_<<part, vars, wilburVars, adapterVars, brokerVars, launcherVars,
                        searchVars>> => Inv'
  <2>. SUFFICES ASSUME Inv, [MCNext]_<<part, vars, wilburVars, adapterVars, brokerVars,
                                       launcherVars, searchVars>>,
                       part' = "search"
                PROVE  CodexInv'
    OBVIOUS
  <2>1. CASE SearchStep
    BY <2>1, CodexSteps DEF SearchStep
  <2>2. CASE UNCHANGED searchVars /\ part' = part
    BY <2>2, CodexRests DEF searchVars
  <2>. QED
    BY <2>1, <2>2 DEF MCNext, AnswersStep, WilburStep, AdaptersStep, BrokerStep, LaunchedStep
<1>. QED
  BY <1>1, <1>2, PTL DEF MCSpec

(* Whatever the host rewrites and restores, a search runs the reviewed     *)
(* bytes, owns the client that is up until it ends, and keeps no result of *)
(* one that tried another account: CodexSearch's property.                 *)
THEOREM SearchAlwaysAttested == MCSpec => []SearchIsAttested
<1>1. (part = "search" => CodexInv) => SearchIsAttested
  <2>. SUFFICES ASSUME CodexInv PROVE Search!SearchIsAttested
    BY DEF SearchIsAttested
  <2>1. \A s \in Routes : SearchSound(searchSearch[s], searchClient[s], searchModules)
    BY DEF CodexInv
  <2>2. \A s \in Routes : searchSearch[s].aborted \in BOOLEAN
    BY CodexHolds DEF CodexSearchState
  <2>. QED
    BY <2>1, <2>2 DEF SearchSound, Search!SearchIsAttested, Search!RunsSealedCode,
                      Search!ClientsAreOwned, Search!ResultsAreBound
<1>. QED
  BY <1>1, CodexInvariant, PTL

(* The adapters' invariant holds while they are the component under check. *)
THEOREM AdapterInvariant == MCSpec => [](part = "adapters" => AdapterInv)
<1>. DEFINE Inv == part = "adapters" => AdapterInv
<1>1. MCInit => Inv
  BY AdapterBegins DEF MCInit
<1>2. Inv /\ [MCNext]_<<part, vars, wilburVars, adapterVars, brokerVars, launcherVars,
                        searchVars>> => Inv'
  <2>. SUFFICES ASSUME Inv, [MCNext]_<<part, vars, wilburVars, adapterVars, brokerVars,
                                       launcherVars, searchVars>>,
                       part' = "adapters"
                PROVE  AdapterInv'
    OBVIOUS
  <2>1. CASE AdaptersStep
    BY <2>1, AdapterSteps DEF AdaptersStep
  <2>2. CASE UNCHANGED adapterVars /\ part' = part
    BY <2>2, AdapterRests DEF adapterVars
  <2>. QED
    BY <2>1, <2>2 DEF MCNext, AnswersStep, WilburStep, BrokerStep, LaunchedStep, SearchStep
<1>. QED
  BY <1>1, <1>2, PTL DEF MCSpec

(* Provider turns are spent at most once: services are created once at a   *)
(* time, no attempt repeats a key, at most the last turn goes out after    *)
(* the lease is lost, and what a former attempt stored is not asked again: *)
(* the property of ProviderTurns.                                          *)
THEOREM TurnsAlwaysSpentOnce == MCSpec => []TurnsAreSpentOnce
<1>1. (part = "adapters" => AdapterInv) => TurnsAreSpentOnce
  <2>. SUFFICES ASSUME AdapterInv PROVE Adapters!TurnsAreSpentOnce
    BY DEF TurnsAreSpentOnce
  <2>1. Adapters!OneServiceState
    BY DEF AdapterInv, AdapterTyped, Adapters!OneServiceState
  <2>2. \A a \in Routes : /\ TurnsSound(adapterAttempt[a], adapterLease[a], adapterAsked[a])
                          /\ \A i \in DOMAIN adapterAsked[a] :
                               adapterAsked[a][i].fenced \in BOOLEAN
    <3>1. \A a \in Routes : \A i \in DOMAIN adapterAsked[a] : adapterAsked[a][i] \in Turn
      BY AttemptHolds
    <3>. QED
      BY <3>1, AttemptHolds DEF Turn
  <2>3. Adapters!KeysAreFresh
    <3>1. \A a \in Routes : \A i, j \in DOMAIN adapterAsked[a] : i < j =>
            Follows(adapterAsked[a][i].key, adapterAsked[a][j].key)
      BY <2>2 DEF TurnsSound
    <3>2. \A p, q : Follows(p, q) =>
            p # q /\ p.part <= q.part /\ (p.part = q.part => q.corrected)
      BY Zenon DEF Follows
    <3>. QED
      BY <3>1, <3>2, Zenon DEF Adapters!KeysAreFresh
  <2>4. Adapters!TurnsAreFenced
    BY <2>2 DEF TurnsSound, Adapters!TurnsAreFenced
  <2>5. Adapters!StoredIsNotAskedAgain
    <3>. SUFFICES ASSUME NEW a \in Routes, Adapters!Holds(a),
                         adapterAttempt[a].kind = "portia"
                  PROVE  Adapters!Part(a) > adapterSaved
      BY DEF Adapters!StoredIsNotAskedAgain
    <3>1. adapterSaved <= adapterAttempt[a].drafts /\ adapterSaved \in Nat
      BY DEF AdapterInv, AdapterTyped, Adapters!Holds
    <3>2. adapterAttempt[a].drafts \in Nat
      BY AttemptHolds DEF AttemptState
    <3>3. Adapters!Part(a) = adapterAttempt[a].drafts + 1
      BY DEF Adapters!Part
    <3>. QED
      BY <3>1, <3>2, <3>3
  <2>. QED
    BY <2>1, <2>3, <2>4, <2>5 DEF Adapters!TurnsAreSpentOnce
<1>. QED
  BY <1>1, AdapterInvariant, PTL

-----------------------------------------------------------------------------
(* Wilbur's requests.                                                      *)

WilburTyped ==
  /\ wilburRun \in Wilbur!Executable
  /\ wilburActions \in [Suggestions -> Wilbur!Action \cup {None}]
  /\ wilburObserved \subseteq Keys
  /\ wilburEvents \in Nat
  /\ wilburRequests \in [Keys -> Wilbur!Request \cup {None}]
  /\ wilburRate \in [Wilbur!Kinds -> [user : Nat, ip : Nat]]
  /\ wilburHandler \in [Routes -> Wilbur!Task \cup {Wilbur!Idle}]
  /\ wilburReplies \subseteq Keys \X (Wilbur!Action \cup {None})
  /\ wilburCrashes \in 0..MaxCrashes

(* The keys of a table of requests by where they are; an awake one is      *)
(* pending and counted by the next claim.                                  *)
IsPending(row) == row # None /\ row.status = "pending"
IsCommitted(row) == row # None /\ row.status = "committed"
Filed(table) == {k \in Keys : table[k] # None}
Waiting(table) == {k \in Keys : IsPending(table[k])}
Awake(table) == {k \in Keys : IsPending(table[k]) /\ table[k].old = FALSE}
Done(table) == {k \in Keys : IsCommitted(table[k])}
DoneBy(table, op) == {k \in Done(table) : table[k].intent.op = op}
Updates(table, s) == {k \in DoneBy(table, "update_action") : table[k].intent.on = s}
Heavy(table, K) == {k \in K : table[k].intent.op # "update_action"}
Bound(acts) == {s \in Suggestions : acts[s] # None}

(* Only a pending request reserves, and only a pending one grows old.      *)
ClaimSound(row) ==
  row # None =>
    /\ row.rows = IF row.status = "pending" THEN Wilbur!FutureRows(row.intent) ELSE 0
    /\ row.old = TRUE => row.status = "pending"

(* What a handler's copy t says of the tables: its action exists, and the  *)
(* request it claimed; a row it saw committed stays as it was.             *)
KnowsTables(t, table, acts) ==
  t.step # "idle" =>
    /\ t.intent.op # "create_action" => acts[t.intent.on] # None
    /\ t.step \notin {"snapshot", "claim"} => table[t.key] # None /\ table[t.key].old = FALSE
    /\ t.step = "claim" /\ t.view # None =>
         table[t.key] # None /\ (t.view.status = "committed" => table[t.key] = t.view)

(* What is stored is what the committed requests asked for.                *)
StoredIsDone(table, acts, obs, count) ==
  /\ Cardinality(Bound(acts)) = Cardinality(DoneBy(table, "create_action"))
  /\ \A s \in Bound(acts) : acts[s].revision = Cardinality(Updates(table, s))
  /\ \A k \in DoneBy(table, "update_action") : table[k].intent.on \in Bound(acts)
  /\ obs = DoneBy(table, "append_observation")
  /\ count = Cardinality(Done(table))

(* What a player was told is what was committed.                           *)
ToldIsDone(table, told) ==
  \A p \in told : p[1] \in Done(table) /\ p[2] = table[p[1]].result

Spared(rate) ==
  \A kind \in Wilbur!Kinds : rate[kind].ip <= UserLimit /\ rate[kind].ip <= rate[kind].user

(* The player's rows, with what the claims in K reserve.                   *)
Load(table, acts, obs, count, K) ==
  Cardinality(Bound(acts)) + Cardinality(obs) + count + Cardinality(Filed(table))
    + Cardinality(K) + Cardinality(Heavy(table, K))

(* Handlers whose snapshot had room for their claim, and those of them     *)
(* whose claim is of three rows.                                           *)
MayAdd(t) == t.step = "claim" /\ t.rows + 1 + Wilbur!FutureRows(t.intent) <= RowLimit
Adding(tasks) == {h \in Routes : MayAdd(tasks[h])}
AddingMore(tasks) == {h \in Adding(tasks) : tasks[h].intent.op # "update_action"}

Ceiling == RowLimit + 3 * (Cardinality(Routes) - 1)

(* Even if all of them go on, the rows stay under the ceiling.             *)
RoomForAll(table, acts, obs, count, tasks) ==
  Load(table, acts, obs, count, Awake(table))
    + 2 * Cardinality(Adding(tasks)) + Cardinality(AddingMore(tasks)) <= Ceiling

RoomForNow(table, acts, obs, count) ==
  Load(table, acts, obs, count, Waiting(table)) <= Ceiling

WilburInv ==
  /\ WilburTyped
  /\ \A k \in Keys : ClaimSound(wilburRequests[k])
  /\ \A h \in Routes : KnowsTables(wilburHandler[h], wilburRequests, wilburActions)
  /\ StoredIsDone(wilburRequests, wilburActions, wilburObserved, wilburEvents)
  /\ ToldIsDone(wilburRequests, wilburReplies)
  /\ Spared(wilburRate)
  /\ RoomForAll(wilburRequests, wilburActions, wilburObserved, wilburEvents, wilburHandler)
  /\ RoomForNow(wilburRequests, wilburActions, wilburObserved, wilburEvents)

WilburRows == [Keys -> Wilbur!Request \cup {None}]

(* How a request's row moves while nothing is committed: not at all, or a  *)
(* pending one is denied, or goes on pending and awake.                    *)
CalmRow(row, new) ==
  \/ new = row
  \/ /\ row # None /\ new # None
     /\ row.status = "pending" /\ new.intent = row.intent /\ new.old = FALSE
     /\ ClaimSound(new)
     /\ new.status = "denied" \/ (new.status = "pending" /\ row.old = FALSE)

Calm(table, new) == \A k \in Keys : CalmRow(table[k], new[k])

(* What no step undoes.                                                    *)
Persists(table, acts, newRows, newActs) ==
  /\ \A k \in Keys : table[k] # None =>
       /\ newRows[k] # None
       /\ table[k].old = FALSE => newRows[k].old = FALSE
       /\ table[k].status = "committed" => newRows[k] = table[k]
  /\ \A s \in Suggestions : acts[s] # None => newActs[s] # None

(* Sets of keys, of handlers and of suggestions are finite.                *)
LEMMA CountedSets ==
  /\ \A S \in SUBSET Keys : IsFiniteSet(S) /\ Cardinality(S) \in Nat
  /\ \A S \in SUBSET Routes : IsFiniteSet(S) /\ Cardinality(S) \in Nat
  /\ \A S \in SUBSET Suggestions : IsFiniteSet(S) /\ Cardinality(S) \in Nat
  /\ \A S \in SUBSET Keys : \A T \in SUBSET S : Cardinality(T) <= Cardinality(S)
  /\ \A S \in SUBSET Routes : \A T \in SUBSET S : Cardinality(T) <= Cardinality(S)
<1>1. IsFiniteSet(Keys) /\ IsFiniteSet(Routes) /\ IsFiniteSet(Suggestions)
  BY WilburAssumption
<1>2. \A S \in SUBSET Keys : IsFiniteSet(S) /\ Cardinality(S) \in Nat
  BY <1>1, FS_Subset, FS_CardinalityType
<1>3. \A S \in SUBSET Routes : IsFiniteSet(S) /\ Cardinality(S) \in Nat
  BY <1>1, FS_Subset, FS_CardinalityType
<1>4. \A S \in SUBSET Suggestions : IsFiniteSet(S) /\ Cardinality(S) \in Nat
  BY <1>1, FS_Subset, FS_CardinalityType
<1>5. \A S \in SUBSET Keys : \A T \in SUBSET S : Cardinality(T) <= Cardinality(S)
  BY <1>2, FS_Subset
<1>6. \A S \in SUBSET Routes : \A T \in SUBSET S : Cardinality(T) <= Cardinality(S)
  BY <1>3, FS_Subset
<1>. QED
  BY <1>2, <1>3, <1>4, <1>5, <1>6

(* The sets a table is counted by are sets of keys.                        *)
LEMMA TableSets ==
  ASSUME NEW table
  PROVE  /\ Filed(table) \in SUBSET Keys /\ Waiting(table) \in SUBSET Keys
         /\ Awake(table) \in SUBSET Waiting(table) /\ Done(table) \in SUBSET Keys
         /\ Awake(table) \in SUBSET Keys
         /\ \A op : DoneBy(table, op) \in SUBSET Keys
         /\ \A s : Updates(table, s) \in SUBSET Keys
         /\ \A K \in SUBSET Keys : Heavy(table, K) \in SUBSET Keys
BY DEF Filed, Waiting, Awake, Done, DoneBy, Updates, Heavy

(* While nothing is committed the done stay done and as they were, and no  *)
(* request wakes.                                                          *)
LEMMA CalmTables ==
  ASSUME NEW table, NEW new, Calm(table, new)
  PROVE  /\ Filed(new) = Filed(table) /\ Done(new) = Done(table)
         /\ \A k \in Done(table) : new[k] = table[k]
         /\ \A op : DoneBy(new, op) = DoneBy(table, op)
         /\ \A s : Updates(new, s) = Updates(table, s)
         /\ Awake(new) \subseteq Awake(table) /\ Waiting(new) \subseteq Waiting(table)
         /\ Heavy(new, Awake(new)) \subseteq Heavy(table, Awake(table))
         /\ Heavy(new, Waiting(new)) \subseteq Heavy(table, Waiting(table))
         /\ \A acts : Persists(table, acts, new, acts)
<1>. USE DEF Calm, CalmRow
<1>1. Filed(new) = Filed(table)
  BY DEF Filed
<1>2. Done(new) = Done(table) /\ \A k \in Done(table) : new[k] = table[k]
  <2>1. \A k \in Keys : IsCommitted(new[k]) <=> IsCommitted(table[k])
    BY DEF IsCommitted
  <2>2. \A k \in Keys : IsCommitted(table[k]) => new[k] = table[k]
    BY DEF IsCommitted
  <2>. QED
    BY <2>1, <2>2 DEF Done
<1>3. \A op : DoneBy(new, op) = DoneBy(table, op)
  BY <1>2 DEF DoneBy
<1>4. \A s : Updates(new, s) = Updates(table, s)
  BY <1>2, <1>3 DEF Updates, DoneBy
<1>5. \A k \in Keys : IsPending(new[k]) =>
        /\ IsPending(table[k]) /\ new[k].intent = table[k].intent
        /\ new[k].old = FALSE => table[k].old = FALSE
  BY DEF IsPending
<1>6. Awake(new) \subseteq Awake(table) /\ Waiting(new) \subseteq Waiting(table)
  BY <1>5 DEF Awake, Waiting
<1>7. /\ Heavy(new, Awake(new)) \subseteq Heavy(table, Awake(table))
      /\ Heavy(new, Waiting(new)) \subseteq Heavy(table, Waiting(table))
  <2>1. \A k \in Waiting(new) : new[k].intent = table[k].intent
    BY <1>5 DEF Waiting
  <2>2. Awake(new) \subseteq Waiting(new)
    BY DEF Awake, Waiting
  <2>. QED
    BY <1>6, <2>1, <2>2 DEF Heavy
<1>8. \A acts : Persists(table, acts, new, acts)
  BY DEF Persists
<1>. QED
  BY <1>1, <1>2, <1>3, <1>4, <1>6, <1>7, <1>8

(* A load over fewer reservations is no more.                              *)
LEMMA LoadFalls ==
  ASSUME NEW table, NEW new, Filed(new) = Filed(table), NEW acts, NEW obs \in SUBSET Keys,
         NEW count \in Nat, NEW K \in SUBSET Keys, NEW L \in SUBSET K,
         Heavy(new, L) \subseteq Heavy(table, K)
  PROVE  /\ Load(table, acts, obs, count, K) \in Nat
         /\ Load(new, acts, obs, count, L) \in Nat
         /\ Load(new, acts, obs, count, L) <= Load(table, acts, obs, count, K)
<1>1. Bound(acts) \in SUBSET Suggestions
  BY DEF Bound
<1>2. /\ Filed(table) \in SUBSET Keys /\ L \in SUBSET Keys
      /\ Heavy(table, K) \in SUBSET Keys /\ Heavy(new, L) \in SUBSET Keys
  BY TableSets
<1>3. /\ Cardinality(Bound(acts)) \in Nat /\ Cardinality(obs) \in Nat
      /\ Cardinality(Filed(table)) \in Nat /\ Cardinality(K) \in Nat /\ Cardinality(L) \in Nat
      /\ Cardinality(Heavy(table, K)) \in Nat /\ Cardinality(Heavy(new, L)) \in Nat
  BY <1>1, <1>2, CountedSets
<1>4. Cardinality(L) <= Cardinality(K) /\ Cardinality(Heavy(new, L)) <= Cardinality(Heavy(table, K))
  BY <1>2, CountedSets
<1>. QED
  BY <1>3, <1>4 DEF Load

(* What a handler at work holds.                                           *)
LEMMA TaskHolds ==
  /\ Wilbur!Idle.step = "idle" /\ Wilbur!Idle \notin Wilbur!Task
  /\ \A t \in Wilbur!Task \cup {Wilbur!Idle} : t.step # "idle" =>
       /\ t \in Wilbur!Task /\ t.key \in Keys /\ t.intent \in Intents
       /\ t.intent \in Wilbur!Intent /\ t.intent.on \in Suggestions
       /\ t.intent.op \in Wilbur!Operations
       /\ t.view \in Wilbur!Request \cup {None} /\ t.rows \in Nat
       /\ Wilbur!FutureRows(t.intent) \in {1, 2}
       /\ Wilbur!FutureRows(t.intent) = 1 <=> t.intent.op = "update_action"
<1>1. Wilbur!Idle.step = "idle" /\ Wilbur!Idle \notin Wilbur!Task
  BY DEF Wilbur!Idle, Wilbur!Task
<1>2. \A t \in Wilbur!Task : /\ t.key \in Keys /\ t.intent \in Intents /\ t.rows \in Nat
                             /\ t.view \in Wilbur!Request \cup {None}
  BY DEF Wilbur!Task
<1>3. \A i \in Intents : i \in Wilbur!Intent /\ i.on \in Suggestions /\ i.op \in Wilbur!Operations
  BY WilburAssumption DEF Wilbur!Intent
<1>. QED
  BY <1>1, <1>2, <1>3 DEF Wilbur!FutureRows

(* No step takes from a handler what it knows.                             *)
LEMMA StillKnows ==
  ASSUME NEW t \in Wilbur!Task \cup {Wilbur!Idle}, NEW table, NEW acts, NEW new, NEW newActs,
         Persists(table, acts, new, newActs), KnowsTables(t, table, acts)
  PROVE  KnowsTables(t, new, newActs)
<1>. SUFFICES ASSUME t.step # "idle" PROVE KnowsTables(t, new, newActs)
  BY DEF KnowsTables
<1>1. t.key \in Keys /\ t.intent.on \in Suggestions
  BY TaskHolds
<1>. QED
  BY <1>1 DEF KnowsTables, Persists

(* A handler without room leaves the handlers that may add.                *)
LEMMA AddingLeaves ==
  ASSUME NEW tasks \in [Routes -> Wilbur!Task \cup {Wilbur!Idle}], NEW h \in Routes, NEW t,
         ~MayAdd(t)
  PROVE  /\ Adding([tasks EXCEPT ![h] = t]) = Adding(tasks) \ {h}
         /\ AddingMore([tasks EXCEPT ![h] = t]) = AddingMore(tasks) \ {h}
<1>1. Adding([tasks EXCEPT ![h] = t]) = Adding(tasks) \ {h}
  BY DEF Adding
<1>. QED
  BY <1>1 DEF AddingMore, Adding

LEMMA AddingCounts ==
  ASSUME NEW tasks
  PROVE  /\ Adding(tasks) \in SUBSET Routes /\ AddingMore(tasks) \in SUBSET Routes
         /\ IsFiniteSet(Adding(tasks)) /\ IsFiniteSet(AddingMore(tasks))
         /\ Cardinality(Adding(tasks)) \in Nat /\ Cardinality(AddingMore(tasks)) \in Nat
<1>1. Adding(tasks) \in SUBSET Routes /\ AddingMore(tasks) \in SUBSET Routes
  BY DEF Adding, AddingMore
<1>. QED
  BY <1>1, CountedSets

(* The step of handler h that leaves it with t, and the requests new.      *)
OnlyWilbur(h, t, new) ==
  /\ wilburRun' = wilburRun /\ wilburActions' = wilburActions
  /\ wilburObserved' = wilburObserved /\ wilburEvents' = wilburEvents
  /\ wilburRequests' = new
  /\ wilburHandler' = [wilburHandler EXCEPT ![h] = t]

(* What it may do to the hour's rates, the answers and the crashes.        *)
RateGoes == wilburRate' \in [Wilbur!Kinds -> [user : Nat, ip : Nat]] /\ Spared(wilburRate')
RepliesGo(new) ==
  \A p \in wilburReplies' :
    \/ p \in wilburReplies
    \/ /\ p \in Keys \X (Wilbur!Action \cup {None})
       /\ p[1] \in Done(new) /\ p[2] = new[p[1]].result
CrashesGo == wilburCrashes' \in 0..MaxCrashes

(* A step of handler h that leaves it with t, and the tables with these.   *)
Leaves(h, t, new, acts, obs, count) ==
  /\ wilburActions' = acts /\ wilburObserved' = obs /\ wilburEvents' = count
  /\ wilburRequests' = new
  /\ wilburHandler' = [wilburHandler EXCEPT ![h] = t]

(* What the tables it leaves have to say.                                  *)
TablesSound(new, acts, obs, count) ==
  /\ wilburRun' \in Wilbur!Executable
  /\ acts \in [Suggestions -> Wilbur!Action \cup {None}] /\ obs \subseteq Keys /\ count \in Nat
  /\ \A k \in Keys : ClaimSound(new[k])
  /\ StoredIsDone(new, acts, obs, count)
  /\ ToldIsDone(new, wilburReplies')
  /\ wilburReplies' \subseteq Keys \X (Wilbur!Action \cup {None})
  /\ RoomForNow(new, acts, obs, count)

LEMMA WilburStands ==
  ASSUME WilburInv, NEW h \in Routes, NEW t \in Wilbur!Task \cup {Wilbur!Idle},
         NEW new \in WilburRows, NEW acts, NEW obs, NEW count, Leaves(h, t, new, acts, obs, count),
         TablesSound(new, acts, obs, count), Persists(wilburRequests, wilburActions, new, acts),
         KnowsTables(t, new, acts), RateGoes, CrashesGo,
         RoomForAll(new, acts, obs, count, [wilburHandler EXCEPT ![h] = t])
  PROVE  WilburInv'
<1>1. WilburTyped'
  <2>1. wilburHandler' \in [Routes -> Wilbur!Task \cup {Wilbur!Idle}]
    BY DEF Leaves, WilburInv, WilburTyped
  <2>2. wilburRequests' \in [Keys -> Wilbur!Request \cup {None}]
    BY DEF Leaves, WilburRows
  <2>. QED
    BY <2>1, <2>2 DEF WilburTyped, Leaves, TablesSound, RateGoes, CrashesGo
<1>2. (\A k \in Keys : ClaimSound(wilburRequests[k]))'
  BY DEF Leaves, TablesSound, ClaimSound
<1>3. (\A g \in Routes : KnowsTables(wilburHandler[g], wilburRequests, wilburActions))'
  <2>1. ASSUME NEW g \in Routes
        PROVE  KnowsTables([wilburHandler EXCEPT ![h] = t][g], new, acts)
    <3>1. CASE g = h
      BY <3>1 DEF WilburInv, WilburTyped
    <3>2. CASE g # h
      <4>1. /\ wilburHandler[g] \in Wilbur!Task \cup {Wilbur!Idle}
            /\ KnowsTables(wilburHandler[g], wilburRequests, wilburActions)
        BY DEF WilburInv, WilburTyped
      <4>2. KnowsTables(wilburHandler[g], new, acts)
        BY <4>1, StillKnows
      <4>. QED
        BY <3>2, <4>2 DEF WilburInv, WilburTyped
    <3>. QED
      BY <3>1, <3>2
  <2>. QED
    BY <2>1 DEF Leaves
<1>4. /\ StoredIsDone(wilburRequests, wilburActions, wilburObserved, wilburEvents)'
      /\ ToldIsDone(wilburRequests, wilburReplies)'
      /\ RoomForNow(wilburRequests, wilburActions, wilburObserved, wilburEvents)'
      /\ RoomForAll(wilburRequests, wilburActions, wilburObserved, wilburEvents, wilburHandler)'
  BY DEF Leaves, TablesSound
<1>5. Spared(wilburRate)'
  BY DEF RateGoes
<1>. QED
  BY <1>1, <1>2, <1>3, <1>4, <1>5 DEF WilburInv

(* A step that commits nothing.                                            *)
LEMMA WilburMoves ==
  ASSUME WilburInv, NEW h \in Routes, NEW t \in Wilbur!Task \cup {Wilbur!Idle},
         NEW new \in WilburRows, Calm(wilburRequests, new), OnlyWilbur(h, t, new),
         KnowsTables(t, new, wilburActions), RateGoes, RepliesGo(new), CrashesGo,
         RoomForAll(new, wilburActions, wilburObserved, wilburEvents,
                    [wilburHandler EXCEPT ![h] = t])
  PROVE  WilburInv'
<1>1. Leaves(h, t, new, wilburActions, wilburObserved, wilburEvents)
  BY DEF Leaves, OnlyWilbur
<1>2. Persists(wilburRequests, wilburActions, new, wilburActions)
  BY CalmTables
<1>3. \A k \in Keys : ClaimSound(new[k])
  BY DEF WilburInv, Calm, CalmRow
<1>4. StoredIsDone(new, wilburActions, wilburObserved, wilburEvents)
  <2>1. StoredIsDone(wilburRequests, wilburActions, wilburObserved, wilburEvents)
    BY DEF WilburInv
  <2>2. \A k \in DoneBy(wilburRequests, "update_action") : new[k] = wilburRequests[k]
    BY CalmTables DEF DoneBy
  <2>. QED
    BY <2>1, <2>2, CalmTables DEF StoredIsDone
<1>5. /\ ToldIsDone(new, wilburReplies')
      /\ wilburReplies' \subseteq Keys \X (Wilbur!Action \cup {None})
  <2>1. ToldIsDone(wilburRequests, wilburReplies)
    BY DEF WilburInv
  <2>2. ToldIsDone(new, wilburReplies')
    BY <2>1, CalmTables DEF ToldIsDone, RepliesGo
  <2>3. wilburReplies' \subseteq Keys \X (Wilbur!Action \cup {None})
    BY DEF RepliesGo, WilburInv, WilburTyped
  <2>. QED
    BY <2>2, <2>3
<1>6. RoomForNow(new, wilburActions, wilburObserved, wilburEvents)
  <2>1. /\ RoomForNow(wilburRequests, wilburActions, wilburObserved, wilburEvents)
        /\ wilburObserved \in SUBSET Keys /\ wilburEvents \in Nat
    BY DEF WilburInv, WilburTyped
  <2>2. /\ Load(wilburRequests, wilburActions, wilburObserved, wilburEvents, Waiting(wilburRequests))
             \in Nat
        /\ Load(new, wilburActions, wilburObserved, wilburEvents, Waiting(new)) \in Nat
        /\ Load(new, wilburActions, wilburObserved, wilburEvents, Waiting(new))
             <= Load(wilburRequests, wilburActions, wilburObserved, wilburEvents,
                     Waiting(wilburRequests))
    BY <2>1, CalmTables, TableSets, LoadFalls
  <2>3. Ceiling \in Int
    BY WilburAssumption, CountedSets DEF Ceiling
  <2>. QED
    BY <2>1, <2>2, <2>3 DEF RoomForNow
<1>7. TablesSound(new, wilburActions, wilburObserved, wilburEvents)
  <2>1. /\ wilburRun' \in Wilbur!Executable
        /\ wilburActions \in [Suggestions -> Wilbur!Action \cup {None}]
        /\ wilburObserved \subseteq Keys /\ wilburEvents \in Nat
    BY DEF OnlyWilbur, WilburInv, WilburTyped
  <2>. QED
    BY <1>3, <1>4, <1>5, <1>6, <2>1 DEF TablesSound
<1>. QED
  BY <1>1, <1>2, <1>7, WilburStands

(* The same for a handler that may not add: the room can only grow.        *)
LEMMA WilburGoes ==
  ASSUME WilburInv, NEW h \in Routes, NEW t \in Wilbur!Task \cup {Wilbur!Idle},
         NEW new \in WilburRows, Calm(wilburRequests, new), OnlyWilbur(h, t, new),
         KnowsTables(t, new, wilburActions), RateGoes, RepliesGo(new), CrashesGo,
         ~MayAdd(t)
  PROVE  WilburInv'
<1>. DEFINE later == [wilburHandler EXCEPT ![h] = t]
<1>1. /\ RoomForAll(wilburRequests, wilburActions, wilburObserved, wilburEvents, wilburHandler)
      /\ wilburObserved \in SUBSET Keys /\ wilburEvents \in Nat
      /\ wilburHandler \in [Routes -> Wilbur!Task \cup {Wilbur!Idle}]
  BY DEF WilburInv, WilburTyped
<1>2. /\ Load(wilburRequests, wilburActions, wilburObserved, wilburEvents, Awake(wilburRequests))
           \in Nat
      /\ Load(new, wilburActions, wilburObserved, wilburEvents, Awake(new)) \in Nat
      /\ Load(new, wilburActions, wilburObserved, wilburEvents, Awake(new))
           <= Load(wilburRequests, wilburActions, wilburObserved, wilburEvents,
                   Awake(wilburRequests))
  BY <1>1, CalmTables, TableSets, LoadFalls
<1>3. /\ Cardinality(Adding(later)) <= Cardinality(Adding(wilburHandler))
      /\ Cardinality(AddingMore(later)) <= Cardinality(AddingMore(wilburHandler))
  <2>1. /\ Adding(later) \in SUBSET Adding(wilburHandler)
        /\ AddingMore(later) \in SUBSET AddingMore(wilburHandler)
    <3>1. wilburHandler \in [Routes -> Wilbur!Task \cup {Wilbur!Idle}]
      BY <1>1
    <3>2. /\ Adding(later) = Adding(wilburHandler) \ {h}
          /\ AddingMore(later) = AddingMore(wilburHandler) \ {h}
      BY <3>1, AddingLeaves
    <3>. QED
      BY <3>2
  <2>. HIDE DEF later
  <2>2. Adding(wilburHandler) \in SUBSET Routes /\ AddingMore(wilburHandler) \in SUBSET Routes
    BY AddingCounts
  <2>. QED
    BY <2>1, <2>2, CountedSets
<1>4. Ceiling \in Int
  BY WilburAssumption, CountedSets DEF Ceiling
<1>5. RoomForAll(new, wilburActions, wilburObserved, wilburEvents, later)
  <2>1. /\ Cardinality(Adding(later)) \in Nat /\ Cardinality(AddingMore(later)) \in Nat
        /\ Cardinality(Adding(wilburHandler)) \in Nat
        /\ Cardinality(AddingMore(wilburHandler)) \in Nat
    BY AddingCounts
  <2>. HIDE DEF later
  <2>. QED
    BY <1>1, <1>2, <1>3, <1>4, <2>1 DEF RoomForAll
<1>. QED
  BY <1>5, WilburMoves

(* A denied row reserves nothing and is awake.                             *)
LEMMA DenyIs ==
  ASSUME NEW row \in Wilbur!Request
  PROVE  LET new == Wilbur!Deny(row) IN
         /\ new \in Wilbur!Request /\ new # None /\ ClaimSound(new)
         /\ new.status = "denied" /\ new.intent = row.intent /\ new.old = FALSE
<1>. DEFINE new == Wilbur!Deny(row)
<1>1. /\ new \in Wilbur!Request
      /\ new.status = "denied" /\ new.intent = row.intent /\ new.old = FALSE /\ new.rows = 0
  <2>1. 0 \in 0..2 /\ 0 \in 0..1
    OBVIOUS
  <2>2. \A R, T : 0 \in R /\ 0 \in T =>
          \A x \in [intent : Intents, status : {"pending", "committed", "denied"},
                    admitted : BOOLEAN, old : BOOLEAN, rows : R, text : T,
                    result : Wilbur!Action \cup {None}] :
            LET y == [x EXCEPT !.status = "denied", !.rows = 0, !.text = 0, !.old = FALSE] IN
            /\ y \in [intent : Intents, status : {"pending", "committed", "denied"},
                     admitted : BOOLEAN, old : BOOLEAN, rows : R, text : T,
                     result : Wilbur!Action \cup {None}]
            /\ y.status = "denied" /\ y.intent = x.intent /\ y.old = FALSE /\ y.rows = 0
    OBVIOUS
  <2>. QED
    BY <2>1, <2>2 DEF Wilbur!Deny, Wilbur!Request
<1>2. new # None
  BY <1>1, WilburAssumption
<1>. HIDE DEF new
<1>3. ClaimSound(new)
  BY <1>1 DEF ClaimSound
<1>4. QED
  BY <1>1, <1>2, <1>3 DEF new

LEMMA RowHolds ==
  ASSUME WilburInv, NEW k \in Keys, wilburRequests[k] # None
  PROVE  /\ wilburRequests[k] \in Wilbur!Request /\ ClaimSound(wilburRequests[k])
         /\ wilburRequests[k].status \in {"pending", "committed", "denied"}
         /\ wilburRequests[k].intent \in Intents /\ wilburRequests[k].old \in BOOLEAN
         /\ wilburRequests[k].admitted \in BOOLEAN
<1>1. wilburRequests[k] \in Wilbur!Request /\ ClaimSound(wilburRequests[k])
  BY DEF WilburInv, WilburTyped
<1>. QED
  BY <1>1 DEF Wilbur!Request

(* A claim denies the requests that slept: what is pending then is what    *)
(* was awake.                                                              *)
LEMMA ExpiredIsCalm ==
  ASSUME WilburInv
  PROVE  /\ Wilbur!Expired \in WilburRows /\ Calm(wilburRequests, Wilbur!Expired)
         /\ \A k \in Keys :
              /\ Wilbur!Expired[k] = None <=> wilburRequests[k] = None
              /\ wilburRequests[k] # None =>
                   Wilbur!Expired[k] \in Wilbur!Request /\ Wilbur!Expired[k].old = FALSE
         /\ Waiting(Wilbur!Expired) = Awake(wilburRequests)
         /\ Awake(Wilbur!Expired) = Awake(wilburRequests)
         /\ \A k \in Awake(wilburRequests) : Wilbur!Expired[k] = wilburRequests[k]
<1>. DEFINE ex == Wilbur!Expired
<1>1. ASSUME NEW k \in Keys
      PROVE  ex[k] = IF wilburRequests[k] # None /\ wilburRequests[k].status = "pending"
                        /\ wilburRequests[k].old = TRUE
                     THEN Wilbur!Deny(wilburRequests[k]) ELSE wilburRequests[k]
  <2>1. wilburRequests[k] # None => wilburRequests[k].old \in BOOLEAN
    BY RowHolds
  <2>2. Wilbur!Pending(k) /\ wilburRequests[k].old <=>
          /\ wilburRequests[k] # None /\ wilburRequests[k].status = "pending"
          /\ wilburRequests[k].old = TRUE
    BY <2>1 DEF Wilbur!Pending
  <2>. QED
    BY <2>2 DEF Wilbur!Expired
<1>2. DOMAIN ex = Keys /\ ex = [k \in Keys |-> ex[k]]
  BY DEF Wilbur!Expired
<1>. HIDE DEF ex
<1>3. ASSUME NEW k \in Keys
      PROVE  /\ CalmRow(wilburRequests[k], ex[k])
             /\ ex[k] \in Wilbur!Request \cup {None}
             /\ ex[k] = None <=> wilburRequests[k] = None
             /\ wilburRequests[k] # None => ex[k] \in Wilbur!Request /\ ex[k].old = FALSE
             /\ IsPending(ex[k]) <=> IsPending(wilburRequests[k]) /\ wilburRequests[k].old = FALSE
             /\ IsPending(ex[k]) => ex[k] = wilburRequests[k]
  <2>1. CASE wilburRequests[k] = None
    BY <1>1, <2>1 DEF CalmRow, IsPending
  <2>2. CASE wilburRequests[k] # None
    <3>1. /\ wilburRequests[k] \in Wilbur!Request /\ wilburRequests[k].old \in BOOLEAN
          /\ wilburRequests[k].old = TRUE => wilburRequests[k].status = "pending"
      BY <2>2, RowHolds DEF ClaimSound
    <3>2. CASE wilburRequests[k].status = "pending" /\ wilburRequests[k].old = TRUE
      <4>1. ex[k] = Wilbur!Deny(wilburRequests[k])
        BY <1>1, <2>2, <3>2
      <4>2. /\ ex[k] \in Wilbur!Request /\ ex[k] # None /\ ClaimSound(ex[k])
            /\ ex[k].status = "denied" /\ ex[k].intent = wilburRequests[k].intent
            /\ ex[k].old = FALSE
        BY <3>1, <4>1, DenyIs
      <4>. QED
        BY <2>2, <3>2, <4>2 DEF CalmRow, IsPending
    <3>3. CASE ~(wilburRequests[k].status = "pending" /\ wilburRequests[k].old = TRUE)
      <4>1. ex[k] = wilburRequests[k] /\ wilburRequests[k].old = FALSE
        BY <1>1, <3>1, <3>3
      <4>. QED
        BY <2>2, <3>1, <4>1 DEF CalmRow, IsPending
    <3>. QED
      BY <3>2, <3>3
  <2>. QED
    BY <2>1, <2>2
<1>4. ex \in WilburRows
  BY <1>2, <1>3 DEF WilburRows
<1>5. Calm(wilburRequests, ex)
  BY <1>3 DEF Calm
<1>6. Waiting(ex) = Awake(wilburRequests)
  BY <1>3 DEF Waiting, Awake
<1>7. \A k \in Awake(wilburRequests) : ex[k] = wilburRequests[k]
  BY <1>3, <1>6 DEF Waiting
<1>8. Awake(ex) = Awake(wilburRequests)
  BY <1>6, <1>7 DEF Waiting, Awake
<1>. QED
  BY <1>3, <1>4, <1>5, <1>6, <1>7, <1>8 DEF ex

(* A handler goes on with the request it has claimed.                      *)
WorkSteps == {"refuse", "rate", "again", "write", "recover", "settle", "raced"}

LEMMA GoesOn ==
  ASSUME WilburInv, NEW h \in Routes, wilburHandler[h].step # "idle", NEW step \in WorkSteps,
         NEW new, new[wilburHandler[h].key] # None, new[wilburHandler[h].key].old = FALSE
  PROVE  LET t == [wilburHandler[h] EXCEPT !.step = step] IN
         /\ t \in Wilbur!Task /\ t.step = step /\ ~MayAdd(t)
         /\ KnowsTables(t, new, wilburActions)
<1>1. /\ wilburHandler[h] \in Wilbur!Task
      /\ KnowsTables(wilburHandler[h], wilburRequests, wilburActions)
  BY TaskHolds DEF WilburInv, WilburTyped
<1>. DEFINE t == [wilburHandler[h] EXCEPT !.step = step]
<1>2. /\ t \in Wilbur!Task /\ t.step = step
      /\ t.key = wilburHandler[h].key /\ t.intent = wilburHandler[h].intent
  BY <1>1 DEF Wilbur!Task, WorkSteps
<1>. HIDE DEF t
<1>3. ~MayAdd(t)
  BY <1>2 DEF MayAdd, WorkSteps
<1>4. KnowsTables(t, new, wilburActions)
  BY <1>1, <1>2 DEF KnowsTables, WorkSteps
<1>. QED
  BY <1>2, <1>3, <1>4 DEF t

LEMMA IdleKnows ==
  ASSUME NEW table, NEW acts
  PROVE  ~MayAdd(Wilbur!Idle) /\ KnowsTables(Wilbur!Idle, table, acts)
BY DEF MayAdd, KnowsTables, Wilbur!Idle

(* What Finish and Goto leave.                                             *)
After(h, step) == IF step = "idle" THEN Wilbur!Idle ELSE [wilburHandler[h] EXCEPT !.step = step]

LEMMA GotoIs ==
  ASSUME WilburInv, NEW h \in Routes, NEW step
  PROVE  /\ Wilbur!Goto(h, step) => wilburHandler' = [wilburHandler EXCEPT ![h] = After(h, step)]
         /\ Wilbur!Finish(h) => wilburHandler' = [wilburHandler EXCEPT ![h] = After(h, "idle")]
BY DEF Wilbur!Goto, Wilbur!Finish, After, WilburInv, WilburTyped

(* A step of a handler on a claimed request, which writes no artifact.     *)
OnlyRequests(h, step, new) ==
  /\ wilburRun' = wilburRun /\ wilburActions' = wilburActions
  /\ wilburObserved' = wilburObserved /\ wilburEvents' = wilburEvents
  /\ wilburRequests' = new
  /\ Wilbur!Goto(h, step) \/ (step = "idle" /\ Wilbur!Finish(h))

LEMMA WilburWorks ==
  ASSUME WilburInv, NEW h \in Routes, NEW step \in WorkSteps \cup {"idle"},
         NEW new \in WilburRows, Calm(wilburRequests, new), OnlyRequests(h, step, new),
         step # "idle" => /\ wilburHandler[h].step # "idle"
                          /\ new[wilburHandler[h].key] # None
                          /\ new[wilburHandler[h].key].old = FALSE,
         RateGoes, RepliesGo(new), CrashesGo
  PROVE  WilburInv'
<1>. DEFINE t == After(h, step)
<1>1. OnlyWilbur(h, t, new)
  BY GotoIs DEF OnlyWilbur, OnlyRequests
<1>2. t \in Wilbur!Task \cup {Wilbur!Idle} /\ ~MayAdd(t) /\ KnowsTables(t, new, wilburActions)
  <2>1. CASE step = "idle"
    BY <2>1, IdleKnows DEF After
  <2>2. CASE step # "idle"
    BY <2>2, GoesOn DEF After
  <2>. QED
    BY <2>1, <2>2
<1>. HIDE DEF t
<1>. QED
  BY <1>1, <1>2, WilburGoes

LEMMA WilburRestsThere ==
  ASSUME WilburInv, NEW new
  PROVE  /\ wilburRate' = wilburRate => RateGoes
         /\ wilburReplies' = wilburReplies => RepliesGo(new)
         /\ wilburCrashes' = wilburCrashes => CrashesGo
         /\ wilburRequests \in WilburRows /\ Calm(wilburRequests, wilburRequests)
BY DEF RateGoes, RepliesGo, CrashesGo, WilburInv, WilburTyped, Spared, WilburRows, Calm, CalmRow

(* The tables of artifacts rest, and the requests become new.              *)
OnlyFiled(new) ==
  /\ wilburRun' = wilburRun /\ wilburActions' = wilburActions
  /\ wilburObserved' = wilburObserved /\ wilburEvents' = wilburEvents
  /\ wilburRate' = wilburRate /\ wilburCrashes' = wilburCrashes
  /\ wilburRequests' = new

(* A claim's row is refused, answered with its result, or worked on.       *)
LEMMA AnsweredStep ==
  ASSUME WilburInv, NEW h \in Routes, wilburHandler[h].step # "idle",
         NEW next \in WorkSteps \cup {"idle"},
         NEW new \in WilburRows, Calm(wilburRequests, new), NEW row \in Wilbur!Request,
         new[wilburHandler[h].key] # None, new[wilburHandler[h].key].old = FALSE,
         row.status = "committed" => new[wilburHandler[h].key] = row,
         Wilbur!Answered(h, row, next), OnlyFiled(new)
  PROVE  WilburInv'
<1>1. RateGoes /\ CrashesGo /\ (wilburReplies' = wilburReplies => RepliesGo(new))
  BY WilburRestsThere DEF OnlyFiled
<1>2. wilburHandler[h].key \in Keys
  BY TaskHolds DEF WilburInv, WilburTyped
<1>3. CASE row.intent # wilburHandler[h].intent
  <2>1. OnlyRequests(h, "idle", new) /\ wilburReplies' = wilburReplies
    BY <1>3 DEF Wilbur!Answered, OnlyFiled, OnlyRequests
  <2>. QED
    BY <1>1, <2>1, WilburWorks
<1>4. CASE row.intent = wilburHandler[h].intent /\ row.status = "committed"
  <2>1. /\ OnlyRequests(h, "idle", new)
        /\ wilburReplies' = wilburReplies \cup {<<wilburHandler[h].key, row.result>>}
    BY <1>4 DEF Wilbur!Answered, Wilbur!Reply, OnlyFiled, OnlyRequests
  <2>2. row.result \in Wilbur!Action \cup {None}
    BY DEF Wilbur!Request
  <2>3. wilburHandler[h].key \in Done(new) /\ new[wilburHandler[h].key].result = row.result
    BY <1>2, <1>4 DEF Done, IsCommitted
  <2>4. RepliesGo(new)
    BY <1>2, <2>1, <2>2, <2>3 DEF RepliesGo
  <2>. QED
    BY <1>1, <2>1, <2>4, WilburWorks
<1>5. CASE row.intent = wilburHandler[h].intent /\ row.status # "committed"
  <2>1. OnlyRequests(h, next, new) /\ wilburReplies' = wilburReplies
    BY <1>5 DEF Wilbur!Answered, OnlyFiled, OnlyRequests
  <2>. QED
    BY <1>1, <2>1, WilburWorks
<1>. QED
  BY <1>3, <1>4, <1>5

LEMMA KnowsHere ==
  ASSUME WilburInv, NEW h \in Routes, wilburHandler[h].step # "idle"
  PROVE  /\ wilburHandler[h] \in Wilbur!Task /\ wilburHandler[h].key \in Keys
         /\ wilburHandler[h].intent \in Intents
         /\ KnowsTables(wilburHandler[h], wilburRequests, wilburActions)
BY TaskHolds DEF WilburInv, WilburTyped

LEMMA ReclaimStep ==
  ASSUME WilburInv, NEW h \in Routes,
         NEW step \in {"again", "recover", "raced"}, NEW next \in WorkSteps \cup {"idle"},
         Wilbur!Reclaim(h, step, next)
  PROVE  WilburInv'
<1>. DEFINE k == wilburHandler[h].key
            ex == Wilbur!Expired
<1>1. wilburHandler[h].step = step
  BY DEF Wilbur!Reclaim, Wilbur!Step
<1>2. k \in Keys /\ wilburRequests[k] # None
  BY <1>1, KnowsHere DEF KnowsTables
<1>3. /\ ex \in WilburRows /\ Calm(wilburRequests, ex)
      /\ ex[k] \in Wilbur!Request /\ ex[k].old = FALSE /\ ex[k] # None
  BY <1>2, ExpiredIsCalm
<1>4. OnlyFiled(ex) /\ Wilbur!Answered(h, ex[k], next)
  BY DEF Wilbur!Reclaim, OnlyFiled
<1>. HIDE DEF ex
<1>. QED
  BY <1>1, <1>3, <1>4, AnsweredStep

(* A pending request of a handler past its claim is awake, and may be      *)
(* denied.                                                                 *)
LEMMA DenyStep ==
  ASSUME WilburInv, NEW k \in Keys, IsPending(wilburRequests[k])
  PROVE  LET new == [wilburRequests EXCEPT ![k] = Wilbur!Deny(wilburRequests[k])] IN
         /\ new \in WilburRows /\ Calm(wilburRequests, new)
         /\ new[k] # None /\ new[k].old = FALSE
<1>1. wilburRequests[k] \in Wilbur!Request /\ wilburRequests[k] # None
  BY RowHolds DEF IsPending
<1>. DEFINE row == Wilbur!Deny(wilburRequests[k])
<1>2. /\ row \in Wilbur!Request /\ row # None /\ ClaimSound(row)
      /\ row.status = "denied" /\ row.intent = wilburRequests[k].intent /\ row.old = FALSE
  BY <1>1, DenyIs
<1>. HIDE DEF row
<1>3. wilburRequests \in [Keys -> Wilbur!Request \cup {None}]
  BY DEF WilburInv, WilburTyped
<1>. DEFINE new == [wilburRequests EXCEPT ![k] = row]
<1>4. new \in WilburRows /\ new[k] = row
  BY <1>2, <1>3 DEF WilburRows
<1>5. \A other \in Keys : other # k => new[other] = wilburRequests[other]
  BY <1>3
<1>6. CalmRow(wilburRequests[k], row)
  BY <1>1, <1>2 DEF CalmRow, IsPending
<1>. HIDE DEF new
<1>7. Calm(wilburRequests, new)
  BY <1>4, <1>5, <1>6 DEF Calm, CalmRow
<1>8. new[k] # None /\ new[k].old = FALSE
  BY <1>2, <1>4
<1>. QED
  BY <1>4, <1>7, <1>8 DEF new, row

LEMMA SettleStep ==
  ASSUME WilburInv, NEW h \in Routes,
         \/ Wilbur!Settle(h, "refuse", "idle") \/ Wilbur!Settle(h, "settle", "raced")
  PROVE  WilburInv'
<1>1. PICK step \in {"refuse", "settle"}, next \in {"idle", "raced"} : Wilbur!Settle(h, step, next)
  OBVIOUS
<1>. DEFINE k == wilburHandler[h].key
<1>2. wilburHandler[h].step = step
  BY <1>1 DEF Wilbur!Settle, Wilbur!Step
<1>3. k \in Keys /\ wilburRequests[k] # None /\ wilburRequests[k].old = FALSE
  BY <1>2, KnowsHere DEF KnowsTables
<1>4. RateGoes /\ CrashesGo /\ \A new : RepliesGo(new)
  BY <1>1, WilburRestsThere DEF Wilbur!Settle
<1>5. CASE Wilbur!Pending(k) /\ wilburRequests[k].intent = wilburHandler[h].intent
  <2>. DEFINE new == [wilburRequests EXCEPT ![k] = Wilbur!Deny(wilburRequests[k])]
  <2>1. /\ new \in WilburRows /\ Calm(wilburRequests, new)
        /\ new[k] # None /\ new[k].old = FALSE
    BY <1>3, <1>5, DenyStep DEF Wilbur!Pending, IsPending
  <2>2. OnlyRequests(h, next, new)
    BY <1>1, <1>5 DEF Wilbur!Settle, Wilbur!artifacts, OnlyRequests
  <2>. HIDE DEF new
  <2>. QED
    BY <1>2, <1>4, <2>1, <2>2, WilburWorks DEF WorkSteps
<1>6. CASE ~(Wilbur!Pending(k) /\ wilburRequests[k].intent = wilburHandler[h].intent)
  <2>1. OnlyRequests(h, next, wilburRequests)
    BY <1>1, <1>6 DEF Wilbur!Settle, Wilbur!artifacts, OnlyRequests
  <2>. QED
    BY <1>2, <1>3, <1>4, <2>1, WilburRestsThere, WilburWorks DEF WorkSteps
<1>. QED
  BY <1>5, <1>6

(* A user over the limit is counted and nothing of the address is spent;   *)
(* one within it pays for both.                                            *)
LEMMA RateSteps ==
  ASSUME WilburInv, NEW kind \in Wilbur!Kinds,
         \/ wilburRate' = [wilburRate EXCEPT ![kind].user = wilburRate[kind].user + 1]
         \/ /\ wilburRate[kind].user + 1 <= UserLimit
            /\ wilburRate' = [wilburRate EXCEPT ![kind] = [user |-> wilburRate[kind].user + 1,
                                                           ip |-> wilburRate[kind].ip + 1]]
  PROVE  RateGoes
<1>1. /\ wilburRate \in [Wilbur!Kinds -> [user : Nat, ip : Nat]] /\ Spared(wilburRate)
      /\ UserLimit \in Nat
  BY WilburAssumption DEF WilburInv, WilburTyped
<1>2. /\ wilburRate[kind].user \in Nat /\ wilburRate[kind].ip \in Nat
      /\ wilburRate[kind].ip <= UserLimit /\ wilburRate[kind].ip <= wilburRate[kind].user
  BY <1>1 DEF Spared
<1>3. ASSUME NEW bucket \in [user : Nat, ip : Nat],
             wilburRate' = [wilburRate EXCEPT ![kind] = bucket],
             bucket.ip <= UserLimit, bucket.ip <= bucket.user
      PROVE  RateGoes
  <2>1. \A x \in Wilbur!Kinds : wilburRate'[x] = IF x = kind THEN bucket ELSE wilburRate[x]
    BY <1>1, <1>3
  <2>2. wilburRate' \in [Wilbur!Kinds -> [user : Nat, ip : Nat]]
    BY <1>1, <1>3
  <2>. QED
    BY <1>1, <1>3, <2>1, <2>2 DEF RateGoes, Spared
<1>4. CASE wilburRate' = [wilburRate EXCEPT ![kind].user = wilburRate[kind].user + 1]
  <2>. DEFINE bucket == [wilburRate[kind] EXCEPT !.user = wilburRate[kind].user + 1]
  <2>1. /\ bucket \in [user : Nat, ip : Nat] /\ bucket.user = wilburRate[kind].user + 1
        /\ bucket.ip = wilburRate[kind].ip
    BY <1>1, <1>2
  <2>2. wilburRate' = [wilburRate EXCEPT ![kind] = bucket]
    BY <1>4
  <2>. HIDE DEF bucket
  <2>3. bucket.ip <= UserLimit /\ bucket.ip <= bucket.user
    BY <1>2, <2>1
  <2>. QED
    BY <1>3, <2>1, <2>2, <2>3
<1>5. CASE /\ wilburRate[kind].user + 1 <= UserLimit
           /\ wilburRate' = [wilburRate EXCEPT ![kind] = [user |-> wilburRate[kind].user + 1,
                                                          ip |-> wilburRate[kind].ip + 1]]
  <2>. DEFINE bucket == [user |-> wilburRate[kind].user + 1, ip |-> wilburRate[kind].ip + 1]
  <2>1. /\ bucket \in [user : Nat, ip : Nat] /\ bucket.user = wilburRate[kind].user + 1
        /\ bucket.ip = wilburRate[kind].ip + 1
    BY <1>1, <1>2
  <2>2. wilburRate' = [wilburRate EXCEPT ![kind] = bucket]
    BY <1>5
  <2>. HIDE DEF bucket
  <2>3. bucket.ip <= UserLimit /\ bucket.ip <= bucket.user
    BY <1>1, <1>2, <1>5, <2>1
  <2>. QED
    BY <1>3, <2>1, <2>2, <2>3
<1>. QED
  BY <1>4, <1>5

(* An admission keeps the request pending and awake.                       *)
LEMMA AdmittedIsCalm ==
  ASSUME WilburInv, NEW k \in Keys, IsPending(wilburRequests[k]),
         wilburRequests[k].old = FALSE
  PROVE  LET new == [wilburRequests EXCEPT ![k].admitted = TRUE, ![k].old = FALSE] IN
         /\ new \in WilburRows /\ Calm(wilburRequests, new)
         /\ new[k] # None /\ new[k].old = FALSE
<1>1. wilburRequests[k] \in Wilbur!Request /\ ClaimSound(wilburRequests[k])
  BY RowHolds DEF IsPending
<1>. DEFINE row == [wilburRequests[k] EXCEPT !.admitted = TRUE, !.old = FALSE]
<1>2. /\ row \in Wilbur!Request /\ row.status = wilburRequests[k].status /\ row.old = FALSE
      /\ row.intent = wilburRequests[k].intent /\ row.rows = wilburRequests[k].rows
  BY <1>1 DEF Wilbur!Request
<1>. HIDE DEF row
<1>3. row # None
  BY <1>2, WilburAssumption
<1>4. ClaimSound(row) /\ CalmRow(wilburRequests[k], row)
  BY <1>1, <1>2, <1>3 DEF ClaimSound, CalmRow, IsPending
<1>5. wilburRequests \in [Keys -> Wilbur!Request \cup {None}]
  BY DEF WilburInv, WilburTyped
<1>. DEFINE new == [wilburRequests EXCEPT ![k].admitted = TRUE, ![k].old = FALSE]
<1>6. new = [wilburRequests EXCEPT ![k] = row]
  BY <1>5 DEF row
<1>7. new \in WilburRows /\ new[k] = row
  BY <1>2, <1>5, <1>6 DEF WilburRows
<1>8. \A other \in Keys : other # k => new[other] = wilburRequests[other]
  BY <1>5, <1>6
<1>. HIDE DEF new
<1>9. Calm(wilburRequests, new)
  BY <1>4, <1>7, <1>8 DEF Calm, CalmRow
<1>10. new[k] # None /\ new[k].old = FALSE
  BY <1>2, <1>3, <1>7
<1>. QED
  BY <1>7, <1>9, <1>10 DEF new

LEMMA AdmitStep ==
  ASSUME WilburInv, NEW h \in Routes, Wilbur!Admit(h)
  PROVE  WilburInv'
<1>. DEFINE k == wilburHandler[h].key
            kind == Wilbur!KindOf(wilburHandler[h].intent)
<1>1. wilburHandler[h].step = "rate"
  BY DEF Wilbur!Admit, Wilbur!Step
<1>2. k \in Keys /\ wilburRequests[k] # None /\ wilburRequests[k].old = FALSE
  BY <1>1, KnowsHere DEF KnowsTables
<1>3. IsPending(wilburRequests[k])
  BY <1>2 DEF Wilbur!Admit, Wilbur!Admissible, IsPending
<1>4. kind \in Wilbur!Kinds
  BY DEF Wilbur!KindOf, Wilbur!Kinds
<1>5. CrashesGo /\ \A new : RepliesGo(new)
  BY WilburRestsThere DEF Wilbur!Admit
<1>6. RateGoes
  <2>1. \/ wilburRate' = [wilburRate EXCEPT ![kind].user = wilburRate[kind].user + 1]
        \/ /\ wilburRate[kind].user + 1 <= UserLimit
           /\ wilburRate' = [wilburRate EXCEPT ![kind] = [user |-> wilburRate[kind].user + 1,
                                                          ip |-> wilburRate[kind].ip + 1]]
    BY DEF Wilbur!Admit
  <2>. HIDE DEF kind
  <2>. QED
    BY <1>4, <2>1, RateSteps
<1>7. CASE /\ wilburRequests' = [wilburRequests EXCEPT ![k] = Wilbur!Deny(wilburRequests[k])]
           /\ Wilbur!Finish(h)
  <2>. DEFINE new == [wilburRequests EXCEPT ![k] = Wilbur!Deny(wilburRequests[k])]
  <2>1. new \in WilburRows /\ Calm(wilburRequests, new)
    BY <1>2, <1>3, DenyStep
  <2>2. OnlyRequests(h, "idle", new)
    BY <1>7 DEF Wilbur!Admit, Wilbur!artifacts, OnlyRequests
  <2>. HIDE DEF new
  <2>. QED
    BY <1>5, <1>6, <2>1, <2>2, WilburWorks
<1>8. CASE /\ wilburRequests' = [wilburRequests EXCEPT ![k].admitted = TRUE, ![k].old = FALSE]
           /\ Wilbur!Goto(h, "again")
  <2>. DEFINE new == [wilburRequests EXCEPT ![k].admitted = TRUE, ![k].old = FALSE]
  <2>1. /\ new \in WilburRows /\ Calm(wilburRequests, new)
        /\ new[k] # None /\ new[k].old = FALSE
    BY <1>2, <1>3, AdmittedIsCalm
  <2>2. OnlyRequests(h, "again", new)
    BY <1>8 DEF Wilbur!Admit, Wilbur!artifacts, OnlyRequests
  <2>. HIDE DEF new
  <2>. QED
    BY <1>1, <1>5, <1>6, <2>1, <2>2, WilburWorks DEF WorkSteps
<1>. QED
  BY <1>7, <1>8 DEF Wilbur!Admit

(* An admission found, a write that wrote nothing, and a lost handler      *)
(* change no table.                                                        *)
LEMMA NothingFiledStep ==
  ASSUME WilburInv, NEW h \in Routes,
         Wilbur!Readmit(h) \/ Wilbur!Lose(h) \/ Wilbur!Crash(h)
  PROVE  WilburInv'
<1>1. \A new : RepliesGo(new)
  BY WilburRestsThere DEF Wilbur!Readmit, Wilbur!Lose, Wilbur!Crash
<1>2. RateGoes
  BY WilburRestsThere DEF Wilbur!Readmit, Wilbur!Lose, Wilbur!Crash
<1>3. CASE Wilbur!Crash(h)
  <2>1. CrashesGo
    <3>1. wilburCrashes \in 0..MaxCrashes /\ MaxCrashes \in Nat
      BY RouteAssumption DEF WilburInv, WilburTyped
    <3>. QED
      BY <1>3, <3>1 DEF Wilbur!Crash, CrashesGo
  <2>2. OnlyRequests(h, "idle", wilburRequests)
    BY <1>3 DEF Wilbur!Crash, Wilbur!artifacts, OnlyRequests
  <2>. QED
    BY <1>1, <1>2, <2>1, <2>2, WilburRestsThere, WilburWorks
<1>4. CASE Wilbur!Readmit(h) \/ Wilbur!Lose(h)
  <2>1. PICK next \in {"idle", "again", "recover"} : OnlyRequests(h, next, wilburRequests)
    BY <1>4 DEF Wilbur!Readmit, Wilbur!Lose, Wilbur!artifacts, OnlyRequests
  <2>2. wilburHandler[h].step \in {"rate", "write"}
    BY <1>4 DEF Wilbur!Readmit, Wilbur!Lose, Wilbur!Step
  <2>3. LET k == wilburHandler[h].key IN
        k \in Keys /\ wilburRequests[k] # None /\ wilburRequests[k].old = FALSE
    BY <2>2, KnowsHere DEF KnowsTables
  <2>4. CrashesGo
    BY <1>4, WilburRestsThere DEF Wilbur!Readmit, Wilbur!Lose
  <2>. QED
    BY <1>1, <1>2, <2>1, <2>2, <2>3, <2>4, WilburRestsThere, WilburWorks DEF WorkSteps
<1>. QED
  BY <1>3, <1>4

(* The request arrives: what is asked of an action finds it there.         *)
LEMMA OpenStep ==
  ASSUME WilburInv, NEW h \in Routes, NEW k \in Keys, NEW i \in Intents, Wilbur!Open(h, k, i)
  PROVE  WilburInv'
<1>. DEFINE t == [step |-> "snapshot", key |-> k, intent |-> i, read |-> wilburActions[i.on],
                  view |-> None, rows |-> 0, text |-> 0]
<1>1. i.on \in Suggestions /\ (i.op # "create_action" => wilburActions[i.on] # None)
  BY WilburAssumption DEF Wilbur!Open, Wilbur!Intent
<1>2. t \in Wilbur!Task
  BY <1>1 DEF Wilbur!Task, WilburInv, WilburTyped
<1>3. ~MayAdd(t) /\ KnowsTables(t, wilburRequests, wilburActions)
  BY <1>1 DEF MayAdd, KnowsTables
<1>4. OnlyWilbur(h, t, wilburRequests)
  BY DEF Wilbur!Open, OnlyWilbur
<1>5. RateGoes /\ CrashesGo /\ RepliesGo(wilburRequests)
  BY WilburRestsThere DEF Wilbur!Open
<1>. HIDE DEF t
<1>. QED
  BY <1>2, <1>3, <1>4, <1>5, WilburRestsThere, WilburGoes

LEMMA SameCount == \A S : Wilbur!Cardinality(S) = Cardinality(S)
BY Zenon DEF Wilbur!Cardinality, Cardinality

(* What the model counts is the load.                                      *)
LEMMA ModelCounts ==
  ASSUME WilburInv
  PROVE  /\ Wilbur!OwnedRows = Cardinality(Bound(wilburActions)) + Cardinality(wilburObserved)
                                 + wilburEvents + Cardinality(Filed(wilburRequests))
         /\ \A K \in SUBSET Waiting(wilburRequests) :
              Wilbur!ReservedRows(K) = Cardinality(K) + Cardinality(Heavy(wilburRequests, K))
         /\ Wilbur!ReservedRows(Wilbur!Claimed) =
              Cardinality(Waiting(wilburRequests))
                + Cardinality(Heavy(wilburRequests, Waiting(wilburRequests)))
         /\ {k \in Keys : Wilbur!Pending(k) /\ ~wilburRequests[k].old} = Awake(wilburRequests)
<1>1. ASSUME NEW k \in Keys, wilburRequests[k] # None
      PROVE  /\ IsPending(wilburRequests[k]) <=> wilburRequests[k].rows >= 1
             /\ wilburRequests[k].rows = 2 <=>
                  IsPending(wilburRequests[k]) /\ wilburRequests[k].intent.op # "update_action"
  <2>. DEFINE row == wilburRequests[k]
              future == Wilbur!FutureRows(row.intent)
  <2>1. /\ future = IF row.intent.op = "update_action" THEN 1 ELSE 2
        /\ row.rows = IF row.status = "pending" THEN future ELSE 0
    BY <1>1, RowHolds DEF ClaimSound, Wilbur!FutureRows
  <2>2. IsPending(row) <=> row.status = "pending"
    BY <1>1 DEF IsPending
  <2>. HIDE DEF future
  <2>3. CASE row.status = "pending"
    BY <2>1, <2>2, <2>3
  <2>4. CASE row.status # "pending"
    BY <2>1, <2>2, <2>4
  <2>. QED
    BY <2>3, <2>4
<1>2. ASSUME NEW K \in SUBSET Waiting(wilburRequests)
      PROVE  Wilbur!ReservedRows(K) = Cardinality(K) + Cardinality(Heavy(wilburRequests, K))
  <2>1. \A k \in K : k \in Keys /\ IsPending(wilburRequests[k]) /\ wilburRequests[k] # None
    BY DEF Waiting, IsPending
  <2>2. {k \in K : wilburRequests[k].rows >= 1} = K
    BY <1>1, <2>1
  <2>3. {k \in K : wilburRequests[k].rows = 2} = Heavy(wilburRequests, K)
    BY <1>1, <2>1 DEF Heavy
  <2>. QED
    BY <2>2, <2>3, SameCount DEF Wilbur!ReservedRows
<1>3. Wilbur!ReservedRows(Wilbur!Claimed) =
        Cardinality(Waiting(wilburRequests))
          + Cardinality(Heavy(wilburRequests, Waiting(wilburRequests)))
  <2>1. {k \in Wilbur!Claimed : wilburRequests[k].rows >= 1} = Waiting(wilburRequests)
    BY <1>1 DEF Wilbur!Claimed, Waiting, IsPending
  <2>2. {k \in Wilbur!Claimed : wilburRequests[k].rows = 2}
          = Heavy(wilburRequests, Waiting(wilburRequests))
    BY <1>1 DEF Wilbur!Claimed, Waiting, Heavy, IsPending
  <2>. QED
    BY <2>1, <2>2, SameCount DEF Wilbur!ReservedRows
<1>4. {k \in Keys : Wilbur!Pending(k) /\ ~wilburRequests[k].old} = Awake(wilburRequests)
  <2>1. \A k \in Keys : Wilbur!Pending(k) /\ ~wilburRequests[k].old <=>
                        IsPending(wilburRequests[k]) /\ wilburRequests[k].old = FALSE
    BY RowHolds DEF Wilbur!Pending, IsPending
  <2>. QED
    BY <2>1 DEF Awake
<1>5. Wilbur!OwnedRows = Cardinality(Bound(wilburActions)) + Cardinality(wilburObserved)
                                 + wilburEvents + Cardinality(Filed(wilburRequests))
  BY SameCount DEF Wilbur!OwnedRows, Wilbur!Written, Wilbur!Claimed, Bound, Filed
<1>. QED
  BY <1>2, <1>3, <1>4, <1>5

(* The counts of a load are natural numbers.                               *)
LEMMA LoadCounts ==
  ASSUME WilburInv
  PROVE  /\ Cardinality(Bound(wilburActions)) \in Nat /\ Cardinality(wilburObserved) \in Nat
         /\ wilburEvents \in Nat /\ Cardinality(Filed(wilburRequests)) \in Nat
         /\ Cardinality(Awake(wilburRequests)) \in Nat
         /\ Cardinality(Waiting(wilburRequests)) \in Nat
         /\ Cardinality(Heavy(wilburRequests, Awake(wilburRequests))) \in Nat
         /\ Cardinality(Heavy(wilburRequests, Waiting(wilburRequests))) \in Nat
         /\ Ceiling \in Int /\ RowLimit \in Nat /\ Cardinality(Routes) \in Nat
<1>1. Bound(wilburActions) \in SUBSET Suggestions
  BY DEF Bound
<1>2. wilburObserved \in SUBSET Keys /\ wilburEvents \in Nat
  BY DEF WilburInv, WilburTyped
<1>3. Ceiling \in Int /\ RowLimit \in Nat /\ Cardinality(Routes) \in Nat
  BY WilburAssumption, CountedSets DEF Ceiling
<1>4. /\ Awake(wilburRequests) \in SUBSET Keys /\ Waiting(wilburRequests) \in SUBSET Keys
      /\ Filed(wilburRequests) \in SUBSET Keys
      /\ Heavy(wilburRequests, Awake(wilburRequests)) \in SUBSET Keys
      /\ Heavy(wilburRequests, Waiting(wilburRequests)) \in SUBSET Keys
  BY TableSets
<1>. QED
  BY <1>1, <1>2, <1>3, <1>4, CountedSets

(* The statement begins.  If it finds room, then for its own claim and, as *)
(* far as it can see, for nobody else's: the others may add three each.    *)
LEMMA SnapshotStep ==
  ASSUME WilburInv, NEW h \in Routes, Wilbur!Snapshot(h)
  PROVE  WilburInv'
<1>. DEFINE k == wilburHandler[h].key
            now == Load(wilburRequests, wilburActions, wilburObserved, wilburEvents,
                        Awake(wilburRequests))
            text == Wilbur!OwnedText + Wilbur!ReservedText(Awake(wilburRequests))
            t == [wilburHandler[h] EXCEPT !.step = "claim", !.view = wilburRequests[k],
                                          !.rows = now, !.text = text]
            later == [wilburHandler EXCEPT ![h] = t]
<1>1. wilburHandler[h].step # "idle" /\ wilburHandler[h].step = "snapshot"
  BY DEF Wilbur!Snapshot, Wilbur!Step
<1>2. /\ wilburHandler[h] \in Wilbur!Task /\ k \in Keys
      /\ KnowsTables(wilburHandler[h], wilburRequests, wilburActions)
      /\ wilburRequests[k] \in Wilbur!Request \cup {None}
      /\ wilburHandler \in [Routes -> Wilbur!Task \cup {Wilbur!Idle}]
  BY <1>1, KnowsHere DEF WilburInv, WilburTyped
<1>3. now \in Nat
  BY LoadCounts DEF Load
<1>4. text \in Nat
  <2>1. Wilbur!OwnedText = Cardinality(Bound(wilburActions)) + Cardinality(wilburObserved)
    BY SameCount DEF Wilbur!OwnedText, Wilbur!Written, Bound
  <2>2. Wilbur!ReservedText(Awake(wilburRequests)) \in Nat
    <3>1. {x \in Awake(wilburRequests) : wilburRequests[x].text = 1} \in SUBSET Keys
      BY DEF Awake
    <3>. QED
      BY <3>1, CountedSets, SameCount DEF Wilbur!ReservedText
  <2>. QED
    BY <2>1, <2>2, LoadCounts
<1>5. now = Wilbur!OwnedRows + Wilbur!ReservedRows(Awake(wilburRequests))
  BY ModelCounts, TableSets, LoadCounts DEF Load
<1>6. /\ wilburHandler' = later
      /\ UNCHANGED <<wilburRun, wilburActions, wilburObserved, wilburEvents, wilburRequests,
                     wilburRate, wilburReplies, wilburCrashes>>
  BY <1>2, <1>5, ModelCounts DEF Wilbur!Snapshot
<1>. HIDE DEF now, text
<1>7. /\ t \in Wilbur!Task /\ t.step = "claim" /\ t.view = wilburRequests[k] /\ t.rows = now
      /\ t.key = k /\ t.intent = wilburHandler[h].intent
  BY <1>2, <1>3, <1>4 DEF Wilbur!Task
<1>. HIDE DEF t
<1>8. KnowsTables(t, wilburRequests, wilburActions)
  BY <1>1, <1>2, <1>7 DEF KnowsTables
<1>9. OnlyWilbur(h, t, wilburRequests)
  BY <1>6 DEF OnlyWilbur
<1>10. RateGoes /\ CrashesGo /\ RepliesGo(wilburRequests)
  BY <1>6, WilburRestsThere
<1>11. CASE ~MayAdd(t)
  BY <1>7, <1>8, <1>9, <1>10, <1>11, WilburRestsThere, WilburGoes
<1>12. CASE MayAdd(t)
  <2>1. now + 1 + Wilbur!FutureRows(t.intent) <= RowLimit
    BY <1>7, <1>12 DEF MayAdd
  <2>2. Wilbur!FutureRows(t.intent) = IF t.intent.op = "update_action" THEN 1 ELSE 2
    BY DEF Wilbur!FutureRows
  <2>3. Cardinality(Adding(later)) <= Cardinality(Routes)
    BY AddingCounts, CountedSets
  <2>4. Cardinality(AddingMore(later)) <=
          Cardinality(Routes) - (IF t.intent.op = "update_action" THEN 1 ELSE 0)
    <3>1. CASE t.intent.op = "update_action"
      <4>1. later[h] = t
        BY <1>2
      <4>2. AddingMore(later) \in SUBSET (Routes \ {h})
        BY <3>1, <4>1 DEF AddingMore, Adding
      <4>3. IsFiniteSet(Routes \ {h}) /\ Cardinality(Routes \ {h}) = Cardinality(Routes) - 1
        BY WilburAssumption, FS_RemoveElement
      <4>4. Cardinality(AddingMore(later)) <= Cardinality(Routes \ {h})
        BY <4>2, <4>3, FS_Subset
      <4>. QED
        BY <3>1, <4>3, <4>4
    <3>2. CASE t.intent.op # "update_action"
      <4>1. Cardinality(AddingMore(later)) <= Cardinality(Routes)
        BY AddingCounts, CountedSets
      <4>. QED
        BY <3>2, <4>1, AddingCounts, LoadCounts
    <3>. QED
      BY <3>1, <3>2
  <2>5. /\ Cardinality(Adding(later)) \in Nat /\ Cardinality(AddingMore(later)) \in Nat
    BY AddingCounts
  <2>6. now + 2 * Cardinality(Adding(later)) + Cardinality(AddingMore(later)) <= Ceiling
    <3>. HIDE DEF later
    <3>. QED
      BY <1>3, <2>1, <2>2, <2>3, <2>4, <2>5, LoadCounts DEF Ceiling
  <2>7. RoomForAll(wilburRequests, wilburActions, wilburObserved, wilburEvents, later)
    BY <2>6 DEF RoomForAll, now
  <2>. QED
    BY <1>7, <1>8, <1>9, <1>10, <2>7, WilburRestsThere, WilburMoves
<1>. QED
  BY <1>11, <1>12

(* A new claim files its key, pending and awake, and nothing sleeps.       *)
LEMMA InsertTables ==
  ASSUME WilburInv, NEW k \in Keys, wilburRequests[k] = None, NEW i \in Intents
  PROVE  LET new == [Wilbur!Expired EXCEPT ![k] = Wilbur!Claim0(i)] IN
         /\ new \in WilburRows /\ new[k] # None /\ new[k].old = FALSE
         /\ \A x \in Keys : ClaimSound(new[x])
         /\ Filed(new) = Filed(wilburRequests) \cup {k} /\ k \notin Filed(wilburRequests)
         /\ Done(new) = Done(wilburRequests)
         /\ \A x \in Done(new) : new[x] = wilburRequests[x]
         /\ Waiting(new) = Awake(wilburRequests) \cup {k}
         /\ Awake(new) = Waiting(new) /\ k \notin Awake(wilburRequests)
         /\ Heavy(new, Awake(new)) = IF i.op = "update_action"
                                     THEN Heavy(wilburRequests, Awake(wilburRequests))
                                     ELSE Heavy(wilburRequests, Awake(wilburRequests)) \cup {k}
         /\ Persists(wilburRequests, wilburActions, new, wilburActions)
<1>. DEFINE ex == Wilbur!Expired
            row == Wilbur!Claim0(i)
            new == [ex EXCEPT ![k] = row]
<1>1. /\ row \in Wilbur!Request /\ row.intent = i /\ row.status = "pending" /\ row.old = FALSE
      /\ row.rows = Wilbur!FutureRows(i)
  <2>1. Wilbur!FutureRows(i) \in 0..2 /\ Wilbur!TextOf(i) \in 0..1
    BY DEF Wilbur!FutureRows, Wilbur!TextOf
  <2>. QED
    BY <2>1 DEF Wilbur!Claim0, Wilbur!Request
<1>2. row # None /\ ClaimSound(row) /\ IsPending(row)
  <2>1. row # None
    BY <1>1, WilburAssumption
  <2>. HIDE DEF row
  <2>. QED
    BY <1>1, <2>1 DEF ClaimSound, IsPending
<1>3. /\ ex \in WilburRows /\ Calm(wilburRequests, ex)
      /\ \A x \in Keys : (ex[x] = None <=> wilburRequests[x] = None)
      /\ Waiting(ex) = Awake(wilburRequests) /\ Awake(ex) = Awake(wilburRequests)
      /\ \A x \in Awake(wilburRequests) : ex[x] = wilburRequests[x]
  BY ExpiredIsCalm
<1>4. /\ Filed(ex) = Filed(wilburRequests) /\ Done(ex) = Done(wilburRequests)
      /\ \A x \in Done(wilburRequests) : ex[x] = wilburRequests[x]
      /\ Persists(wilburRequests, wilburActions, ex, wilburActions)
  BY <1>3, CalmTables
<1>5. \A x \in Keys : ClaimSound(ex[x])
  BY <1>3 DEF WilburInv, Calm, CalmRow
<1>. HIDE DEF ex, row
<1>6. new \in WilburRows /\ new[k] = row /\ \A x \in Keys : x # k => new[x] = ex[x]
  BY <1>1, <1>3 DEF WilburRows
<1>. HIDE DEF new
<1>7. new[k] # None /\ new[k].old = FALSE /\ \A x \in Keys : ClaimSound(new[x])
  BY <1>1, <1>2, <1>5, <1>6
<1>8. Filed(new) = Filed(wilburRequests) \cup {k} /\ k \notin Filed(wilburRequests)
  BY <1>2, <1>4, <1>6 DEF Filed
<1>9. Done(new) = Done(wilburRequests) /\ \A x \in Done(new) : new[x] = wilburRequests[x]
  <2>1. ~IsCommitted(row) /\ ~IsCommitted(ex[k])
    BY <1>1, <1>3 DEF IsCommitted
  <2>2. Done(new) = Done(ex)
    BY <1>6, <2>1 DEF Done
  <2>. QED
    BY <1>4, <1>6, <2>1, <2>2 DEF Done
<1>10. /\ Waiting(new) = Awake(wilburRequests) \cup {k} /\ k \notin Awake(wilburRequests)
       /\ Awake(new) = Waiting(new)
  <2>1. k \notin Awake(wilburRequests)
    BY DEF Awake, IsPending
  <2>2. \A x \in Keys : x # k =>
          /\ x \in Waiting(new) <=> x \in Waiting(ex)
          /\ x \in Awake(new) <=> x \in Awake(ex)
    BY <1>6 DEF Waiting, Awake
  <2>3. k \in Waiting(new) /\ k \in Awake(new)
    BY <1>1, <1>2, <1>6 DEF Waiting, Awake
  <2>4. Waiting(new) \subseteq Keys /\ Awake(new) \subseteq Keys /\ Awake(ex) \subseteq Keys
    BY DEF Waiting, Awake
  <2>. QED
    BY <1>3, <2>1, <2>2, <2>3, <2>4
<1>11. Heavy(new, Awake(new)) = IF i.op = "update_action"
                                THEN Heavy(wilburRequests, Awake(wilburRequests))
                                ELSE Heavy(wilburRequests, Awake(wilburRequests)) \cup {k}
  <2>1. \A x \in Awake(wilburRequests) : x # k /\ x \in Keys /\ new[x] = wilburRequests[x]
    BY <1>3, <1>6, <1>10 DEF Awake
  <2>2. new[k].intent = i
    BY <1>1, <1>6
  <2>3. Awake(new) = Awake(wilburRequests) \cup {k}
    BY <1>10
  <2>. QED
    BY <2>1, <2>2, <2>3 DEF Heavy
<1>12. Persists(wilburRequests, wilburActions, new, wilburActions)
  BY <1>4, <1>6 DEF Persists
<1>. QED
  BY <1>6, <1>7, <1>8, <1>9, <1>10, <1>11, <1>12 DEF new, ex, row

(* A claim with room is inserted: its handler's room becomes its rows.     *)
LEMMA InsertStep ==
  ASSUME WilburInv, NEW h \in Routes, wilburHandler[h].step = "claim", Wilbur!WithinEnvelope(h),
         wilburRequests[wilburHandler[h].key] = None, NEW next \in {"refuse", "rate"},
         Wilbur!Goto(h, next), wilburReplies' = wilburReplies,
         OnlyFiled([Wilbur!Expired EXCEPT
                     ![wilburHandler[h].key] = Wilbur!Claim0(wilburHandler[h].intent)])
  PROVE  WilburInv'
<1>. DEFINE k == wilburHandler[h].key
            i == wilburHandler[h].intent
            new == [Wilbur!Expired EXCEPT ![k] = Wilbur!Claim0(i)]
            t == [wilburHandler[h] EXCEPT !.step = next]
            later == [wilburHandler EXCEPT ![h] = t]
<1>1. k \in Keys /\ i \in Intents /\ wilburHandler[h].step # "idle"
  BY KnowsHere
<1>2. /\ new \in WilburRows /\ new[k] # None /\ new[k].old = FALSE
      /\ \A x \in Keys : ClaimSound(new[x])
      /\ Filed(new) = Filed(wilburRequests) \cup {k} /\ k \notin Filed(wilburRequests)
      /\ Done(new) = Done(wilburRequests)
      /\ \A x \in Done(new) : new[x] = wilburRequests[x]
      /\ Waiting(new) = Awake(wilburRequests) \cup {k}
      /\ Awake(new) = Waiting(new) /\ k \notin Awake(wilburRequests)
      /\ Heavy(new, Awake(new)) = IF i.op = "update_action"
                                  THEN Heavy(wilburRequests, Awake(wilburRequests))
                                  ELSE Heavy(wilburRequests, Awake(wilburRequests)) \cup {k}
      /\ Persists(wilburRequests, wilburActions, new, wilburActions)
  BY <1>1, InsertTables
<1>3. OnlyFiled(new)
  OBVIOUS
<1>. HIDE DEF new
<1>4. t \in Wilbur!Task /\ ~MayAdd(t) /\ KnowsTables(t, new, wilburActions)
  BY <1>1, <1>2, GoesOn DEF WorkSteps
<1>5. wilburHandler' = later
  BY GotoIs DEF After
<1>. HIDE DEF t
<1>6. Leaves(h, t, new, wilburActions, wilburObserved, wilburEvents)
  BY <1>3, <1>5 DEF Leaves, OnlyFiled
<1>7. RateGoes /\ CrashesGo
  BY <1>3, WilburRestsThere DEF OnlyFiled
<1>8. Load(new, wilburActions, wilburObserved, wilburEvents, Awake(new)) =
        Load(wilburRequests, wilburActions, wilburObserved, wilburEvents, Awake(wilburRequests))
          + (IF i.op = "update_action" THEN 2 ELSE 3)
  <2>1. /\ IsFiniteSet(Filed(wilburRequests)) /\ IsFiniteSet(Awake(wilburRequests))
        /\ IsFiniteSet(Heavy(wilburRequests, Awake(wilburRequests)))
    BY TableSets, CountedSets
  <2>2. Cardinality(Filed(new)) = Cardinality(Filed(wilburRequests)) + 1
    BY <1>2, <2>1, FS_AddElement
  <2>3. Cardinality(Awake(new)) = Cardinality(Awake(wilburRequests)) + 1
    <3>1. Awake(new) = Awake(wilburRequests) \cup {k} /\ k \notin Awake(wilburRequests)
      BY <1>2
    <3>. QED
      BY <2>1, <3>1, FS_AddElement
  <2>4. k \notin Heavy(wilburRequests, Awake(wilburRequests))
    BY <1>2 DEF Heavy
  <2>5. Cardinality(Heavy(new, Awake(new))) =
          Cardinality(Heavy(wilburRequests, Awake(wilburRequests)))
            + (IF i.op = "update_action" THEN 0 ELSE 1)
    <3>1. Cardinality(Heavy(wilburRequests, Awake(wilburRequests)) \cup {k}) =
            Cardinality(Heavy(wilburRequests, Awake(wilburRequests))) + 1
      BY <2>1, <2>4, FS_AddElement
    <3>. QED
      BY <1>2, <3>1, LoadCounts
  <2>. QED
    BY <2>2, <2>3, <2>5, LoadCounts DEF Load
<1>9. /\ Cardinality(Adding(later)) = Cardinality(Adding(wilburHandler)) - 1
      /\ Cardinality(AddingMore(later)) = Cardinality(AddingMore(wilburHandler))
                                            - (IF i.op = "update_action" THEN 0 ELSE 1)
  <2>1. wilburHandler \in [Routes -> Wilbur!Task \cup {Wilbur!Idle}]
    BY DEF WilburInv, WilburTyped
  <2>2. /\ Adding(later) = Adding(wilburHandler) \ {h}
        /\ AddingMore(later) = AddingMore(wilburHandler) \ {h}
    BY <1>4, <2>1, AddingLeaves
  <2>3. h \in Adding(wilburHandler)
    BY DEF Adding, MayAdd, Wilbur!WithinEnvelope
  <2>4. h \in AddingMore(wilburHandler) <=> i.op # "update_action"
    BY <2>3 DEF AddingMore
  <2>5. Cardinality(Adding(wilburHandler) \ {h}) = Cardinality(Adding(wilburHandler)) - 1
    BY <2>3, AddingCounts, FS_RemoveElement
  <2>6. Cardinality(AddingMore(wilburHandler) \ {h}) =
          Cardinality(AddingMore(wilburHandler)) - (IF i.op = "update_action" THEN 0 ELSE 1)
    <3>1. /\ IsFiniteSet(AddingMore(wilburHandler))
          /\ Cardinality(AddingMore(wilburHandler)) \in Nat
      BY AddingCounts
    <3>2. Cardinality(AddingMore(wilburHandler) \ {h}) =
            IF h \in AddingMore(wilburHandler) THEN Cardinality(AddingMore(wilburHandler)) - 1
                                               ELSE Cardinality(AddingMore(wilburHandler))
      BY <3>1, FS_RemoveElement
    <3>. QED
      BY <2>4, <3>1, <3>2
  <2>. QED
    BY <2>2, <2>5, <2>6
<1>10. RoomForAll(new, wilburActions, wilburObserved, wilburEvents, later)
  <2>1. RoomForAll(wilburRequests, wilburActions, wilburObserved, wilburEvents, wilburHandler)
    BY DEF WilburInv
  <2>2. Load(wilburRequests, wilburActions, wilburObserved, wilburEvents, Awake(wilburRequests))
          \in Nat
    BY LoadCounts DEF Load
  <2>3. /\ Cardinality(Adding(wilburHandler)) \in Nat
        /\ Cardinality(AddingMore(wilburHandler)) \in Nat
    BY AddingCounts
  <2>. HIDE DEF later
  <2>. QED
    BY <1>8, <1>9, <2>1, <2>2, <2>3, LoadCounts DEF RoomForAll
<1>11. RoomForNow(new, wilburActions, wilburObserved, wilburEvents)
  <2>1. /\ Cardinality(Adding(later)) \in Nat /\ Cardinality(AddingMore(later)) \in Nat
    BY AddingCounts
  <2>2. Load(wilburRequests, wilburActions, wilburObserved, wilburEvents, Awake(wilburRequests))
          \in Nat
    BY LoadCounts DEF Load
  <2>. HIDE DEF later
  <2>. QED
    BY <1>2, <1>8, <1>10, <2>1, <2>2, LoadCounts DEF RoomForAll, RoomForNow
<1>12. StoredIsDone(new, wilburActions, wilburObserved, wilburEvents)
  <2>1. StoredIsDone(wilburRequests, wilburActions, wilburObserved, wilburEvents)
    BY DEF WilburInv
  <2>2. \A op : DoneBy(new, op) = DoneBy(wilburRequests, op)
    BY <1>2 DEF DoneBy
  <2>3. \A s : Updates(new, s) = Updates(wilburRequests, s)
    BY <1>2, <2>2 DEF Updates, DoneBy
  <2>4. \A x \in DoneBy(wilburRequests, "update_action") : new[x] = wilburRequests[x]
    BY <1>2 DEF DoneBy
  <2>. QED
    BY <1>2, <2>1, <2>2, <2>3, <2>4 DEF StoredIsDone
<1>13. /\ ToldIsDone(new, wilburReplies')
       /\ wilburReplies' \subseteq Keys \X (Wilbur!Action \cup {None})
  BY <1>2 DEF ToldIsDone, WilburInv, WilburTyped
<1>14. TablesSound(new, wilburActions, wilburObserved, wilburEvents)
  <2>1. /\ wilburRun' \in Wilbur!Executable
        /\ wilburActions \in [Suggestions -> Wilbur!Action \cup {None}]
        /\ wilburObserved \subseteq Keys /\ wilburEvents \in Nat
    BY <1>3 DEF OnlyFiled, WilburInv, WilburTyped
  <2>. QED
    BY <1>2, <1>11, <1>12, <1>13, <2>1 DEF TablesSound
<1>. QED
  BY <1>2, <1>4, <1>6, <1>7, <1>10, <1>14, WilburStands

(* The lock is granted.                                                    *)
LEMMA ClaimStep ==
  ASSUME WilburInv, NEW h \in Routes, Wilbur!Claim(h)
  PROVE  WilburInv'
<1>. DEFINE k == wilburHandler[h].key
            view == wilburHandler[h].view
            ex == Wilbur!Expired
            next == IF Wilbur!Hopeless(h) THEN "refuse" ELSE "rate"
            existing == IF view = None THEN None
                        ELSE IF ex[k] # wilburRequests[k] THEN ex[k] ELSE view
            new == [ex EXCEPT ![k] = Wilbur!Claim0(wilburHandler[h].intent)]
<1>1. wilburHandler[h].step # "idle" /\ wilburHandler[h].step = "claim"
  BY DEF Wilbur!Claim, Wilbur!Step
<1>2. /\ wilburHandler[h] \in Wilbur!Task /\ k \in Keys
      /\ view \in Wilbur!Request \cup {None}
      /\ view # None => /\ wilburRequests[k] # None
                        /\ view.status = "committed" => wilburRequests[k] = view
  BY <1>1, KnowsHere DEF KnowsTables, Wilbur!Task
<1>3. /\ ex \in WilburRows /\ Calm(wilburRequests, ex)
      /\ ex[k] = None <=> wilburRequests[k] = None
      /\ wilburRequests[k] # None => ex[k] \in Wilbur!Request /\ ex[k].old = FALSE
  BY <1>2, ExpiredIsCalm
<1>4. next \in WorkSteps \cup {"idle"} /\ next \in {"refuse", "rate"}
  BY DEF WorkSteps
<1>5. \/ /\ existing # None
         /\ wilburRequests' = ex
         /\ Wilbur!Answered(h, existing, next)
      \/ /\ existing = None /\ Wilbur!WithinEnvelope(h) /\ ex[k] = None
         /\ wilburRequests' = new
         /\ Wilbur!Goto(h, next) /\ wilburReplies' = wilburReplies
      \/ wilburRequests' = ex /\ Wilbur!Finish(h) /\ wilburReplies' = wilburReplies
  BY DEF Wilbur!Claim
<1>6. /\ wilburRun' = wilburRun /\ wilburActions' = wilburActions
      /\ wilburObserved' = wilburObserved /\ wilburEvents' = wilburEvents
      /\ wilburRate' = wilburRate /\ wilburCrashes' = wilburCrashes
  BY DEF Wilbur!Claim
<1>. HIDE DEF ex, next
<1>7. CASE /\ existing # None
           /\ wilburRequests' = ex
           /\ Wilbur!Answered(h, existing, next)
  <2>1. view # None /\ wilburRequests[k] # None
    BY <1>2, <1>7
  <2>2. existing \in Wilbur!Request
    BY <1>2, <1>3, <2>1
  <2>3. existing.status = "committed" => ex[k] = existing
    BY <1>2, <2>1
  <2>4. OnlyFiled(ex)
    BY <1>6, <1>7 DEF OnlyFiled
  <2>5. ex[k] # None /\ ex[k].old = FALSE
    BY <1>3, <2>1
  <2>. HIDE DEF existing
  <2>. QED
    BY <1>1, <1>3, <1>4, <1>7, <2>2, <2>3, <2>4, <2>5, AnsweredStep
<1>8. CASE /\ existing = None /\ Wilbur!WithinEnvelope(h) /\ ex[k] = None
           /\ wilburRequests' = new
           /\ Wilbur!Goto(h, next) /\ wilburReplies' = wilburReplies
  <2>1. wilburRequests[k] = None
    BY <1>3, <1>8
  <2>2. OnlyFiled([Wilbur!Expired EXCEPT ![k] = Wilbur!Claim0(wilburHandler[h].intent)])
    BY <1>6, <1>8 DEF OnlyFiled, ex
  <2>. QED
    BY <1>1, <1>4, <1>8, <2>1, <2>2, InsertStep
<1>9. CASE wilburRequests' = ex /\ Wilbur!Finish(h) /\ wilburReplies' = wilburReplies
  <2>1. OnlyRequests(h, "idle", ex)
    BY <1>6, <1>9 DEF OnlyRequests
  <2>2. RateGoes /\ CrashesGo /\ RepliesGo(ex)
    BY <1>6, <1>9, WilburRestsThere
  <2>. QED
    BY <1>3, <2>1, <2>2, WilburWorks
<1>. QED
  BY <1>5, <1>7, <1>8, <1>9

-----------------------------------------------------------------------------
(* Writes.                                                                 *)

CommittedRow(row, result) ==
  [row EXCEPT !.status = "committed", !.rows = 0, !.text = 0, !.result = result, !.old = FALSE]

(* The requests once that of k is committed.                               *)
Committing(k, result) ==
  [wilburRequests EXCEPT ![k] = CommittedRow(wilburRequests[k], result)]

LEMMA CommittedRowIs ==
  ASSUME NEW row \in Wilbur!Request, NEW result \in Wilbur!Action \cup {None}
  PROVE  LET new == CommittedRow(row, result) IN
         /\ new \in Wilbur!Request /\ new # None /\ ClaimSound(new)
         /\ new.status = "committed" /\ new.intent = row.intent /\ new.old = FALSE
         /\ new.result = result /\ new.rows = 0
<1>. DEFINE new == CommittedRow(row, result)
<1>1. /\ new \in Wilbur!Request
      /\ new.status = "committed" /\ new.intent = row.intent /\ new.old = FALSE
      /\ new.result = result /\ new.rows = 0
  <2>1. 0 \in 0..2 /\ 0 \in 0..1
    OBVIOUS
  <2>2. ASSUME NEW I, NEW St, NEW B, NEW R, NEW T, NEW A, "committed" \in St, FALSE \in B,
               0 \in R, 0 \in T, NEW a \in A,
               NEW x \in [intent : I, status : St, admitted : B, old : B, rows : R, text : T,
                         result : A]
        PROVE  LET y == [x EXCEPT !.status = "committed", !.rows = 0, !.text = 0, !.result = a,
                                  !.old = FALSE] IN
               /\ y \in [intent : I, status : St, admitted : B, old : B, rows : R, text : T,
                        result : A]
               /\ y.status = "committed" /\ y.intent = x.intent /\ y.old = FALSE
               /\ y.result = a /\ y.rows = 0
    BY <2>2
  <2>. QED
    BY <2>1, <2>2 DEF CommittedRow, Wilbur!Request
<1>. HIDE DEF new
<1>2. new # None /\ ClaimSound(new)
  BY <1>1, WilburAssumption DEF ClaimSound
<1>. QED
  BY <1>1, <1>2 DEF new

LEMMA RemoveCounts ==
  ASSUME NEW S, IsFiniteSet(S), NEW x
  PROVE  Cardinality(S \ {x}) = Cardinality(S) - (IF x \in S THEN 1 ELSE 0)
<1>1. Cardinality(S) \in Nat
  BY FS_CardinalityType
<1>2. Cardinality(S \ {x}) = IF x \in S THEN Cardinality(S) - 1 ELSE Cardinality(S)
  BY FS_RemoveElement
<1>. QED
  BY <1>1, <1>2

(* A commit moves its key from the awake to the done.                      *)
LEMMA CommitTables ==
  ASSUME WilburInv, NEW k \in Keys, IsPending(wilburRequests[k]), wilburRequests[k].old = FALSE,
         NEW result \in Wilbur!Action \cup {None}
  PROVE  LET new == Committing(k, result) IN
         /\ new \in WilburRows /\ \A x \in Keys : ClaimSound(new[x])
         /\ new[k].intent = wilburRequests[k].intent /\ new[k].result = result
         /\ \A x \in Keys : x # k => new[x] = wilburRequests[x]
         /\ Filed(new) = Filed(wilburRequests)
         /\ Done(new) = Done(wilburRequests) \cup {k} /\ k \notin Done(wilburRequests)
         /\ k \in Awake(wilburRequests) /\ k \in Waiting(wilburRequests)
         /\ Awake(new) = Awake(wilburRequests) \ {k}
         /\ Waiting(new) = Waiting(wilburRequests) \ {k}
         /\ Heavy(new, Awake(new)) = Heavy(wilburRequests, Awake(wilburRequests)) \ {k}
         /\ Heavy(new, Waiting(new)) = Heavy(wilburRequests, Waiting(wilburRequests)) \ {k}
         /\ \A acts : (\A s \in Suggestions : wilburActions[s] # None => acts[s] # None)
              => Persists(wilburRequests, wilburActions, new, acts)
<1>. DEFINE row == CommittedRow(wilburRequests[k], result)
            new == Committing(k, result)
<1>0. new = [wilburRequests EXCEPT ![k] = row]
  BY DEF Committing
<1>1. /\ wilburRequests[k] \in Wilbur!Request /\ wilburRequests[k] # None
      /\ wilburRequests[k].status = "pending"
      /\ wilburRequests \in [Keys -> Wilbur!Request \cup {None}]
  BY RowHolds DEF IsPending, WilburInv, WilburTyped
<1>2. /\ row \in Wilbur!Request /\ row # None /\ ClaimSound(row)
      /\ row.status = "committed" /\ row.intent = wilburRequests[k].intent /\ row.old = FALSE
      /\ row.result = result
  BY <1>1, CommittedRowIs
<1>. HIDE DEF row
<1>3. new \in WilburRows /\ new[k] = row /\ \A x \in Keys : x # k => new[x] = wilburRequests[x]
  BY <1>0, <1>1, <1>2 DEF WilburRows
<1>. HIDE DEF new
<1>4. \A x \in Keys : ClaimSound(new[x])
  BY <1>2, <1>3 DEF WilburInv
<1>5. Filed(new) = Filed(wilburRequests)
  BY <1>1, <1>2, <1>3 DEF Filed
<1>6. Done(new) = Done(wilburRequests) \cup {k} /\ k \notin Done(wilburRequests)
  <2>1. IsCommitted(row) /\ ~IsCommitted(wilburRequests[k])
    BY <1>1, <1>2 DEF IsCommitted
  <2>. QED
    BY <1>3, <2>1 DEF Done
<1>7. /\ k \in Awake(wilburRequests) /\ k \in Waiting(wilburRequests)
      /\ Awake(new) = Awake(wilburRequests) \ {k}
      /\ Waiting(new) = Waiting(wilburRequests) \ {k}
  <2>1. ~IsPending(row)
    BY <1>2 DEF IsPending
  <2>. QED
    BY <1>3, <2>1 DEF Awake, Waiting
<1>8. /\ Heavy(new, Awake(new)) = Heavy(wilburRequests, Awake(wilburRequests)) \ {k}
      /\ Heavy(new, Waiting(new)) = Heavy(wilburRequests, Waiting(wilburRequests)) \ {k}
  <2>1. \A x \in Waiting(wilburRequests) : x \in Keys
    BY DEF Waiting
  <2>2. \A x \in Awake(wilburRequests) : x \in Keys
    BY DEF Awake
  <2>. QED
    BY <1>3, <1>7, <2>1, <2>2 DEF Heavy
<1>9. ASSUME NEW acts, \A s \in Suggestions : wilburActions[s] # None => acts[s] # None
      PROVE  Persists(wilburRequests, wilburActions, new, acts)
  BY <1>1, <1>2, <1>3, <1>9 DEF Persists
<1>. QED
  BY <1>2, <1>3, <1>4, <1>5, <1>6, <1>7, <1>8, <1>9 DEF new

(* What a write makes of the tables, when it stores no more than its claim *)
(* reserved.                                                               *)
Commits(h, result, acts, obs) ==
  /\ Wilbur!Commit(h, result)
  /\ wilburActions' = acts /\ wilburObserved' = obs
  /\ wilburRate' = wilburRate /\ wilburCrashes' = wilburCrashes
  /\ wilburRun' \in Wilbur!Executable

WithinClaim(i, acts, obs) ==
  Cardinality(Bound(acts)) + Cardinality(obs) <=
    Cardinality(Bound(wilburActions)) + Cardinality(wilburObserved)
      + (IF i.op = "update_action" THEN 0 ELSE 1)

LEMMA CommitStep ==
  ASSUME WilburInv, NEW h \in Routes, wilburHandler[h].step = "write", Wilbur!Writable(h),
         NEW result \in Wilbur!Action \cup {None},
         NEW acts \in [Suggestions -> Wilbur!Action \cup {None}], NEW obs \in SUBSET Keys,
         \A s \in Suggestions : wilburActions[s] # None => acts[s] # None,
         Commits(h, result, acts, obs), WithinClaim(wilburHandler[h].intent, acts, obs),
         LET k == wilburHandler[h].key IN
         StoredIsDone(Committing(k, result), acts, obs, wilburEvents + 1)
  PROVE  WilburInv'
<1>. DEFINE k == wilburHandler[h].key
            i == wilburHandler[h].intent
            new == Committing(k, result)
            later == [wilburHandler EXCEPT ![h] = Wilbur!Idle]
<1>1. k \in Keys /\ wilburRequests[k] # None /\ wilburRequests[k].old = FALSE
  BY KnowsHere DEF KnowsTables
<1>2. IsPending(wilburRequests[k]) /\ wilburRequests[k].intent = i
  BY <1>1 DEF Wilbur!Writable, IsPending
<1>3. /\ new \in WilburRows /\ \A x \in Keys : ClaimSound(new[x])
      /\ new[k].intent = wilburRequests[k].intent /\ new[k].result = result
      /\ \A x \in Keys : x # k => new[x] = wilburRequests[x]
      /\ Filed(new) = Filed(wilburRequests)
      /\ Done(new) = Done(wilburRequests) \cup {k} /\ k \notin Done(wilburRequests)
      /\ k \in Awake(wilburRequests) /\ k \in Waiting(wilburRequests)
      /\ Awake(new) = Awake(wilburRequests) \ {k}
      /\ Waiting(new) = Waiting(wilburRequests) \ {k}
      /\ Heavy(new, Awake(new)) = Heavy(wilburRequests, Awake(wilburRequests)) \ {k}
      /\ Heavy(new, Waiting(new)) = Heavy(wilburRequests, Waiting(wilburRequests)) \ {k}
      /\ Persists(wilburRequests, wilburActions, new, acts)
  BY <1>1, <1>2, CommitTables
<1>4. /\ wilburRequests' = new /\ wilburEvents' = wilburEvents + 1
      /\ wilburReplies' = wilburReplies \cup {<<k, result>>}
      /\ wilburHandler' = later
  <2>1. wilburRequests \in [Keys -> Wilbur!Request \cup {None}]
    BY DEF WilburInv, WilburTyped
  <2>2. new = [wilburRequests EXCEPT ![k].status = "committed", ![k].rows = 0, ![k].text = 0,
                                     ![k].result = result, ![k].old = FALSE]
    BY <1>1, <2>1 DEF Committing, CommittedRow
  <2>3. Wilbur!Commit(h, result)
    BY DEF Commits
  <2>. QED
    BY <2>2, <2>3 DEF Wilbur!Commit, Wilbur!Finish
<1>5. StoredIsDone(new, acts, obs, wilburEvents + 1)
  BY DEF new
<1>6. Leaves(h, Wilbur!Idle, new, acts, obs, wilburEvents + 1)
  BY <1>4 DEF Leaves, Commits
<1>7. RateGoes /\ CrashesGo
  BY WilburRestsThere DEF Commits
<1>8. Cardinality(Heavy(wilburRequests, Awake(wilburRequests)) \ {k}) =
        Cardinality(Heavy(wilburRequests, Awake(wilburRequests)))
          - (IF i.op = "update_action" THEN 0 ELSE 1)
  <2>1. k \in Heavy(wilburRequests, Awake(wilburRequests)) <=> i.op # "update_action"
    BY <1>2, <1>3 DEF Heavy
  <2>2. IsFiniteSet(Heavy(wilburRequests, Awake(wilburRequests)))
    BY TableSets, CountedSets
  <2>. QED
    BY <2>1, <2>2, RemoveCounts
<1>9. Cardinality(Heavy(wilburRequests, Waiting(wilburRequests)) \ {k}) =
        Cardinality(Heavy(wilburRequests, Waiting(wilburRequests)))
          - (IF i.op = "update_action" THEN 0 ELSE 1)
  <2>1. k \in Heavy(wilburRequests, Waiting(wilburRequests)) <=> i.op # "update_action"
    BY <1>2, <1>3 DEF Heavy
  <2>2. IsFiniteSet(Heavy(wilburRequests, Waiting(wilburRequests)))
    BY TableSets, CountedSets
  <2>. QED
    BY <2>1, <2>2, RemoveCounts
<1>10. /\ Cardinality(Awake(wilburRequests) \ {k}) = Cardinality(Awake(wilburRequests)) - 1
       /\ Cardinality(Waiting(wilburRequests) \ {k}) = Cardinality(Waiting(wilburRequests)) - 1
  <2>1. IsFiniteSet(Awake(wilburRequests)) /\ IsFiniteSet(Waiting(wilburRequests))
    BY TableSets, CountedSets
  <2>2. k \in Awake(wilburRequests) /\ k \in Waiting(wilburRequests)
    BY <1>3
  <2>. QED
    BY <2>1, <2>2, RemoveCounts
<1>11. Cardinality(Bound(acts)) \in Nat /\ Cardinality(obs) \in Nat
  <2>1. Bound(acts) \in SUBSET Suggestions
    BY DEF Bound
  <2>. QED
    BY <2>1, CountedSets
<1>12. /\ Load(new, acts, obs, wilburEvents + 1, Awake(new)) <=
            Load(wilburRequests, wilburActions, wilburObserved, wilburEvents,
                 Awake(wilburRequests))
       /\ Load(new, acts, obs, wilburEvents + 1, Waiting(new)) <=
            Load(wilburRequests, wilburActions, wilburObserved, wilburEvents,
                 Waiting(wilburRequests))
       /\ Load(new, acts, obs, wilburEvents + 1, Awake(new)) \in Int
       /\ Load(new, acts, obs, wilburEvents + 1, Waiting(new)) \in Int
  <2>. DEFINE more == IF i.op = "update_action" THEN 0 ELSE 1
  <2>1. /\ Cardinality(Filed(new)) = Cardinality(Filed(wilburRequests))
        /\ Cardinality(Awake(new)) = Cardinality(Awake(wilburRequests)) - 1
        /\ Cardinality(Waiting(new)) = Cardinality(Waiting(wilburRequests)) - 1
    BY <1>3, <1>10
  <2>2. Cardinality(Heavy(new, Awake(new))) =
          Cardinality(Heavy(wilburRequests, Awake(wilburRequests))) - more
    BY <1>3, <1>8
  <2>3. Cardinality(Heavy(new, Waiting(new))) =
          Cardinality(Heavy(wilburRequests, Waiting(wilburRequests))) - more
    BY <1>3, <1>9
  <2>4. Cardinality(Bound(acts)) + Cardinality(obs) <=
          Cardinality(Bound(wilburActions)) + Cardinality(wilburObserved) + more
    BY DEF WithinClaim
  <2>5. more \in Int
    OBVIOUS
  <2>. HIDE DEF more
  <2>. QED
    BY <1>11, <2>1, <2>2, <2>3, <2>4, <2>5, LoadCounts DEF Load
<1>13. /\ Load(wilburRequests, wilburActions, wilburObserved, wilburEvents,
               Awake(wilburRequests)) \in Int
       /\ Load(wilburRequests, wilburActions, wilburObserved, wilburEvents,
               Waiting(wilburRequests)) \in Int
  BY LoadCounts DEF Load
<1>14. RoomForNow(new, acts, obs, wilburEvents + 1)
  <2>1. RoomForNow(wilburRequests, wilburActions, wilburObserved, wilburEvents)
    BY DEF WilburInv
  <2>. QED
    BY <1>12, <1>13, <2>1, LoadCounts DEF RoomForNow
<1>15. RoomForAll(new, acts, obs, wilburEvents + 1, later)
  <2>1. RoomForAll(wilburRequests, wilburActions, wilburObserved, wilburEvents, wilburHandler)
    BY DEF WilburInv
  <2>2. wilburHandler \in [Routes -> Wilbur!Task \cup {Wilbur!Idle}]
    BY DEF WilburInv, WilburTyped
  <2>3. ~MayAdd(Wilbur!Idle)
    BY IdleKnows
  <2>4. /\ Adding(later) = Adding(wilburHandler) \ {h}
        /\ AddingMore(later) = AddingMore(wilburHandler) \ {h}
    BY <2>2, <2>3, AddingLeaves
  <2>. HIDE DEF later
  <2>5. /\ Cardinality(Adding(later)) <= Cardinality(Adding(wilburHandler))
        /\ Cardinality(AddingMore(later)) <= Cardinality(AddingMore(wilburHandler))
    <3>1. /\ Adding(later) \in SUBSET Adding(wilburHandler)
          /\ AddingMore(later) \in SUBSET AddingMore(wilburHandler)
      BY <2>4
    <3>2. /\ Adding(wilburHandler) \in SUBSET Routes
          /\ AddingMore(wilburHandler) \in SUBSET Routes
      BY AddingCounts
    <3>. QED
      BY <3>1, <3>2, CountedSets
  <2>6. /\ Cardinality(Adding(later)) \in Nat /\ Cardinality(AddingMore(later)) \in Nat
        /\ Cardinality(Adding(wilburHandler)) \in Nat
        /\ Cardinality(AddingMore(wilburHandler)) \in Nat
    BY AddingCounts
  <2>. QED
    BY <1>12, <1>13, <2>1, <2>5, <2>6, LoadCounts DEF RoomForAll
<1>16. /\ ToldIsDone(new, wilburReplies')
       /\ wilburReplies' \subseteq Keys \X (Wilbur!Action \cup {None})
  <2>1. ToldIsDone(wilburRequests, wilburReplies)
    BY DEF WilburInv
  <2>2. \A x \in Done(wilburRequests) : x \in Done(new) /\ new[x] = wilburRequests[x]
    BY <1>3 DEF Done
  <2>3. ToldIsDone(new, wilburReplies)
    BY <2>1, <2>2 DEF ToldIsDone
  <2>4. ToldIsDone(new, {<<k, result>>})
    BY <1>3 DEF ToldIsDone
  <2>5. ToldIsDone(new, wilburReplies')
    BY <1>4, <2>3, <2>4 DEF ToldIsDone
  <2>6. wilburReplies \subseteq Keys \X (Wilbur!Action \cup {None})
    BY DEF WilburInv, WilburTyped
  <2>. QED
    BY <1>1, <1>4, <2>5, <2>6
<1>17. TablesSound(new, acts, obs, wilburEvents + 1)
  <2>1. wilburEvents + 1 \in Nat /\ wilburRun' \in Wilbur!Executable
    BY LoadCounts DEF Commits
  <2>. QED
    BY <1>3, <1>5, <1>14, <1>16, <2>1 DEF TablesSound
<1>18. Wilbur!Idle \in Wilbur!Task \cup {Wilbur!Idle} /\ KnowsTables(Wilbur!Idle, new, acts)
  BY IdleKnows
<1>. QED
  BY <1>3, <1>6, <1>7, <1>15, <1>17, <1>18, WilburStands

(* What the commit of k adds to the done, operation by operation.          *)
Adds(new, k, i) ==
  /\ \A op : DoneBy(new, op) = IF i.op = op THEN DoneBy(wilburRequests, op) \cup {k}
                               ELSE DoneBy(wilburRequests, op)
  /\ \A s : Updates(new, s) = IF i.op = "update_action" /\ i.on = s
                              THEN Updates(wilburRequests, s) \cup {k}
                              ELSE Updates(wilburRequests, s)
  /\ \A op : k \notin DoneBy(wilburRequests, op)
  /\ \A s : k \notin Updates(wilburRequests, s)
  /\ Cardinality(Done(new)) = wilburEvents + 1
  /\ \A x \in DoneBy(wilburRequests, "update_action") : new[x] = wilburRequests[x]
  /\ new[k].intent = i

LEMMA CommitAdds ==
  ASSUME WilburInv, NEW k \in Keys, IsPending(wilburRequests[k]), wilburRequests[k].old = FALSE,
         NEW result \in Wilbur!Action \cup {None}, NEW i, wilburRequests[k].intent = i
  PROVE  Adds(Committing(k, result), k, i)
<1>. DEFINE new == Committing(k, result)
<1>1. /\ new[k].intent = i
      /\ \A x \in Keys : x # k => new[x] = wilburRequests[x]
      /\ Done(new) = Done(wilburRequests) \cup {k} /\ k \notin Done(wilburRequests)
  BY CommitTables
<1>. HIDE DEF new
<1>2. \A x \in Done(wilburRequests) : x # k /\ new[x] = wilburRequests[x]
  BY <1>1 DEF Done
<1>3. \A op : DoneBy(new, op) = IF i.op = op THEN DoneBy(wilburRequests, op) \cup {k}
                                ELSE DoneBy(wilburRequests, op)
  BY <1>1, <1>2 DEF DoneBy
<1>4. \A s : Updates(new, s) = IF i.op = "update_action" /\ i.on = s
                               THEN Updates(wilburRequests, s) \cup {k}
                               ELSE Updates(wilburRequests, s)
  <2>1. \A x \in DoneBy(wilburRequests, "update_action") : x # k /\ new[x] = wilburRequests[x]
    BY <1>2 DEF DoneBy
  <2>2. CASE i.op = "update_action"
    <3>1. DoneBy(new, "update_action") = DoneBy(wilburRequests, "update_action") \cup {k}
      BY <1>3, <2>2
    <3>. QED
      BY <1>1, <2>1, <2>2, <3>1 DEF Updates
  <2>3. CASE i.op # "update_action"
    <3>1. DoneBy(new, "update_action") = DoneBy(wilburRequests, "update_action")
      BY <1>3, <2>3
    <3>. QED
      BY <2>1, <2>3, <3>1 DEF Updates
  <2>. QED
    BY <2>2, <2>3
<1>5. /\ \A op : k \notin DoneBy(wilburRequests, op)
      /\ \A s : k \notin Updates(wilburRequests, s)
  BY <1>1 DEF DoneBy, Updates
<1>6. Cardinality(Done(new)) = wilburEvents + 1
  <2>1. wilburEvents = Cardinality(Done(wilburRequests))
    BY DEF WilburInv, StoredIsDone
  <2>2. IsFiniteSet(Done(wilburRequests))
    BY TableSets, CountedSets
  <2>. QED
    BY <1>1, <2>1, <2>2, FS_AddElement
<1>. QED
  BY <1>1, <1>2, <1>3, <1>4, <1>5, <1>6 DEF DoneBy, new, Adds

(* What a handler that writes knows of its request.                        *)
LEMMA WriterKnows ==
  ASSUME WilburInv, NEW h \in Routes, wilburHandler[h].step = "write", Wilbur!Writable(h)
  PROVE  LET k == wilburHandler[h].key
             i == wilburHandler[h].intent
         IN
         /\ k \in Keys /\ IsPending(wilburRequests[k]) /\ wilburRequests[k].old = FALSE
         /\ wilburRequests[k].intent = i /\ i \in Wilbur!Intent /\ i.on \in Suggestions
         /\ i.op # "create_action" => wilburActions[i.on] # None
<1>1. /\ wilburHandler[h].key \in Keys /\ wilburHandler[h].intent \in Intents
      /\ wilburRequests[wilburHandler[h].key] # None
      /\ wilburRequests[wilburHandler[h].key].old = FALSE
      /\ wilburHandler[h].intent.op # "create_action"
           => wilburActions[wilburHandler[h].intent.on] # None
  BY KnowsHere DEF KnowsTables
<1>2. wilburHandler[h].intent \in Wilbur!Intent /\ wilburHandler[h].intent.on \in Suggestions
  BY <1>1, WilburAssumption DEF Wilbur!Intent
<1>. QED
  BY <1>1, <1>2 DEF Wilbur!Writable, IsPending

(* An action is created where there was none.                              *)
LEMMA CreateStep ==
  ASSUME WilburInv, NEW h \in Routes, Wilbur!Create(h)
  PROVE  WilburInv'
<1>. DEFINE k == wilburHandler[h].key
            i == wilburHandler[h].intent
            s == i.on
            action == [revision |-> 0, status |-> "planned"]
            acts == [wilburActions EXCEPT ![s] = action]
            new == Committing(k, action)
<1>1. /\ wilburHandler[h].step = "write" /\ i.op = "create_action" /\ Wilbur!Writable(h)
      /\ wilburActions[s] = None
  BY DEF Wilbur!Create, Wilbur!Step
<1>2. /\ k \in Keys /\ IsPending(wilburRequests[k]) /\ wilburRequests[k].old = FALSE
      /\ wilburRequests[k].intent = i /\ s \in Suggestions
  BY <1>1, WriterKnows
<1>3. action \in Wilbur!Action /\ action # None /\ action.revision = 0
  <2>1. action \in Wilbur!Action /\ action.revision = 0
    BY DEF Wilbur!Action, Wilbur!Statuses
  <2>. HIDE DEF action
  <2>. QED
    BY <2>1, WilburAssumption
<1>4. Commits(h, action, acts, wilburObserved)
  <2>1. wilburRun' \in Wilbur!Executable
    BY DEF Wilbur!Create, Wilbur!Executable, WilburInv, WilburTyped
  <2>. QED
    BY <2>1 DEF Wilbur!Create, Commits
<1>5. /\ wilburActions \in [Suggestions -> Wilbur!Action \cup {None}]
      /\ wilburObserved \in SUBSET Keys
      /\ StoredIsDone(wilburRequests, wilburActions, wilburObserved, wilburEvents)
  BY DEF WilburInv, WilburTyped
<1>. HIDE DEF action
<1>6. /\ acts \in [Suggestions -> Wilbur!Action \cup {None}] /\ acts[s] = action
      /\ \A x \in Suggestions : x # s => acts[x] = wilburActions[x]
  BY <1>2, <1>3, <1>5
<1>. HIDE DEF acts
<1>7. Bound(acts) = Bound(wilburActions) \cup {s} /\ s \notin Bound(wilburActions)
  BY <1>1, <1>2, <1>3, <1>6 DEF Bound
<1>8. Cardinality(Bound(acts)) = Cardinality(Bound(wilburActions)) + 1
  <2>1. Bound(wilburActions) \in SUBSET Suggestions
    BY DEF Bound
  <2>2. IsFiniteSet(Bound(wilburActions))
    BY <2>1, CountedSets
  <2>. QED
    BY <1>7, <2>2, FS_AddElement
<1>9. Adds(new, k, i)
  BY <1>2, <1>3, CommitAdds
<1>. HIDE DEF new
<1>10. StoredIsDone(new, acts, wilburObserved, wilburEvents + 1)
  <2>1. Cardinality(Bound(acts)) = Cardinality(DoneBy(new, "create_action"))
    <3>1. /\ DoneBy(new, "create_action") = DoneBy(wilburRequests, "create_action") \cup {k}
          /\ k \notin DoneBy(wilburRequests, "create_action")
          /\ IsFiniteSet(DoneBy(wilburRequests, "create_action"))
      BY <1>1, <1>9, TableSets, CountedSets DEF Adds
    <3>2. Cardinality(DoneBy(new, "create_action")) =
            Cardinality(DoneBy(wilburRequests, "create_action")) + 1
      BY <3>1, FS_AddElement
    <3>. QED
      BY <1>5, <1>8, <3>2 DEF StoredIsDone, Adds
  <2>2. \A x \in Bound(acts) : acts[x].revision = Cardinality(Updates(new, x))
    <3>1. \A x : Updates(new, x) = Updates(wilburRequests, x)
      BY <1>1, <1>9 DEF Adds
    <3>2. Updates(wilburRequests, s) = {}
      BY <1>5, <1>7 DEF StoredIsDone, Updates, Adds
    <3>3. Cardinality({}) = 0
      BY FS_EmptySet
    <3>4. \A x \in Bound(wilburActions) : x \in Suggestions /\ x # s
      BY <1>7 DEF Bound
    <3>5. \A x \in Bound(wilburActions) : acts[x].revision = Cardinality(Updates(new, x))
      BY <1>5, <1>6, <3>1, <3>4 DEF StoredIsDone, Adds
    <3>6. acts[s].revision = Cardinality(Updates(new, s))
      BY <1>3, <1>6, <3>1, <3>2, <3>3
    <3>. QED
      BY <1>7, <3>5, <3>6
  <2>3. \A x \in DoneBy(new, "update_action") : new[x].intent.on \in Bound(acts)
    BY <1>1, <1>5, <1>7, <1>9 DEF StoredIsDone, Adds
  <2>4. wilburObserved = DoneBy(new, "append_observation")
    BY <1>1, <1>5, <1>9 DEF StoredIsDone, Adds
  <2>. QED
    BY <1>9, <2>1, <2>2, <2>3, <2>4 DEF StoredIsDone, Adds
<1>11. WithinClaim(i, acts, wilburObserved)
  BY <1>1, <1>8, LoadCounts DEF WithinClaim
<1>12. \A x \in Suggestions : wilburActions[x] # None => acts[x] # None
  BY <1>1, <1>6
<1>. QED
  BY <1>1, <1>3, <1>4, <1>5, <1>6, <1>10, <1>11, <1>12, CommitStep DEF new

(* An action moves by one revision, that of the request.                   *)
LEMMA UpdateStep ==
  ASSUME WilburInv, NEW h \in Routes, Wilbur!Update(h)
  PROVE  WilburInv'
<1>. DEFINE k == wilburHandler[h].key
            i == wilburHandler[h].intent
            s == i.on
            action == [revision |-> wilburActions[s].revision + 1, status |-> i.status]
            acts == [wilburActions EXCEPT ![s] = action]
            new == Committing(k, action)
<1>1. wilburHandler[h].step = "write" /\ i.op = "update_action" /\ Wilbur!Writable(h)
  BY DEF Wilbur!Update, Wilbur!Step
<1>2. /\ k \in Keys /\ IsPending(wilburRequests[k]) /\ wilburRequests[k].old = FALSE
      /\ wilburRequests[k].intent = i /\ s \in Suggestions /\ i \in Wilbur!Intent
      /\ wilburActions[s] # None
  BY <1>1, WriterKnows
<1>3. /\ wilburActions \in [Suggestions -> Wilbur!Action \cup {None}]
      /\ wilburObserved \in SUBSET Keys
      /\ StoredIsDone(wilburRequests, wilburActions, wilburObserved, wilburEvents)
  BY DEF WilburInv, WilburTyped
<1>4. wilburActions[s].revision \in Nat /\ i.status \in Wilbur!Statuses
  BY <1>2, <1>3 DEF Wilbur!Action, Wilbur!Intent
<1>5. /\ action \in Wilbur!Action /\ action # None
      /\ action.revision = wilburActions[s].revision + 1
  <2>1. action \in Wilbur!Action /\ action.revision = wilburActions[s].revision + 1
    BY <1>4 DEF Wilbur!Action
  <2>. HIDE DEF action
  <2>. QED
    BY <2>1, WilburAssumption
<1>6. Commits(h, action, acts, wilburObserved)
  <2>1. wilburRun' \in Wilbur!Executable
    BY DEF Wilbur!Update, Wilbur!Executable, WilburInv, WilburTyped
  <2>. QED
    BY <2>1 DEF Wilbur!Update, Commits
<1>. HIDE DEF action
<1>7. /\ acts \in [Suggestions -> Wilbur!Action \cup {None}] /\ acts[s] = action
      /\ \A x \in Suggestions : x # s => acts[x] = wilburActions[x]
  BY <1>2, <1>3, <1>5
<1>. HIDE DEF acts
<1>8. Bound(acts) = Bound(wilburActions) /\ s \in Bound(acts)
  BY <1>2, <1>5, <1>7 DEF Bound
<1>9. Adds(new, k, i)
  BY <1>2, <1>5, CommitAdds
<1>. HIDE DEF new
<1>10. StoredIsDone(new, acts, wilburObserved, wilburEvents + 1)
  <2>1. Cardinality(Bound(acts)) = Cardinality(DoneBy(new, "create_action"))
    BY <1>1, <1>3, <1>8, <1>9 DEF StoredIsDone, Adds
  <2>2. \A x \in Bound(acts) : acts[x].revision = Cardinality(Updates(new, x))
    <3>1. \A x \in Bound(acts) : x # s => acts[x].revision = Cardinality(Updates(new, x))
      <4>1. \A x \in Bound(acts) : x \in Suggestions /\ x \in Bound(wilburActions)
        BY <1>8 DEF Bound
      <4>. QED
        BY <1>3, <1>7, <1>9, <4>1 DEF StoredIsDone, Adds
    <3>2. Updates(new, s) = Updates(wilburRequests, s) \cup {k} /\ k \notin Updates(wilburRequests, s)
      BY <1>1, <1>9 DEF Adds
    <3>3. IsFiniteSet(Updates(wilburRequests, s))
      BY TableSets, CountedSets
    <3>4. Cardinality(Updates(new, s)) = Cardinality(Updates(wilburRequests, s)) + 1
      BY <3>2, <3>3, FS_AddElement
    <3>5. wilburActions[s].revision = Cardinality(Updates(wilburRequests, s))
      BY <1>3, <1>8 DEF StoredIsDone, Adds
    <3>. QED
      BY <1>5, <1>7, <3>1, <3>4, <3>5
  <2>3. \A x \in DoneBy(new, "update_action") : new[x].intent.on \in Bound(acts)
    BY <1>3, <1>8, <1>9 DEF StoredIsDone, Adds
  <2>4. wilburObserved = DoneBy(new, "append_observation")
    BY <1>1, <1>3, <1>9 DEF StoredIsDone, Adds
  <2>. QED
    BY <1>9, <2>1, <2>2, <2>3, <2>4 DEF StoredIsDone, Adds
<1>11. WithinClaim(i, acts, wilburObserved)
  BY <1>1, <1>8, LoadCounts DEF WithinClaim
<1>12. \A x \in Suggestions : wilburActions[x] # None => acts[x] # None
  BY <1>5, <1>7
<1>. QED
  BY <1>1, <1>3, <1>5, <1>6, <1>7, <1>10, <1>11, <1>12, CommitStep DEF new

(* An observation is appended under the key of its request.                *)
LEMMA ObserveStep ==
  ASSUME WilburInv, NEW h \in Routes, Wilbur!Observe(h)
  PROVE  WilburInv'
<1>. DEFINE k == wilburHandler[h].key
            i == wilburHandler[h].intent
            obs == wilburObserved \cup {k}
            new == Committing(k, None)
<1>1. wilburHandler[h].step = "write" /\ i.op = "append_observation" /\ Wilbur!Writable(h)
  BY DEF Wilbur!Observe, Wilbur!Step
<1>2. /\ k \in Keys /\ IsPending(wilburRequests[k]) /\ wilburRequests[k].old = FALSE
      /\ wilburRequests[k].intent = i
  BY <1>1, WriterKnows
<1>3. /\ wilburActions \in [Suggestions -> Wilbur!Action \cup {None}]
      /\ wilburObserved \in SUBSET Keys
      /\ StoredIsDone(wilburRequests, wilburActions, wilburObserved, wilburEvents)
  BY DEF WilburInv, WilburTyped
<1>4. Commits(h, None, wilburActions, obs)
  BY DEF Wilbur!Observe, Wilbur!Executable, Commits
<1>5. Adds(new, k, i)
  BY <1>2, CommitAdds
<1>. HIDE DEF new
<1>6. StoredIsDone(new, wilburActions, obs, wilburEvents + 1)
  <2>1. /\ DoneBy(new, "create_action") = DoneBy(wilburRequests, "create_action")
        /\ DoneBy(new, "update_action") = DoneBy(wilburRequests, "update_action")
        /\ DoneBy(new, "append_observation") = DoneBy(wilburRequests, "append_observation") \cup {k}
        /\ \A x : Updates(new, x) = Updates(wilburRequests, x)
    BY <1>1, <1>5 DEF Adds
  <2>. QED
    BY <1>3, <1>5, <2>1 DEF StoredIsDone, Adds
<1>7. WithinClaim(i, wilburActions, obs)
  <2>1. k \notin wilburObserved
    BY <1>3, <1>5 DEF StoredIsDone, Adds
  <2>2. IsFiniteSet(wilburObserved)
    BY <1>3, CountedSets
  <2>3. Cardinality(obs) = Cardinality(wilburObserved) + 1
    BY <2>1, <2>2, FS_AddElement
  <2>. QED
    BY <1>1, <2>3, LoadCounts DEF WithinClaim
<1>8. obs \in SUBSET Keys
  BY <1>2, <1>3
<1>. HIDE DEF obs
<1>. QED
  BY <1>1, <1>3, <1>4, <1>6, <1>7, <1>8, CommitStep DEF new

-----------------------------------------------------------------------------
(* Time.                                                                   *)

(* The hour's buckets are empty again.                                     *)
LEMMA NewHourStep ==
  ASSUME WilburInv, Wilbur!NewHour
  PROVE  WilburInv'
<1>1. /\ wilburRate' \in [Wilbur!Kinds -> [user : Nat, ip : Nat]]
      /\ \A kind \in Wilbur!Kinds : wilburRate'[kind].user = 0 /\ wilburRate'[kind].ip = 0
  BY DEF Wilbur!NewHour
<1>2. Spared(wilburRate')
  BY <1>1, WilburAssumption DEF Spared
<1>3. /\ UNCHANGED <<wilburRun, wilburActions, wilburObserved, wilburEvents>>
      /\ UNCHANGED <<wilburRequests, wilburHandler, wilburReplies, wilburCrashes>>
  BY DEF Wilbur!NewHour, Wilbur!artifacts
<1>. QED
  BY <1>1, <1>2, <1>3 DEF WilburInv, WilburTyped

(* A claim grows old: it wakes no more, and no handler is at work on it.   *)
LEMMA AgedTables ==
  ASSUME WilburInv, NEW k \in Keys, IsPending(wilburRequests[k]), wilburRequests[k].old = FALSE,
         NEW new, new = [wilburRequests EXCEPT ![k].old = TRUE]
  PROVE  /\ new \in WilburRows /\ \A x \in Keys : ClaimSound(new[x])
         /\ \A x \in Keys : x # k => new[x] = wilburRequests[x]
         /\ Filed(new) = Filed(wilburRequests) /\ Done(new) = Done(wilburRequests)
         /\ \A x \in Done(wilburRequests) : new[x] = wilburRequests[x]
         /\ Waiting(new) = Waiting(wilburRequests)
         /\ Awake(new) \in SUBSET Awake(wilburRequests)
         /\ Heavy(new, Waiting(new)) = Heavy(wilburRequests, Waiting(wilburRequests))
         /\ Heavy(new, Awake(new)) \subseteq Heavy(wilburRequests, Awake(wilburRequests))
<1>. DEFINE row == [wilburRequests[k] EXCEPT !.old = TRUE]
<1>1. /\ wilburRequests[k] \in Wilbur!Request /\ wilburRequests[k] # None
      /\ wilburRequests[k].status = "pending" /\ ClaimSound(wilburRequests[k])
      /\ wilburRequests \in [Keys -> Wilbur!Request \cup {None}]
  BY RowHolds DEF IsPending, WilburInv, WilburTyped
<1>2. /\ row \in Wilbur!Request /\ row.status = "pending" /\ row.old = TRUE
      /\ row.intent = wilburRequests[k].intent /\ row.rows = wilburRequests[k].rows
  <2>1. ASSUME NEW I, NEW St, NEW B, NEW R, NEW T, NEW A, TRUE \in B,
               NEW x \in [intent : I, status : St, admitted : B, old : B, rows : R, text : T,
                         result : A]
        PROVE  LET y == [x EXCEPT !.old = TRUE] IN
               /\ y \in [intent : I, status : St, admitted : B, old : B, rows : R, text : T,
                        result : A]
               /\ y.status = x.status /\ y.old = TRUE /\ y.intent = x.intent /\ y.rows = x.rows
    BY <2>1
  <2>. QED
    BY <1>1, <2>1 DEF Wilbur!Request
<1>3. new = [wilburRequests EXCEPT ![k] = row]
  BY <1>1
<1>. HIDE DEF row
<1>4. row # None
  BY <1>2, WilburAssumption
<1>5. new \in WilburRows /\ new[k] = row /\ \A x \in Keys : x # k => new[x] = wilburRequests[x]
  BY <1>1, <1>2, <1>3 DEF WilburRows
<1>6. ClaimSound(row)
  BY <1>1, <1>2, <1>4 DEF ClaimSound
<1>7. \A x \in Keys : ClaimSound(new[x])
  BY <1>5, <1>6 DEF WilburInv
<1>8. /\ IsPending(row) /\ ~IsCommitted(row) /\ ~IsCommitted(wilburRequests[k])
  BY <1>1, <1>2, <1>4 DEF IsPending, IsCommitted
<1>9. /\ Filed(new) = Filed(wilburRequests) /\ Done(new) = Done(wilburRequests)
      /\ Waiting(new) = Waiting(wilburRequests)
  BY <1>1, <1>4, <1>5, <1>8 DEF Filed, Done, Waiting
<1>10. \A x \in Done(wilburRequests) : new[x] = wilburRequests[x]
  BY <1>5, <1>8 DEF Done
<1>11. Awake(new) \in SUBSET Awake(wilburRequests)
  BY <1>5, <1>8 DEF Awake
<1>12. \A x \in Keys : new[x].intent = wilburRequests[x].intent
  BY <1>2, <1>5
<1>13. /\ Heavy(new, Waiting(new)) = Heavy(wilburRequests, Waiting(wilburRequests))
       /\ Heavy(new, Awake(new)) \subseteq Heavy(wilburRequests, Awake(wilburRequests))
  <2>1. Waiting(wilburRequests) \in SUBSET Keys /\ Awake(wilburRequests) \in SUBSET Keys
    BY TableSets
  <2>. QED
    BY <1>9, <1>11, <1>12, <2>1 DEF Heavy
<1>. QED
  BY <1>5, <1>7, <1>9, <1>10, <1>11, <1>13

LEMMA AgeStep ==
  ASSUME WilburInv, NEW k \in Keys, Wilbur!Age(k)
  PROVE  WilburInv'
<1>. DEFINE new == [wilburRequests EXCEPT ![k].old = TRUE]
<1>1. /\ IsPending(wilburRequests[k]) /\ wilburRequests[k].old = FALSE
      /\ \A h \in Routes : wilburHandler[h] # Wilbur!Idle => wilburHandler[h].key # k
  <2>1. Wilbur!Pending(k) /\ ~wilburRequests[k].old
    BY DEF Wilbur!Age
  <2>2. wilburRequests[k] \in Wilbur!Request
    BY <2>1, RowHolds DEF Wilbur!Pending
  <2>3. wilburRequests[k].old \in BOOLEAN
    BY <2>2 DEF Wilbur!Request
  <2>. QED
    BY <2>1, <2>3 DEF Wilbur!Age, Wilbur!Pending, IsPending
<1>2. /\ wilburRequests' = new /\ wilburHandler' = wilburHandler
      /\ wilburRun' = wilburRun /\ wilburActions' = wilburActions
      /\ wilburObserved' = wilburObserved /\ wilburEvents' = wilburEvents
      /\ wilburRate' = wilburRate /\ wilburReplies' = wilburReplies
      /\ wilburCrashes' = wilburCrashes
  BY DEF Wilbur!Age, Wilbur!artifacts
<1>. HIDE DEF new
<1>3. new = [wilburRequests EXCEPT ![k].old = TRUE]
  BY DEF new
<1>4. /\ new \in WilburRows /\ \A x \in Keys : ClaimSound(new[x])
      /\ \A x \in Keys : x # k => new[x] = wilburRequests[x]
      /\ Filed(new) = Filed(wilburRequests) /\ Done(new) = Done(wilburRequests)
      /\ \A x \in Done(wilburRequests) : new[x] = wilburRequests[x]
      /\ Waiting(new) = Waiting(wilburRequests)
      /\ Awake(new) \in SUBSET Awake(wilburRequests)
      /\ Heavy(new, Waiting(new)) = Heavy(wilburRequests, Waiting(wilburRequests))
      /\ Heavy(new, Awake(new)) \subseteq Heavy(wilburRequests, Awake(wilburRequests))
  BY <1>1, <1>3, AgedTables
<1>5. \A h \in Routes : KnowsTables(wilburHandler[h], new, wilburActions)
  <2>. SUFFICES ASSUME NEW h \in Routes, wilburHandler[h].step # "idle"
                PROVE  KnowsTables(wilburHandler[h], new, wilburActions)
    BY DEF KnowsTables
  <2>1. wilburHandler[h].key \in Keys
    BY KnowsHere
  <2>2. wilburHandler[h].key # k
    BY <1>1, TaskHolds
  <2>3. new[wilburHandler[h].key] = wilburRequests[wilburHandler[h].key]
    BY <1>4, <2>1, <2>2
  <2>. QED
    BY <2>3 DEF KnowsTables, WilburInv
<1>6. StoredIsDone(new, wilburActions, wilburObserved, wilburEvents)
  <2>1. \A op : DoneBy(new, op) = DoneBy(wilburRequests, op)
    BY <1>4 DEF DoneBy
  <2>2. \A s : Updates(new, s) = Updates(wilburRequests, s)
    BY <1>4, <2>1 DEF Updates, DoneBy
  <2>3. \A x \in DoneBy(new, "update_action") : new[x] = wilburRequests[x]
    BY <1>4, <2>1 DEF DoneBy
  <2>. QED
    BY <1>4, <2>1, <2>2, <2>3 DEF StoredIsDone, WilburInv
<1>7. ToldIsDone(new, wilburReplies)
  BY <1>4 DEF ToldIsDone, WilburInv
<1>8. wilburObserved \in SUBSET Keys /\ wilburEvents \in Nat
  BY DEF WilburInv, WilburTyped
<1>9. RoomForNow(new, wilburActions, wilburObserved, wilburEvents)
  BY <1>4 DEF RoomForNow, Load, WilburInv
<1>10. RoomForAll(new, wilburActions, wilburObserved, wilburEvents, wilburHandler)
  <2>1. Awake(wilburRequests) \in SUBSET Keys
    BY TableSets
  <2>2. /\ Load(wilburRequests, wilburActions, wilburObserved, wilburEvents, Awake(wilburRequests))
             \in Nat
        /\ Load(new, wilburActions, wilburObserved, wilburEvents, Awake(new)) \in Nat
        /\ Load(new, wilburActions, wilburObserved, wilburEvents, Awake(new))
             <= Load(wilburRequests, wilburActions, wilburObserved, wilburEvents,
                     Awake(wilburRequests))
    BY <1>4, <1>8, <2>1, LoadFalls
  <2>3. /\ Cardinality(Adding(wilburHandler)) \in Nat
        /\ Cardinality(AddingMore(wilburHandler)) \in Nat
    BY AddingCounts
  <2>4. Ceiling \in Int
    BY LoadCounts
  <2>. QED
    BY <2>2, <2>3, <2>4 DEF RoomForAll, WilburInv
<1>11. WilburTyped'
  BY <1>2, <1>4 DEF WilburInv, WilburTyped, WilburRows
<1>. QED
  BY <1>2, <1>4, <1>5, <1>6, <1>7, <1>9, <1>10, <1>11 DEF WilburInv

-----------------------------------------------------------------------------
(* Wilbur begins with nothing stored, and moves by these steps only.       *)

LEMMA WilburBegins ==
  ASSUME Wilbur!Init
  PROVE  WilburInv
<1>1. /\ wilburRun = "charlotte_complete" /\ wilburActions = [s \in Suggestions |-> None]
      /\ wilburObserved = {} /\ wilburEvents = 0
      /\ wilburRequests = [k \in Keys |-> None]
      /\ wilburRate = [kind \in Wilbur!Kinds |-> [user |-> 0, ip |-> 0]]
      /\ wilburHandler = [h \in Routes |-> Wilbur!Idle]
      /\ wilburReplies = {} /\ wilburCrashes = 0
  BY DEF Wilbur!Init
<1>2. Bound(wilburActions) = {} /\ Filed(wilburRequests) = {}
  BY <1>1 DEF Bound, Filed
<1>3. Done(wilburRequests) = {} /\ Waiting(wilburRequests) = {} /\ Awake(wilburRequests) = {}
  BY <1>1 DEF Done, Waiting, Awake, IsCommitted, IsPending
<1>4. \A op : DoneBy(wilburRequests, op) = {}
  BY <1>3 DEF DoneBy
<1>5. \A K : K = {} => Heavy(wilburRequests, K) = {}
  BY DEF Heavy
<1>6. Adding(wilburHandler) = {} /\ AddingMore(wilburHandler) = {}
  <2>1. \A h \in Routes : ~MayAdd(wilburHandler[h])
    BY <1>1, IdleKnows
  <2>. QED
    BY <2>1 DEF Adding, AddingMore
<1>7. Cardinality({}) = 0
  BY FS_EmptySet
<1>8. 0 <= Ceiling
  <2>1. Cardinality(Routes) \in Nat /\ RowLimit \in Nat
    BY CountedSets, WilburAssumption
  <2>2. Cardinality(Routes) # 0
    BY WilburAssumption, FS_EmptySet
  <2>. QED
    BY <2>1, <2>2 DEF Ceiling
<1>9. WilburTyped
  <2>1. 0 \in 0..MaxCrashes
    BY RouteAssumption
  <2>. QED
    BY <1>1, <2>1 DEF WilburTyped, Wilbur!Executable
<1>10. \A k \in Keys : ClaimSound(wilburRequests[k])
  BY <1>1 DEF ClaimSound
<1>11. \A h \in Routes : KnowsTables(wilburHandler[h], wilburRequests, wilburActions)
  BY <1>1, IdleKnows
<1>12. StoredIsDone(wilburRequests, wilburActions, wilburObserved, wilburEvents)
  BY <1>1, <1>2, <1>3, <1>4, <1>7 DEF StoredIsDone
<1>13. ToldIsDone(wilburRequests, wilburReplies)
  BY <1>1 DEF ToldIsDone
<1>14. Spared(wilburRate)
  BY <1>1, WilburAssumption DEF Spared
<1>15. /\ Load(wilburRequests, wilburActions, wilburObserved, wilburEvents,
               Awake(wilburRequests)) = 0
       /\ Load(wilburRequests, wilburActions, wilburObserved, wilburEvents,
               Waiting(wilburRequests)) = 0
  <2>1. /\ Heavy(wilburRequests, Awake(wilburRequests)) = {}
        /\ Heavy(wilburRequests, Waiting(wilburRequests)) = {}
    BY <1>3, <1>5
  <2>2. /\ Cardinality(Bound(wilburActions)) = 0 /\ Cardinality(wilburObserved) = 0
        /\ Cardinality(Filed(wilburRequests)) = 0
        /\ Cardinality(Awake(wilburRequests)) = 0 /\ Cardinality(Waiting(wilburRequests)) = 0
    BY <1>1, <1>2, <1>3, <1>7
  <2>. QED
    BY <1>1, <1>7, <2>1, <2>2 DEF Load
<1>16. /\ RoomForAll(wilburRequests, wilburActions, wilburObserved, wilburEvents, wilburHandler)
       /\ RoomForNow(wilburRequests, wilburActions, wilburObserved, wilburEvents)
  BY <1>6, <1>7, <1>8, <1>15 DEF RoomForAll, RoomForNow
<1>. QED
  BY <1>9, <1>10, <1>11, <1>12, <1>13, <1>14, <1>16 DEF WilburInv

LEMMA WilburRests ==
  ASSUME WilburInv, UNCHANGED wilburVars
  PROVE  WilburInv'
BY DEF wilburVars, WilburInv, WilburTyped

LEMMA WilburSteps ==
  ASSUME WilburInv, Wilbur!Next
  PROVE  WilburInv'
<1>1. ASSUME NEW h \in Routes, NEW k \in Keys, NEW i \in Intents, Wilbur!Open(h, k, i)
      PROVE  WilburInv'
  BY <1>1, OpenStep
<1>2. ASSUME NEW h \in Routes,
             Wilbur!Again(h) \/ Wilbur!Recover(h) \/ Wilbur!Raced(h)
      PROVE  WilburInv'
  <2>1. PICK step \in {"again", "recover", "raced"}, next \in WorkSteps \cup {"idle"} :
          Wilbur!Reclaim(h, step, next)
    BY <1>2 DEF Wilbur!Again, Wilbur!Recover, Wilbur!Raced, WorkSteps
  <2>. QED
    BY <2>1, ReclaimStep
<1>3. ASSUME NEW h \in Routes,
             Wilbur!Settle(h, "refuse", "idle") \/ Wilbur!Settle(h, "settle", "raced")
      PROVE  WilburInv'
  BY <1>3, SettleStep
<1>4. ASSUME NEW h \in Routes, Wilbur!Readmit(h) \/ Wilbur!Lose(h) \/ Wilbur!Crash(h)
      PROVE  WilburInv'
  BY <1>4, NothingFiledStep
<1>5. ASSUME NEW h \in Routes, Wilbur!Create(h) \/ Wilbur!Update(h) \/ Wilbur!Observe(h)
      PROVE  WilburInv'
  BY <1>5, CreateStep, UpdateStep, ObserveStep
<1>6. ASSUME NEW h \in Routes, Wilbur!Snapshot(h) \/ Wilbur!Claim(h) \/ Wilbur!Admit(h)
      PROVE  WilburInv'
  BY <1>6, SnapshotStep, ClaimStep, AdmitStep
<1>7. ASSUME NEW k \in Keys, Wilbur!Age(k)
      PROVE  WilburInv'
  BY <1>7, AgeStep
<1>. QED
  BY <1>1, <1>2, <1>3, <1>4, <1>5, <1>6, <1>7, NewHourStep DEF Wilbur!Next

(* The invariant of Wilbur's requests holds while they are the component   *)
(* under check.                                                            *)
THEOREM WilburInvariant == MCSpec => [](part = "wilbur" => WilburInv)
<1>. DEFINE Inv == part = "wilbur" => WilburInv
<1>1. MCInit => Inv
  BY WilburBegins DEF MCInit
<1>2. Inv /\ [MCNext]_<<part, vars, wilburVars, adapterVars, brokerVars, launcherVars,
                        searchVars>> => Inv'
  <2>. SUFFICES ASSUME Inv, [MCNext]_<<part, vars, wilburVars, adapterVars, brokerVars,
                                       launcherVars, searchVars>>,
                       part' = "wilbur"
                PROVE  WilburInv'
    OBVIOUS
  <2>1. CASE WilburStep
    BY <2>1, WilburSteps DEF WilburStep
  <2>2. CASE UNCHANGED wilburVars /\ part' = part
    BY <2>2, WilburRests DEF wilburVars
  <2>. QED
    BY <2>1, <2>2 DEF MCNext, AnswersStep, AdaptersStep, BrokerStep, LaunchedStep, SearchStep
<1>. QED
  BY <1>1, <1>2, PTL DEF MCSpec

(* However a mutation is repeated, lost midway or raced, what is stored is *)
(* what the committed requests asked for, each once; an exact retry is     *)
(* told what the first was; a rejected user spends nothing of the address; *)
(* and the claims that overlap pass the envelope by at most three rows for *)
(* each handler but one: the property of WilburLedger.                     *)
THEOREM LedgerAlwaysExact == MCSpec => []LedgerIsExact
<1>1. (part = "wilbur" => WilburInv) => LedgerIsExact
  <2>. SUFFICES ASSUME WilburInv PROVE Wilbur!LedgerIsExact
    BY DEF LedgerIsExact
  <2>1. Wilbur!TypeOK
    BY DEF WilburInv, WilburTyped, Wilbur!TypeOK
  <2>2. Wilbur!MutationsHappenOnce
    <3>1. /\ Wilbur!Written = Bound(wilburActions)
          /\ Wilbur!Claimed = Filed(wilburRequests)
          /\ \A op : Wilbur!Committed(op) = DoneBy(wilburRequests, op)
      BY DEF Wilbur!Written, Wilbur!Claimed, Wilbur!Committed, Bound, Filed, DoneBy, Done,
             IsCommitted
    <3>2. \A s : {k \in Wilbur!Committed("update_action") : wilburRequests[k].intent.on = s}
                   = Updates(wilburRequests, s)
      BY <3>1 DEF Updates
    <3>3. UNION {Wilbur!Committed(op) : op \in Wilbur!Operations} = Done(wilburRequests)
      <4>1. \A k \in Done(wilburRequests) : wilburRequests[k].intent.op \in Wilbur!Operations
        <5>1. \A k \in Done(wilburRequests) : k \in Keys /\ wilburRequests[k] # None
          BY DEF Done, IsCommitted
        <5>2. \A k \in Done(wilburRequests) : wilburRequests[k].intent \in Wilbur!Intent
          BY <5>1, RowHolds, WilburAssumption DEF Wilbur!Request
        <5>. QED
          BY <5>2 DEF Wilbur!Intent
      <4>2. \A k : k \in UNION {DoneBy(wilburRequests, op) : op \in Wilbur!Operations}
                     <=> k \in Done(wilburRequests)
        BY <4>1 DEF DoneBy
      <4>. QED
        BY <3>1, <4>2
    <3>4. \A k \in Wilbur!Claimed :
            wilburRequests[k].rows =
              IF Wilbur!Pending(k) THEN Wilbur!FutureRows(wilburRequests[k].intent) ELSE 0
      BY DEF Wilbur!Claimed, Wilbur!Pending, WilburInv, ClaimSound
    <3>5. StoredIsDone(wilburRequests, wilburActions, wilburObserved, wilburEvents)
      BY DEF WilburInv
    <3>. QED
      BY <3>1, <3>2, <3>3, <3>4, <3>5, SameCount DEF StoredIsDone, Wilbur!MutationsHappenOnce
  <2>3. Wilbur!RepliesRepeat
    <3>1. \A p \in wilburReplies : /\ p \in Keys \X (Wilbur!Action \cup {None})
                                   /\ p[2] = wilburRequests[p[1]].result
      BY DEF WilburInv, WilburTyped, ToldIsDone
    <3>2. \A a, b \in Keys \X (Wilbur!Action \cup {None}) : a[1] = b[1] /\ a[2] = b[2] => a = b
      OBVIOUS
    <3>. QED
      BY <3>1, <3>2 DEF Wilbur!RepliesRepeat
  <2>4. Wilbur!AddressSpared
    BY DEF WilburInv, Spared, Wilbur!AddressSpared
  <2>5. Wilbur!EnvelopeNearlyHolds
    <3>1. Wilbur!OwnedRows + Wilbur!ReservedRows(Wilbur!Claimed)
            = Load(wilburRequests, wilburActions, wilburObserved, wilburEvents,
                   Waiting(wilburRequests))
      BY ModelCounts, LoadCounts DEF Load
    <3>. QED
      BY <3>1, SameCount DEF WilburInv, RoomForNow, Ceiling, Wilbur!EnvelopeNearlyHolds
  <2>. QED
    BY <2>1, <2>2, <2>3, <2>4, <2>5 DEF Wilbur!LedgerIsExact
<1>. QED
  BY <1>1, WilburInvariant, PTL
=============================================================================
