---------------------------- MODULE CodexSearch ----------------------------
(***************************************************************************)
(* The attested search of openclaw-plugin/src/codex-attestation.ts: before *)
(* the bridge lets an installed package search with an account, it inspects *)
(* which package the host selected, hashes and seals its files, and hashes *)
(* them again around loading them.  The host may rewrite a file at any      *)
(* moment; a search may be aborted while its client process is starting.   *)
(* The package is code of others: once it has asked for a client, it waits *)
(* for that client or for the abort.                                       *)
(***************************************************************************)
EXTENDS Naturals, Sequences

CONSTANTS
    Sealed,         \* the files hashed and sealed one by one
    Loose,          \* files only the digest of the whole tree covers
    Searches,
    MaxEdits        \* bound: how often the host rewrites a file

VARIABLES
    disk,           \* file -> bytes it holds, and its change time
    facts,          \* the inspected facts that hold now
    inspected,      \* steps of the inspection done
    seals,          \* change time of each sealed file when attested
    modules,        \* bytes of each file the process has loaded
    search,         \* per search: step, files read, aborted, intact
    client          \* the client process each search owns

codexVars == <<disk, facts, inspected, seals, modules, search, client>>

Files == Sealed \cup Loose

-----------------------------------------------------------------------------
(***************************************************************************)
(* Selection: resolveRuntimeSelectedOfficialCodexPluginRecord runs the      *)
(* host's own inspection twice, and checks before and after each run that  *)
(* what the answer depends on is unchanged.                                *)
(***************************************************************************)

InstalledRecord == {"record"}
InspectCommand == {"command"}
NoDotenv == {"dotenv"}
InspectConfig == {"config"}
OfficialRecord == {"record", "selected"}
HostFacts == InstalledRecord \cup InspectCommand \cup NoDotenv
                \cup InspectConfig \cup OfficialRecord

Inspection == << InstalledRecord \cup InspectCommand \cup NoDotenv,
                 InspectConfig,
                 OfficialRecord,
                 NoDotenv \cup InspectConfig,
                 NoDotenv \cup InspectConfig \cup InspectCommand,
                 OfficialRecord,
                 NoDotenv \cup InspectConfig \cup InspectCommand >>

Attested == inspected > Len(Inspection)

\* One step of the inspection; the last one attests the package.
Inspect ==
    /\ inspected \in 0 .. Len(Inspection) - 1
    /\ Inspection[inspected + 1] \subseteq facts
    /\ inspected' = inspected + 1
    /\ UNCHANGED <<disk, facts, seals, modules, search, client>>

\* attestOfficialCodexPackage: every file holds the pinned bytes; the files
\* it will run from are sealed.
Attest ==
    /\ inspected = Len(Inspection)
    /\ \A f \in Files : disk[f].bytes = "pinned"
    /\ seals' = [f \in Sealed |-> disk[f].changed]
    /\ inspected' = inspected + 1
    /\ UNCHANGED <<disk, facts, modules, search, client>>

\* One fact stops holding at any step of the inspection.
HostDrifts ==
    /\ ~Attested
    /\ facts = HostFacts
    /\ \E fact \in HostFacts : facts' = facts \ {fact}
    /\ UNCHANGED <<disk, inspected, seals, modules, search, client>>

Now == CHOOSE t \in {disk[f].changed : f \in Files} :
          \A f \in Files : disk[f].changed <= t

\* A file is rewritten, with other bytes or with the pinned ones again: its
\* change time moves on in either case.
Rewrite(f) ==
    /\ Now < MaxEdits
    /\ \E bytes \in {"pinned", "other"} :
         disk' = [disk EXCEPT ![f] =
                    [bytes |-> bytes, changed |-> Now + 1]]
    /\ UNCHANGED <<facts, inspected, seals, modules, search, client>>

-----------------------------------------------------------------------------
(***************************************************************************)
(* A search: check, load, check again, run.                                *)
(***************************************************************************)

\* Mutant: the seal is not compared, the bytes alone decide.
Intact_BytesOnly(f) == disk[f].bytes = "pinned"

\* What revalidate accepts of a file now: hashAndSealRegularFile compares the
\* stat before and after hashing, so bytes and seal belong together.
Intact(f) ==
    /\ disk[f].bytes = "pinned"
    /\ f \in Sealed => disk[f].changed = seals[f]

Begin(s) ==
    /\ Attested
    /\ search[s].step = "idle"
    /\ search' = [search EXCEPT ![s].step = "checking"]
    /\ UNCHANGED <<disk, facts, inspected, seals, modules, client>>

\* revalidate reads the files in no fixed order, each at its own moment.
Reads(s, f) ==
    /\ search[s].step \in {"checking", "rechecking"}
    /\ f \in Files \ search[s].read
    /\ search' = [search EXCEPT
          ![s].read = @ \cup {f},
          ![s].step = IF Intact(f) THEN @ ELSE "failed"]
    /\ UNCHANGED <<disk, facts, inspected, seals, modules, client>>

\* More than one credential, refresh material, or no isolation settings.
Refused(s) ==
    /\ search[s].step = "checking"
    /\ search[s].read = Files
    /\ search' = [search EXCEPT ![s].step = "failed"]
    /\ UNCHANGED <<disk, facts, inspected, seals, modules, client>>

Load(s) ==
    /\ search[s].step = "checking"
    /\ search[s].read = Files
    /\ modules' = [f \in Files |->
          IF modules[f] = "none" THEN disk[f].bytes ELSE modules[f]]
    /\ search' = [search EXCEPT ![s].step = "rechecking", ![s].read = {}]
    /\ UNCHANGED <<disk, facts, inspected, seals, client>>

\* After the second check the loaded code runs without another await; it asks
\* for a client, whose start is raced against the abort.
Run(s) ==
    /\ search[s].step = "rechecking"
    /\ search[s].read = Files
    /\ search' = [search EXCEPT
          ![s].step = IF search[s].aborted THEN "failed" ELSE "starting"]
    /\ client' = [client EXCEPT
          ![s] = IF search[s].aborted THEN @ ELSE "starting"]
    /\ UNCHANGED <<disk, facts, inspected, seals, modules>>

AbortSearch(s) ==
    /\ search[s].step \notin {"idle", "done", "failed"}
    /\ ~search[s].aborted
    /\ search' = [search EXCEPT ![s].aborted = TRUE]
    /\ client' = [client EXCEPT ![s] = IF @ = "open" THEN "closed" ELSE @]
    /\ UNCHANGED <<disk, facts, inspected, seals, modules>>

\* The abort wins the race: the search fails while the client still starts.
StartupLost(s) ==
    /\ search[s].step = "starting"
    /\ search[s].aborted
    /\ search' = [search EXCEPT ![s].step = "failed"]
    /\ client' = [client EXCEPT ![s] = IF @ = "open" THEN "closed" ELSE @]
    /\ UNCHANGED <<disk, facts, inspected, seals, modules>>

\* The start options are not the private ones, the process does not come up,
\* or what came up is no client: the search fails and closes what it owns.
StartFails(s) ==
    /\ search[s].step = "starting"
    /\ client[s] = "starting"
    /\ search' = [search EXCEPT ![s].step = "failed"]
    /\ client' = [client EXCEPT ![s] = "closed"]
    /\ UNCHANGED <<disk, facts, inspected, seals, modules>>

\* onStartedClient, whenever the process is up: after an abort, or when the
\* credential changed while it started, it is closed.
Started(s) ==
    /\ client[s] = "starting"
    /\ client' = [client EXCEPT
          ![s] = IF search[s].aborted \/ ~search[s].intact
                 THEN "closed" ELSE "open"]
    /\ search' = [search EXCEPT
          ![s].step = IF @ # "starting" \/ search[s].aborted THEN @
                      ELSE IF search[s].intact THEN "running" ELSE "failed"]
    /\ UNCHANGED <<disk, facts, inspected, seals, modules>>

\* The client rewrites the guarded credential with another account's: the
\* store refuses, and remembers it even if the client goes on.
Rebinds(s) ==
    /\ search[s].step \in {"starting", "running"}
    /\ search' = [search EXCEPT ![s].intact = FALSE]
    /\ UNCHANGED <<disk, facts, inspected, seals, modules, client>>

\* The search returns or throws; the owned client is closed in either case.
Return(s) ==
    /\ search[s].step = "running"
    /\ \E result \in {"done", "failed"} :
         search' = [search EXCEPT
            ![s].step = IF search[s].intact THEN result ELSE "failed"]
    /\ client' = [client EXCEPT ![s] = "closed"]
    /\ UNCHANGED <<disk, facts, inspected, seals, modules>>

Init ==
    /\ disk = [f \in Files |-> [bytes |-> "pinned", changed |-> 0]]
    /\ facts = HostFacts
    /\ inspected = 0
    /\ seals = [f \in Sealed |-> 0]
    /\ modules = [f \in Files |-> "none"]
    /\ search = [s \in Searches |->
          [step |-> "idle", read |-> {}, aborted |-> FALSE, intact |-> TRUE]]
    /\ client = [s \in Searches |-> "none"]

Next ==
    \/ Inspect
    \/ Attest
    \/ HostDrifts
    \/ \E f \in Files : Rewrite(f)
    \/ \E s \in Searches :
         \/ Begin(s)
         \/ \E f \in Files : Reads(s, f)
         \/ Refused(s)
         \/ Load(s)
         \/ Run(s)
         \/ AbortSearch(s)
         \/ StartupLost(s)
         \/ StartFails(s)
         \/ Started(s)
         \/ Rebinds(s)
         \/ Return(s)

Spec == Init /\ [][Next]_codexVars

-----------------------------------------------------------------------------
(***************************************************************************)
(* Properties.                                                             *)
(***************************************************************************)

\* Whatever the host rewrote and restored, the sealed code that runs is the
\* reviewed code, also when it was loaded by an earlier, failed search.
RunsSealedCode ==
    \A s \in Searches : search[s].step \in {"starting", "running", "done"} =>
        \A f \in Sealed : modules[f] = "pinned"

\* A client process does not outlive its search: one that is up is owned by
\* a search that still runs, also when the abort came first.
ClientsAreOwned ==
    \A s \in Searches : client[s] = "open" =>
        search[s].step = "running" /\ ~search[s].aborted

\* A result is never accepted from a client that tried another account.
ResultsAreBound ==
    \A s \in Searches : search[s].step = "done" =>
        search[s].intact /\ client[s] = "closed"

SearchIsAttested ==
    /\ RunsSealedCode
    /\ ClientsAreOwned
    /\ ResultsAreBound
=============================================================================
