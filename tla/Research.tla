------------------------------ MODULE Research ------------------------------
(***************************************************************************)
(* src/server/research: the bounded external research of one stage of one  *)
(* game.  Every handler that is about to run the stage asks the broker     *)
(* (broker.ts); one of them claims the search, runs it, fetches pages from *)
(* the sources it found (direct-page-fetch.ts) and stores the outcome      *)
(* (repository.ts).  The claim's start time and bound are the one deadline,*)
(* which a later caller enforces for a claimant that died.                 *)
(***************************************************************************)
EXTENDS Naturals, FiniteSets, Sequences, SequencesExt

CONSTANTS
    Callers,        \* invocations of ensureForStage
    NoCaller,
    Paths,          \* pages of a source's host
    Elsewhere,      \* a page of another host, or no public URL at all
    MaxSources,     \* bound: sources a search yields
    PageLimit,      \* RESEARCH_PAGE_FETCH_LIMIT
    RedirectLimit,  \* DIRECT_PAGE_MAX_REDIRECTS
    MaxDeaths       \* bound: callers that die

VARIABLES
    policy,         \* what planResearchForStage says of this game and stage
    research,       \* the research_requests row
    overdue,        \* the row's deadline has passed
    moved,          \* the run has left the state the callers saw
    caller,         \* what each caller holds
    page,           \* the page fetch under way
    searches,       \* history: searches sent to the provider
    contacts,       \* history: where every connection went, at which hop
    deaths

researchVars ==
    <<policy, research, overdue, moved, caller, page, searches, contacts, deaths>>

\* Without consent, or a question that depends on the outside world, none is
\* needed; a configuration that cannot be read refuses a needed one.
Policies == {"not_needed", "needed", "unconfigured"}

NoRow == [status |-> "absent", by |-> NoCaller, evidence |-> <<>>]
Ended == {"not_needed", "completed", "failed", "refused", "timed_out"}
NoPage == [by |-> NoCaller, step |-> "none", at |-> NoCaller, chain |-> <<>>]
Idle == [step |-> "idle", got |-> NoRow, sources |-> 0, evidence |-> <<>>,
         failure |-> "none"]

Goes(c, step) == caller' = [caller EXCEPT ![c].step = step]
\* The record a statement leaves is read back and returned.
Returns(c, row) == caller' = [caller EXCEPT ![c] = [Idle EXCEPT !.step = "returned", !.got = row]]
Fails(c, status) == caller' = [caller EXCEPT ![c].step = "fail", ![c].failure = status]

-----------------------------------------------------------------------------
(***************************************************************************)
(* The claim.                                                              *)
(***************************************************************************)

Stale == research.status = "searching" /\ overdue

\* getForPolicy: an existing record is returned, or failed when it is stale.
LooksUp(c) ==
    /\ caller[c].step = "idle"
    /\ CASE research.status = "absent" -> Goes(c, "plan")
         [] Stale -> Fails(c, "timed_out")
         [] OTHER -> Returns(c, research)
    /\ UNCHANGED <<policy, research, overdue, moved, page, searches, contacts, deaths>>

\* start: ON CONFLICT DO NOTHING; the loser returns what it finds.
Claims(c) ==
    /\ caller[c].step = "plan" /\ policy # "not_needed"
    /\ IF research.status = "absent" /\ ~moved
       THEN /\ research' = [NoRow EXCEPT !.status = "searching", !.by = c]
            /\ overdue' = FALSE
            /\ IF policy = "unconfigured" THEN Fails(c, "refused") ELSE Goes(c, "search")
       ELSE Returns(c, research) /\ UNCHANGED <<research, overdue>>
    /\ UNCHANGED <<policy, moved, page, searches, contacts, deaths>>

\* recordNotNeeded, when the policy or the game's consent says so.
Records(c) ==
    /\ caller[c].step = "plan" /\ policy = "not_needed"
    /\ IF research.status = "absent" /\ ~moved
       THEN /\ research' = [NoRow EXCEPT !.status = "not_needed"]
            /\ Returns(c, [NoRow EXCEPT !.status = "not_needed"])
       ELSE Returns(c, research) /\ UNCHANGED research
    /\ UNCHANGED <<policy, overdue, moved, page, searches, contacts, deaths>>

-----------------------------------------------------------------------------
(***************************************************************************)
(* The search.  Every step is preceded by assertResearchBudget.            *)
(***************************************************************************)

OutOfTime(c) ==
    /\ caller[c].step \in {"search", "fetch", "store"}
    /\ overdue
    /\ Fails(c, "timed_out")
    /\ page' = IF page.by = c THEN NoPage ELSE page
    /\ UNCHANGED <<policy, research, overdue, moved, searches, contacts, deaths>>

Searches(c) ==
    /\ caller[c].step = "search" /\ ~overdue
    /\ searches' = searches + 1
    /\ Goes(c, "searching")
    /\ UNCHANGED <<policy, research, overdue, moved, page, contacts, deaths>>

\* The bridge, the envelope or the normalisation fails it, or it finds sources.
SearchFails(c) ==
    /\ caller[c].step = "searching"
    /\ \E status \in {"failed", "refused", "timed_out"} : Fails(c, status)
    /\ UNCHANGED <<policy, research, overdue, moved, page, searches, contacts, deaths>>

Finds(c) ==
    /\ caller[c].step = "searching" /\ ~overdue
    /\ \E n \in 1..MaxSources :
         caller' = [caller EXCEPT ![c].step = "fetch", ![c].sources = n]
    /\ UNCHANGED <<policy, research, overdue, moved, page, searches, contacts, deaths>>

ToFetch(c) == IF caller[c].sources < PageLimit THEN caller[c].sources ELSE PageLimit

OpensPage(c) ==
    /\ caller[c].step = "fetch" /\ ~overdue /\ page.by # c
    /\ IF Len(caller[c].evidence) < ToFetch(c)
       THEN \E p \in Paths :
              page' = [by |-> c, step |-> "resolve", at |-> p, chain |-> <<p>>]
            /\ UNCHANGED caller
       ELSE UNCHANGED page /\ Goes(c, "store")
    /\ UNCHANGED <<policy, research, overdue, moved, searches, contacts, deaths>>

-----------------------------------------------------------------------------
(***************************************************************************)
(* SecureDirectPageFetcher.fetch: resolve, pin, request, and follow a few  *)
(* redirects within the host.                                              *)
(***************************************************************************)

\* A page ends as a fact or as a failure; either is evidence of one source.
Ends(c, what) ==
    /\ page' = NoPage
    /\ caller' = [caller EXCEPT ![c].evidence = Append(@, what)]

\* One name may resolve to several addresses.
Answers == SUBSET {"public", "private"}
AllPublic(addresses) == addresses # {} /\ addresses \subseteq {"public"}

\* A URL that is not the normal form of itself is refused before anything is
\* resolved, a name with an address that is not public before any connection.
Resolves(c) ==
    /\ page.by = c /\ page.step = "resolve"
    /\ \/ /\ \E addresses \in Answers : AllPublic(addresses)
          /\ page' = [page EXCEPT !.step = "request"] /\ UNCHANGED caller
       \/ Ends(c, "failure")
    /\ UNCHANGED <<policy, research, overdue, moved, searches, contacts, deaths>>

\* The connection goes to the pinned address and is checked on arrival.
Requests(c) ==
    /\ page.by = c /\ page.step = "request"
    /\ contacts' = contacts \cup
         {[at |-> page.at, hop |-> Len(page.chain)]}
    /\ \/ page' = [page EXCEPT !.step = "respond"] /\ UNCHANGED caller
       \/ Ends(c, "failure")
    /\ UNCHANGED <<policy, research, overdue, moved, searches, deaths>>

\* Another page of the same host, not seen before, and not too many of them.
Followable(p) ==
    p # Elsewhere /\ Len(page.chain) <= RedirectLimit /\ p \notin ToSet(page.chain)

\* The target is resolved and pinned again.
Redirects(c) ==
    /\ page.by = c /\ page.step = "respond"
    /\ \E p \in Paths \cup {Elsewhere} :
         /\ Followable(p)
         /\ page' = [page EXCEPT !.step = "resolve", !.at = p, !.chain = Append(@, p)]
    /\ UNCHANGED <<policy, research, overdue, moved, caller, searches, contacts, deaths>>

\* A redirect that is not followed, another status, or a body that is too
\* long, of another type or encoding, or not text.
PageRefused(c) ==
    /\ page.by = c /\ page.step = "respond"
    /\ Ends(c, "failure")
    /\ UNCHANGED <<policy, research, overdue, moved, searches, contacts, deaths>>

\* What the text extracted from the body turns out to be.
Texts == {"plain", "empty", "instructing"}

PageRead(c) ==
    /\ page.by = c /\ page.step = "respond" /\ ~overdue
    /\ \E text \in Texts : Ends(c, IF text = "plain" THEN "fact" ELSE "failure")
    /\ UNCHANGED <<policy, research, overdue, moved, searches, contacts, deaths>>

-----------------------------------------------------------------------------
(***************************************************************************)
(* The outcome.                                                            *)
(***************************************************************************)

\* Mutant: the row is completed whatever has become of it.
MayComplete_Late(c) == ~moved

MayComplete(c) == research.status = "searching" /\ ~moved

\* complete checks the evidence it is given before it touches the row.
EvidenceFits(c) == Len(caller[c].evidence) <= PageLimit

\* complete; a row that was failed meanwhile makes it a conflict, which goes
\* past the broker's own handler to its caller.
Completes(c) ==
    /\ caller[c].step = "store"
    /\ IF EvidenceFits(c) /\ MayComplete(c)
       THEN LET row == [research EXCEPT !.status = "completed",
                                        !.evidence = caller[c].evidence]
            IN  research' = row /\ Returns(c, row)
       ELSE Goes(c, "refused") /\ UNCHANGED research
    /\ UNCHANGED <<policy, overdue, moved, page, searches, contacts, deaths>>

\* fail; a row that has ended is returned as it is.
FailsRow(c) ==
    /\ caller[c].step = "fail"
    /\ IF research.status = "searching" /\ ~moved
       THEN LET row == [research EXCEPT !.status = caller[c].failure]
            IN  research' = row /\ Returns(c, row)
       ELSE /\ IF research.status \in Ended THEN Returns(c, research) ELSE Goes(c, "refused")
            /\ UNCHANGED research
    /\ UNCHANGED <<policy, overdue, moved, page, searches, contacts, deaths>>

\* runPortia goes on with a record that has ended, and only with one.
RunMoves ==
    /\ ~moved
    /\ \E c \in Callers : caller[c].step = "returned" /\ caller[c].got.status \in Ended
    /\ moved' = TRUE
    /\ UNCHANGED <<policy, research, overdue, caller, page, searches, contacts, deaths>>

\* The client asks again.
AsksAgain(c) ==
    /\ caller[c].step \in {"returned", "refused"}
    /\ ~moved
    /\ caller[c].got.status \notin Ended
    /\ caller' = [caller EXCEPT ![c] = Idle]
    /\ UNCHANGED <<policy, research, overdue, moved, page, searches, contacts, deaths>>

DeadlinePasses ==
    /\ research.status = "searching" /\ ~overdue
    /\ overdue' = TRUE
    /\ UNCHANGED <<policy, research, moved, caller, page, searches, contacts, deaths>>

Dies(c) ==
    /\ deaths < MaxDeaths
    /\ caller[c].step \notin {"idle", "returned", "refused", "dead"}
    /\ deaths' = deaths + 1
    /\ caller' = [caller EXCEPT ![c] = [Idle EXCEPT !.step = "dead"]]
    /\ page' = IF page.by = c THEN NoPage ELSE page
    /\ UNCHANGED <<policy, research, overdue, moved, searches, contacts>>

-----------------------------------------------------------------------------
Init ==
    /\ policy \in Policies
    /\ research = NoRow
    /\ overdue = FALSE
    /\ moved = FALSE
    /\ caller = [c \in Callers |-> Idle]
    /\ page = NoPage
    /\ searches = 0
    /\ contacts = {}
    /\ deaths = 0

Next ==
    \/ RunMoves \/ DeadlinePasses
    \/ \E c \in Callers :
         \/ LooksUp(c) \/ Claims(c) \/ Records(c) \/ OutOfTime(c) \/ Searches(c)
         \/ SearchFails(c) \/ Finds(c) \/ OpensPage(c) \/ Resolves(c) \/ Requests(c)
         \/ Redirects(c) \/ PageRefused(c) \/ PageRead(c) \/ Completes(c)
         \/ FailsRow(c) \/ AsksAgain(c) \/ Dies(c)

Spec == Init /\ [][Next]_researchVars

-----------------------------------------------------------------------------
\* One search is paid for, by the caller whose claim is stored.
OneSearch == searches <= 1 /\ (searches = 1 => research.by # NoCaller)

\* Whoever was given an outcome was given the one that is stored.
OutcomesAgree ==
    \A c \in Callers : caller[c].got.status \in Ended => caller[c].got = research

\* A run goes on only with an outcome, and a completed one has evidence of
\* every page it set out to fetch.
NothingPendingBehind ==
    /\ moved => research.status \in Ended
    /\ research.status = "completed" => Len(research.evidence) \in 1..PageLimit

\* No connection leaves the source's host, and a chain of them is bounded.
ConnectionsStayHome ==
    \A k \in contacts : k.at # Elsewhere /\ k.hop <= RedirectLimit + 1

\* Invariant: a stage is researched once, everyone acts on the same outcome,
\* and no connection was made outside the host of a source.
ResearchIsSettledOnce ==
    OneSearch /\ OutcomesAgree /\ NothingPendingBehind /\ ConnectionsStayHome

=============================================================================
