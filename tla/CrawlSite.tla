------------------------------ MODULE CrawlSite ------------------------------
(***************************************************************************)
(* The real executor (PlaywrightTestExecutor): it resolves its target and  *)
(* its authentication, launches a browser, and crawls the site breadth     *)
(* first, within limits, until it runs out of pages or its signal is       *)
(* aborted. The site is whatever each page load shows: where the load      *)
(* lands, and which links it finds there.                                  *)
(***************************************************************************)
EXTENDS Naturals, Sequences, SequencesExt

CONSTANTS
    Urls,           \* normalized URLs
    Home,           \* the environment's base URL
    AuthPages,      \* URLs whose path looks like a login page
    Skipped,        \* other origins, downloads, destructive-looking paths
    Offsite,        \* those of them on another origin
    Landings,       \* where the site redirects a load to
    None,           \* "no page"
    MaxPages,       \* MAX_LIMITS.maxPages
    MaxDepth,       \* limits.maxDepth
    MaxHrefs        \* bound: links found on one page

ASSUME CrawlAssumption ==
    /\ Home \in Urls
    /\ AuthPages \subseteq Urls /\ Skipped \subseteq Urls /\ Landings \subseteq Urls
    /\ Offsite \subseteq Skipped /\ Home \notin Offsite
    /\ None \notin Urls
    /\ MaxPages \in Nat \ {0}
    /\ {MaxDepth, MaxHrefs} \subseteq Nat

VARIABLES
    maxPages,   \* limits.maxPages, as the run's configuration asks for
    pc,         \* the await execute or crawlSite is at
    queue,      \* pages to check: [url, depth]
    visited,    \* URLs taken off the queue
    current,    \* the page being checked: [url, depth]
    results,    \* one [url, status] per page checked
    blocked,    \* blockedReason is set
    cancelled,
    report,     \* what execute returns: a status, or "throws"
    aborted,    \* the run's AbortSignal
    expired,    \* maxDurationMs have passed
    links       \* the crawlable links found on each page so far (a history)

crawlVars == <<maxPages, queue, visited, current, results, blocked, cancelled, links>>
vars == <<pc, crawlVars, report, aborted, expired>>

NoPage == [url |-> None, depth |-> 0]
Steps == { "resolve", "launch", "loop", "progress", "check", "done" }
Reports == { "none", "completed", "failed", "blocked", "throws" }

TypeOK ==
    /\ maxPages \in 1..MaxPages
    /\ pc \in Steps
    /\ queue \in Seq([url : Urls, depth : 0..MaxDepth])
    /\ visited \subseteq Urls
    /\ current \in [url : Urls \cup {None}, depth : 0..MaxDepth]
    /\ results \in Seq([url : Urls, status : {"passed", "failed", "blocked"}])
    /\ {blocked, cancelled, aborted, expired} \subseteq BOOLEAN
    /\ report \in Reports
    /\ links \in [Urls -> SUBSET (Urls \ Skipped)]

\* readCrawlLimits: any value, clamped to the limits of the worker.
ReadCrawlLimits == maxPages \in 1..MaxPages

Init ==
    /\ ReadCrawlLimits
    /\ pc = "resolve"
    /\ queue = <<[url |-> Home, depth |-> 0]>>
    /\ visited = {}
    /\ current = NoPage
    /\ results = <<>>
    /\ blocked = FALSE
    /\ cancelled = FALSE
    /\ report = "none"
    /\ aborted = FALSE
    /\ expired = FALSE
    /\ links = [u \in Urls |-> {}]

Return(status) == pc' = "done" /\ report' = status

\* execute's catch: the run fails as if the browser had not started, and what
\* was collected is not returned.
CatchAll == Return("failed") /\ results' = <<>>

-----------------------------------------------------------------------------
(* The outside: worker.ts aborts the signal, and time passes.              *)

Abort ==
    /\ pc # "done" /\ ~aborted
    /\ aborted' = TRUE
    /\ UNCHANGED <<pc, crawlVars, report, expired>>

\* maxDurationMs is up. No time passes between two awaits of the loop.
Expire ==
    /\ pc \in {"progress", "check"} /\ ~expired
    /\ expired' = TRUE
    /\ UNCHANGED <<pc, crawlVars, report, aborted>>

-----------------------------------------------------------------------------
(* execute.                                                                *)

\* The target and its authentication are loaded, and the first progress line
\* is written. A target that is missing or not allowed fails the run; an error
\* of a call throws; unusable authentication blocks the run in advance.
ResolveTarget ==
    /\ pc = "resolve"
    /\ \/ pc' = "launch" /\ blocked' \in BOOLEAN /\ UNCHANGED report
       \/ \E status \in {"failed", "throws"} : Return(status) /\ UNCHANGED blocked
    /\ UNCHANGED <<maxPages, queue, visited, current, results, cancelled, links, aborted, expired>>

\* withBrowserContext and newPage.
LaunchBrowser ==
    /\ pc = "launch"
    /\ \/ pc' = "loop" /\ UNCHANGED <<report, results>>
       \/ CatchAll
    /\ UNCHANGED <<maxPages, queue, visited, current, blocked, cancelled, links, aborted, expired>>

-----------------------------------------------------------------------------
(* The loop of crawlSite.                                                  *)

CheckedUrls == { results[i].url : i \in DOMAIN results }
SomeFailed == \E i \in DOMAIN results : results[i].status = "failed"

\* What crawlSite returns once the loop is left; "stopped" says by an abort.
FinishCrawl(stopped) ==
    /\ cancelled' = stopped
    /\ \/ /\ stopped
          /\ Return("failed")
          /\ UNCHANGED results
       \/ /\ ~stopped /\ blocked
          /\ Return("blocked")
          /\ results' = [i \in DOMAIN results |-> [results[i] EXCEPT !.status = "blocked"]]
       \/ /\ ~stopped /\ ~blocked
          /\ Return(IF results = <<>> \/ SomeFailed THEN "failed" ELSE "completed")
          /\ UNCHANGED results
    /\ UNCHANGED <<maxPages, queue, visited, current, blocked, links, aborted, expired>>

\* Variant: one page more than the limit.
LimitPassed == Len(results) > maxPages \/ expired

LimitReached == Len(results) >= maxPages \/ expired

\* Variant: the limits are looked at before the signal.
EndCrawlLimitsFirst ==
    /\ pc = "loop"
    /\ IF queue = <<>> \/ LimitReached
       THEN FinishCrawl(FALSE)
       ELSE aborted /\ FinishCrawl(TRUE)

\* The head of the loop: an empty queue, an abort or an exhausted limit ends it.
EndCrawl ==
    /\ pc = "loop"
    /\ \/ queue # <<>> /\ aborted /\ FinishCrawl(TRUE)
       \/ /\ queue = <<>> \/ (~aborted /\ LimitReached)
          /\ FinishCrawl(FALSE)

SeenBefore == Head(queue).url \in visited

\* The first page leaves the queue; one that was visited before is skipped.
\* The throttle may leave out the progress line of any page but the first.
TakePage ==
    /\ pc = "loop"
    /\ queue # <<>> /\ ~aborted /\ ~LimitReached
    /\ queue' = Tail(queue)
    /\ \/ SeenBefore /\ UNCHANGED <<pc, visited, current>>
       \/ /\ ~SeenBefore
          /\ visited' = visited \cup {Head(queue).url}
          /\ current' = Head(queue)
          /\ \/ pc' = "progress"
             \/ visited # {} /\ pc' = "check"
    /\ UNCHANGED <<maxPages, results, blocked, cancelled, links, report, aborted, expired>>

\* onProgress writes to the database; an error of it leaves crawlSite.
ReportProgress ==
    /\ pc = "progress"
    /\ \/ pc' = "check" /\ UNCHANGED <<report, results>>
       \/ CatchAll
    /\ UNCHANGED <<maxPages, queue, visited, current, blocked, cancelled, links, aborted, expired>>

-----------------------------------------------------------------------------
(* The check of the current page: runPageCheckOrAbort and what follows.    *)

\* Variant: the signal is looked at between pages only.
AbortCheckBefore == pc = "progress" /\ aborted /\ FinishCrawl(TRUE)

\* An abort wins over a check that is still running.
AbortCheck == pc = "check" /\ aborted /\ FinishCrawl(TRUE)

\* runPageCheck itself throws (the page or the browser is gone).
CheckThrows ==
    /\ pc = "check" /\ ~aborted
    /\ CatchAll
    /\ UNCHANGED <<maxPages, queue, visited, current, blocked, cancelled, links, aborted, expired>>

\* The hrefs of a page, normalized, each at its first occurrence.
Hrefs == { h \in SeqOf(Urls, MaxHrefs) : IsInjective(h) }

\* The members of s that are in W, in their order.
Kept(s, W) ==
    LET kept[i \in 0..Len(s)] ==
            IF i = 0 THEN <<>>
            ELSE IF s[i] \in W THEN Append(kept[i - 1], s[i]) ELSE kept[i - 1]
    IN  kept[Len(s)]

DiscoverLinks(hrefs) == Kept(hrefs, Urls \ (Skipped \cup visited))

\* Variant: the last level is searched for links as well.
MayDiscoverLast == current.depth <= MaxDepth

MayDiscover == current.depth < MaxDepth

OneDeeper(url) == [url |-> url, depth |-> current.depth + 1]

\* Variant: new links go before the ones that wait.
EnqueueFirst(found) == queue' = [i \in DOMAIN found |-> OneDeeper(found[i])] \o queue

Enqueue(found) == queue' = queue \o [i \in DOMAIN found |-> OneDeeper(found[i])]

\* Variant: a login page reached from any page blocks the run.
AuthBoundaryAnywhere(final) == final # current.url /\ final \in AuthPages

\* Only the entry page is held against the login heuristic: it landed on
\* another path, one that looks like a login page.
AuthBoundary(final) == current.depth = 0 /\ final # current.url /\ final \in AuthPages

AddResult(status) == results' = Append(results, [url |-> current.url, status |-> status])

\* goto throws, because it failed or was aborted by the route guard: there is
\* no final URL and there are no links.
NavigationFails ==
    /\ pc = "check" /\ ~aborted
    /\ AddResult("failed")
    /\ pc' = "loop"
    /\ UNCHANGED <<maxPages, queue, visited, current, blocked, cancelled, links, report, aborted, expired>>

\* The route guard sees each hop of a redirect as a request of its own, and
\* aborts a navigation that leaves the origin of the base URL.
MayNavigate(url) == url \notin Offsite

\* The page loads, at "final" after a redirect perhaps.
PageLoads(final, hrefs) ==
    /\ pc = "check" /\ ~aborted
    /\ MayNavigate(final)
    /\ \E status \in {"passed", "failed"} : AddResult(status)
    /\ blocked' = (blocked \/ AuthBoundary(final))
    /\ \/ ~blocked' /\ MayDiscover /\ Enqueue(DiscoverLinks(hrefs))
       \/ (blocked' \/ ~MayDiscover) /\ UNCHANGED queue
    /\ links' = [links EXCEPT ![current.url] = Range(hrefs) \ Skipped]
    /\ pc' = "loop"
    /\ UNCHANGED <<maxPages, visited, current, cancelled, report, aborted, expired>>

CheckPage ==
    \/ AbortCheck \/ CheckThrows \/ NavigationFails
    \/ \E final \in Landings \cup {current.url}, hrefs \in Hrefs : PageLoads(final, hrefs)

-----------------------------------------------------------------------------
Next ==
    \/ ResolveTarget \/ LaunchBrowser \/ EndCrawl \/ TakePage \/ ReportProgress \/ CheckPage
    \/ Abort \/ Expire

Spec == Init /\ [][Next]_vars

\* Every call but a page check has a timeout of its own; page.title() and
\* $$eval wait for the page's own script, for ever perhaps. executeWithTimeout
\* aborts the signal in the end.
FairSpec ==
    /\ Spec
    /\ WF_vars(ResolveTarget \/ LaunchBrowser \/ EndCrawl \/ TakePage \/ ReportProgress \/ AbortCheck)
    /\ WF_vars(Abort)

-----------------------------------------------------------------------------
(* What the crawl promises.                                                *)

\* The URLs at most d links away from the base URL, over the links that the
\* pages of this crawl showed.
Within[d \in 0..MaxDepth] ==
    IF d = 0 THEN {Home}
    ELSE Within[d - 1] \cup UNION { links[url] : url \in Within[d - 1] }

\* A crawl that leaves an empty queue behind has checked exactly the URLs
\* within maxDepth links of the base URL: breadth-first order and the late
\* deduplication on shift (lines 225-226, 281-291) lose no page, not even one
\* that is linked from several depths.
CrawlIsComplete ==
    pc = "done" /\ queue = <<>> /\ results # <<>> /\ ~cancelled /\ ~blocked
        => CheckedUrls = Within[MaxDepth]

\* At no time has the crawl checked more than maxPages pages, nor one that is
\* further away than maxDepth links, whatever was queued twice or at several
\* depths in between (lines 222, 281).
CrawlStaysWithinLimits ==
    Len(results) <= maxPages /\ CheckedUrls \subseteq Within[MaxDepth]

\* The status that is reported fits the pages it is reported with: a blocked
\* run has exactly the one page of evidence, relabelled (lines 306-313), and a
\* completed run has pages, all passed, and was not stopped with work left.
ReportFitsResults ==
    /\ report = "blocked" => Len(results) = 1 /\ results[1].status = "blocked"
    /\ report = "completed" => /\ results # <<>>
                               /\ \A i \in DOMAIN results : results[i].status = "passed"
                               /\ aborted => queue = <<>>
    /\ \A i \in DOMAIN results : results[i].status = "blocked" => report = "blocked"

\* The executor always returns once its signal is aborted, even if a page
\* check never does (runPageCheckOrAbort, lines 76-95).
ExecutorReturns == <>(pc = "done")
=============================================================================
