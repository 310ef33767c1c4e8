------------------------------ MODULE CveLookup ------------------------------
(***************************************************************************)
(* The vulnerability search (cvelookup.cpp) and the page in front of it     *)
(* (CvePage.qml).  One lookup lives as long as the app, and a page comes    *)
(* and goes while its request is on the way.  Two kinds of reply come to    *)
(* the same slot: the catalogue of exploited vulnerabilities, asked for     *)
(* once, and the searches.  The slot tells them apart by a word in the URL,  *)
(* which a search's text may hold as well; what one of them does to the      *)
(* other depends on which comes first.                                      *)
(***************************************************************************)
EXTENDS Naturals, FiniteSets

CONSTANTS
  Query,        \* what can be searched for; Blank is none of them
  Blank,        \* an empty search, or no search yet
  Lookalike,    \* the queries that hold "known_exploited", the catalogue's word
  Id,           \* the vulnerabilities the service knows
  Exploited,    \* those in the catalogue of known exploited ones
  MaxRequests   \* bound: searches sent in a session

ASSUME CveAssumption ==
  /\ Blank \notin Query /\ Lookalike \subseteq Query /\ Exploited \subseteq Id /\ MaxRequests \in Nat

Request == 1 .. MaxRequests

VARIABLES
  request,   \* the replies the network manager has handed out: [state, query]
  current,   \* m_current: the request whose answer is wanted, or 0
  busy,      \* m_busy
  status,    \* m_status, by its kind
  results,   \* m_results: [id, kev], and the query they answer (history)
  catalogue, \* the request for the catalogue: "open" or "over"
  kev,       \* m_kev
  fixCache,  \* m_fixCache: query -> "none", "installed" or "missing"
  open,      \* a CvePage is on the stack
  fixInfo,   \* the page's fixInfo: [query, installed]
  asked      \* the page's last search (history)

searchVars == <<request, current, busy, status, results>>

vars == <<searchVars, catalogue, kev, fixCache, open, fixInfo, asked>>

NoFixInfo == [query |-> Blank, installed |-> FALSE]

Status == {"", "no model", "searching", "error", "unexpected", "found"}

NoRequest == [r \in Request |-> [state |-> "free", query |-> Blank]]
NothingCached == [q \in Query |-> "none"]

Init ==
  /\ request = NoRequest
  /\ current = 0 /\ busy = FALSE /\ status = "" /\ results = {}
  /\ catalogue = "open" /\ kev = {}
  /\ fixCache = NothingCached
  /\ open = FALSE /\ fixInfo = NoFixInfo /\ asked = Blank
------------------------------------------------------------------------------
(* The slot of the network manager's finished signal *)

\* A slip: the reply of a search that was superseded is taken as well.
WantedAnyway(r) == TRUE

\* Only the latest search's reply counts.
Wanted(r) == current = r

\* A slip: the flags are those of the moment the answer came.
FlaggedOnce(shown, exploited) == shown

\* Rows shown before the catalogue came are flagged again.
Flagged(shown, exploited) ==
  {[row EXCEPT !.kev = row.id \in exploited] : row \in shown}

Rows(q, ids) == {[id |-> i, kev |-> i \in kev, query |-> q] : i \in ids}

\* A slip: a failed search returns before the flag is taken back.
SettledOnSuccess(outcome) == IF outcome = "error" THEN busy ELSE FALSE

Settled(outcome) == FALSE

\* onFinished() for a search's reply, which it deletes.  A search that looks like
\* the catalogue takes the catalogue's branch: its answer holds no catalogue, so
\* nothing is added to m_kev, and it stays the one that is wanted.  An error
\* keeps the rows as they are; search() and reset() have emptied them before or
\* do so next.
OnFinished(r, outcome, ids) ==
  \/ /\ request[r].query \in Lookalike
     /\ results' = IF outcome = "error" THEN results ELSE Flagged(results, kev)
     /\ UNCHANGED <<current, busy, status>>
  \/ /\ request[r].query \notin Lookalike /\ Wanted(r)
     /\ current' = 0
     /\ busy' = Settled(outcome)
     /\ status' = outcome
     /\ results' = IF outcome = "found" THEN Rows(request[r].query, ids) ELSE results
  \/ /\ request[r].query \notin Lookalike /\ ~Wanted(r)
     /\ UNCHANGED <<current, busy, status, results>>

\* The network ends a request: an answer with any of the vulnerabilities, one
\* that is no JSON object, or an error.
Answered(r) ==
  /\ request[r].state = "open"
  /\ request' = [request EXCEPT ![r].state = "over"]
  /\ \/ \E ids \in SUBSET Id : OnFinished(r, "found", ids)
     \/ \E outcome \in {"unexpected", "error"} : OnFinished(r, outcome, {})
  /\ UNCHANGED <<catalogue, kev, fixCache, open, fixInfo, asked>>

\* The connection goes silent for good: no transfer timeout is set.
Stalls(r) ==
  /\ request[r].state = "open"
  /\ request' = [request EXCEPT ![r].state = "stalled"]
  /\ UNCHANGED <<current, busy, status, results, catalogue, kev, fixCache, open, fixInfo,
                 asked>>

\* With network access switched off the manager hands out a reply that has
\* failed already; its signal is queued, and abort() does nothing to it.
QueuedFinish(r) ==
  /\ request[r].state = "failed"
  /\ request' = [request EXCEPT ![r].state = "over"]
  /\ OnFinished(r, "error", {})
  /\ UNCHANGED <<catalogue, kev, fixCache, open, fixInfo, asked>>

\* The catalogue comes, or does not; it is asked for once.
CatalogueFinished ==
  /\ catalogue = "open"
  /\ catalogue' = "over"
  /\ \/ /\ kev' = Exploited
        /\ results' = Flagged(results, kev')
     \/ UNCHANGED <<kev, results>>
  /\ UNCHANGED <<request, current, busy, status, fixCache, open, fixInfo, asked>>
------------------------------------------------------------------------------
(* The calls of the page *)

\* abort() of a request that is on its way emits finished before it returns:
\* onFinished() runs inside search() or reset(), and what it sets there is set
\* again by the rest of the call.  The caller then forgets the request.
Aborted ==
  IF current = 0 THEN request
  ELSE [request EXCEPT ![current].state = IF @ \in {"open", "stalled"} THEN "over" ELSE @]

\* m_current's reply was deleted under it, having taken the catalogue's branch.
Dangling == current # 0 /\ request[current].state = "over"

\* The next reset() or search() calls abort() on the deleted reply.  That is
\* undefined: nothing comes of it, as in the actions below, or the program ends
\* and is started again.
AbortsDeleted ==
  /\ Dangling
  /\ request' = NoRequest
  /\ current' = 0 /\ busy' = FALSE /\ status' = "" /\ results' = {}
  /\ catalogue' = "open" /\ kev' = {}
  /\ fixCache' = NothingCached
  /\ open' = FALSE /\ fixInfo' = NoFixInfo /\ asked' = Blank

\* A slip: reset() leaves the flag to the aborted request's own reply.
BusyLeftToReply == IF current # 0 /\ request[current].state = "failed" THEN busy ELSE FALSE

\* reset(), when a page is built.
BusyAfterReset == FALSE

OpenPage ==
  /\ ~open
  /\ open' = TRUE /\ asked' = Blank /\ fixInfo' = NoFixInfo
  /\ request' = Aborted
  /\ current' = 0
  /\ results' = {} /\ status' = "" /\ busy' = BusyAfterReset
  /\ UNCHANGED <<catalogue, kev, fixCache>>

\* The page goes; a search it started goes on.
ClosePage ==
  /\ open
  /\ open' = FALSE
  /\ UNCHANGED <<searchVars, catalogue, kev, fixCache, fixInfo, asked>>

\* packageFixInfo(): two calls of rpm, waited for, and whatever came of them is
\* kept for good: a package whose query took too long stays "not installed".
PackageFixInfo(q) ==
  \E found \in {"installed", "missing"} :
    /\ fixCache[q] # "none" => found = fixCache[q]
    /\ fixCache' = [fixCache EXCEPT ![q] = found]
    /\ fixInfo' = [query |-> q, installed |-> found = "installed"]

\* startSearch() with nothing but blanks.
SearchBlank ==
  /\ open
  /\ asked' = Blank /\ fixInfo' = NoFixInfo
  /\ request' = Aborted /\ current' = 0
  /\ results' = {} /\ busy' = FALSE /\ status' = "no model"
  /\ UNCHANGED <<catalogue, kev, fixCache, open>>

\* startSearch(): the package first, then the search, which supersedes the one
\* before it.  r is the reply the manager hands out.
Search(q, r) ==
  /\ open
  /\ request[r].state = "free"
  /\ asked' = q
  /\ PackageFixInfo(q)
  /\ results' = {} /\ busy' = TRUE /\ status' = "searching"
  /\ current' = r
  /\ \E state \in {"open", "failed"} :
       request' = [Aborted EXCEPT ![r] = [state |-> state, query |-> q]]
  /\ UNCHANGED <<catalogue, kev, open>>

\* Requests are numbered in the order they are sent.
NextRequest(r) ==
  request[r].state = "free" /\ \A s \in Request : s < r => request[s].state # "free"

Next ==
  \/ OpenPage \/ ClosePage \/ SearchBlank
  \/ \E q \in Query, r \in Request : NextRequest(r) /\ Search(q, r)
  \/ \E r \in Request : Answered(r) \/ Stalls(r) \/ QueuedFinish(r)
  \/ CatalogueFinished
  \/ AbortsDeleted

\* A request ends in time, one way or the other, unless its connection has gone
\* silent, and the event loop delivers.
Fairness == \A r \in Request : WF_vars(Answered(r)) /\ WF_vars(QueuedFinish(r))

Spec == Init /\ [][Next]_vars /\ Fairness
------------------------------------------------------------------------------
(* Properties *)

\* Every variable holds a value of its kind, and the busy flag says that a
\* request is wanted, one that has not been answered yet or whose reply was
\* taken for the catalogue.
TypeOK ==
  /\ request \in [Request -> [state : {"free", "open", "stalled", "failed", "over"},
                              query : Query \cup {Blank}]]
  /\ current \in Request \cup {0} /\ busy \in BOOLEAN /\ status \in Status
  /\ results \subseteq [id : Id, kev : BOOLEAN, query : Query]
  /\ catalogue \in {"open", "over"} /\ kev \in {{}, Exploited}
  /\ fixCache \in [Query -> {"none", "installed", "missing"}]
  /\ open \in BOOLEAN /\ asked \in Query \cup {Blank}
  /\ fixInfo \in [query : Query \cup {Blank}, installed : BOOLEAN]
  /\ busy <=> current # 0
  /\ current # 0 => \/ request[current].state \in {"open", "stalled", "failed"}
                    \/ Dangling /\ request[current].query \in Lookalike

\* What a page shows is its own: the rows answer the last search made on it and
\* are judged by that search's package, and a page without a search is empty,
\* whatever is still on its way from a page or a search before.
ShownIsAsked ==
  open =>
    /\ \A row \in results : row.query = asked /\ fixInfo.query = row.query
    /\ asked = Blank => results = {} /\ status \in {"", "no model"} /\ ~busy
    /\ busy => request[current].query = asked

\* Once the catalogue is there, every row is flagged by it, the rows that were
\* shown before it came too.
FlagsFollowCatalogue ==
  kev = Exploited => \A row \in results : row.kev = (row.id \in Exploited)

\* A search ends, with rows, without, or with an error, or is superseded, unless
\* its connection has gone silent or its reply was taken for the catalogue: those
\* two leave the page busy for as long as nobody searches again.
SearchEnds ==
  busy ~> \/ ~busy
          \/ current # 0 /\ request[current].state = "stalled"
          \/ Dangling

\* The inductive invariant: each request that was sent asks for something, and
\* the page has judged by the package it asked for.
IInv ==
  /\ TypeOK /\ ShownIsAsked /\ FlagsFollowCatalogue
  /\ \A r \in Request : request[r].state # "free" => request[r].query \in Query
  /\ open => fixInfo.query = asked
==============================================================================
