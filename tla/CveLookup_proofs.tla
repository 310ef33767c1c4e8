--------------------------- MODULE CveLookup_proofs ---------------------------
(***************************************************************************)
(* Proofs about CveLookup for any set of queries and vulnerabilities, any   *)
(* catalogue and any number of requests: a page shows the answer to its own *)
(* search, flagged by the catalogue as soon as that is there.               *)
(***************************************************************************)
EXTENDS CveLookup, TLAPS

Row == [id : Id, kev : BOOLEAN, query : Query]

Requests ==
  [Request -> [state : {"free", "open", "stalled", "failed", "over"},
               query : Query \cup {Blank}]]

\* The first state, and below the one after the program was started again.
LEMMA StartIInv == Init => IInv
<1> SUFFICES ASSUME Init PROVE IInv
  OBVIOUS
<1>1. request \in Requests /\ \A r \in Request : request[r].state = "free"
  BY DEF Init, NoRequest, Requests
<1>2. fixCache \in [Query -> {"none", "installed", "missing"}]
  BY DEF Init, NothingCached
<1>3. fixInfo \in [query : Query \cup {Blank}, installed : BOOLEAN] /\ fixInfo.query = Blank
  BY DEF Init, NoFixInfo
<1>4. TypeOK
  BY <1>1, <1>2, <1>3 DEF Init, TypeOK, Requests, Status
<1>5. ShownIsAsked /\ FlagsFollowCatalogue
  BY DEF Init, ShownIsAsked, FlagsFollowCatalogue
<1> QED BY <1>1, <1>4, <1>5 DEF IInv, Init

LEMMA RestartIInv == AbortsDeleted => IInv'
<1> SUFFICES ASSUME AbortsDeleted PROVE IInv'
  OBVIOUS
<1>1. request' \in Requests /\ \A r \in Request : request'[r].state = "free"
  BY DEF AbortsDeleted, NoRequest, Requests
<1>2. fixCache' \in [Query -> {"none", "installed", "missing"}]
  BY DEF AbortsDeleted, NothingCached
<1>3. /\ fixInfo' \in [query : Query \cup {Blank}, installed : BOOLEAN]
      /\ fixInfo'.query = Blank
  BY DEF AbortsDeleted, NoFixInfo
<1>4. TypeOK'
  BY <1>1, <1>2, <1>3 DEF AbortsDeleted, TypeOK, Requests, Status
<1>5. ShownIsAsked' /\ FlagsFollowCatalogue'
  BY DEF AbortsDeleted, ShownIsAsked, FlagsFollowCatalogue
<1> QED BY <1>1, <1>4, <1>5 DEF IInv, AbortsDeleted

\* The abort of the request before leaves what was asked alone, and no request
\* that was sent becomes one that was not.
LEMMA AbortedKeeps ==
  ASSUME IInv
  PROVE  /\ Aborted \in Requests
         /\ \A r \in Request : /\ Aborted[r].query = request[r].query
                               /\ Aborted[r].state = "free" <=> request[r].state = "free"
  BY DEF IInv, TypeOK, Aborted, Requests

\* The rows of an answer are rows, of its search and flagged by the catalogue.
LEMMA RowsAre ==
  ASSUME NEW q \in Query, NEW ids \in SUBSET Id
  PROVE  /\ Rows(q, ids) \subseteq Row
         /\ \A row \in Rows(q, ids) : row.query = q /\ row.kev = (row.id \in kev)
<1>1. SUFFICES ASSUME NEW i \in ids, NEW row, row = [id |-> i, kev |-> i \in kev, query |-> q]
      PROVE  row \in Row /\ row.query = q /\ row.kev = (row.id \in kev)
  BY DEF Rows
<1>2. (i \in kev) \in BOOLEAN /\ i \in Id
  OBVIOUS
<1>3. row.id = i /\ row.query = q /\ row.kev = (i \in kev)
  BY <1>1
<1>4. row \in Row
  BY <1>1, <1>2 DEF Row
<1> QED BY <1>3, <1>4

\* Flagging rows again changes their flags and nothing else.
LEMMA FlaggedAre ==
  ASSUME NEW shown \in SUBSET Row, NEW listed, NEW row \in Flagged(shown, listed)
  PROVE  /\ row \in Row /\ row.kev = (row.id \in listed)
         /\ \E old \in shown : row.query = old.query
<1>1. PICK old \in shown : row = [old EXCEPT !.kev = old.id \in listed]
  BY DEF Flagged
<1>2. old \in Row /\ (old.id \in listed) \in BOOLEAN
  OBVIOUS
<1>3. row.id = old.id /\ row.query = old.query /\ row.kev = (old.id \in listed)
  BY <1>1, <1>2 DEF Row
<1>4. row \in Row
  BY <1>1, <1>2 DEF Row
<1> QED BY <1>3, <1>4

Over(r) == [request EXCEPT ![r].state = "over"]

\* A reply that is over keeps the invariant: taken for the catalogue, wanted, or
\* neither.
LEMMA FinishKeeps ==
  ASSUME IInv, NEW r \in Request, request[r].state \in {"open", "failed"},
         NEW outcome \in {"found", "unexpected", "error"}, NEW ids \in SUBSET Id,
         request' = Over(r),
         OnFinished(r, outcome, ids),
         UNCHANGED <<catalogue, kev, fixCache, open, fixInfo, asked>>
  PROVE  IInv'
<1> USE CveAssumption
<1>1. /\ request' \in Requests
      /\ request'[r].state = "over"
      /\ \A s \in Request : request'[s].query = request[s].query
      /\ \A s \in Request \ {r} : request'[s] = request[s]
      /\ 0 \notin Request
  BY DEF IInv, TypeOK, Request, Requests, Over
<1>2. request[r].query \in Query
  BY DEF IInv
<1>3. CASE request[r].query \notin Lookalike /\ Wanted(r)
  <2>1. /\ current = r /\ current' = 0 /\ busy /\ busy' = FALSE /\ status' = outcome
        /\ results' = IF outcome = "found" THEN Rows(request[r].query, ids) ELSE results
    BY <1>1, <1>3 DEF OnFinished, Wanted, Settled, IInv, TypeOK
  <2>2. /\ Rows(request[r].query, ids) \subseteq Row
        /\ \A row \in Rows(request[r].query, ids) :
             row.query = request[r].query /\ row.kev = (row.id \in kev)
    BY <1>2, RowsAre
  <2>3. TypeOK'
    <3>1. results' \subseteq Row
      BY <2>1, <2>2 DEF IInv, TypeOK, Row
    <3>2. status' \in Status
      BY <2>1 DEF Status
    <3> QED BY <1>1, <2>1, <3>1, <3>2 DEF IInv, TypeOK, Row, Requests
  <2>4. ShownIsAsked'
    BY <1>2, <2>1, <2>2 DEF IInv, ShownIsAsked
  <2>5. FlagsFollowCatalogue'
    BY <2>1, <2>2 DEF IInv, FlagsFollowCatalogue
  <2> QED BY <1>1, <1>2, <2>3, <2>4, <2>5 DEF IInv
<1>4. CASE request[r].query \notin Lookalike /\ ~Wanted(r)
  <2>1. UNCHANGED <<current, busy, status, results>> /\ current # r
    BY <1>4 DEF OnFinished, Wanted
  <2>2. TypeOK'
    <3>1. current # 0 => request'[current] = request[current]
      BY <1>1, <2>1 DEF IInv, TypeOK
    <3> QED BY <1>1, <2>1, <3>1 DEF IInv, TypeOK, Requests, Dangling
  <2>3. ShownIsAsked' /\ FlagsFollowCatalogue'
    BY <1>1, <2>1 DEF IInv, TypeOK, ShownIsAsked, FlagsFollowCatalogue
  <2> QED BY <1>1, <1>2, <2>1, <2>2, <2>3 DEF IInv
<1>5. CASE request[r].query \in Lookalike
  <2>1. /\ UNCHANGED <<current, busy, status>>
        /\ results' = IF outcome = "error" THEN results ELSE Flagged(results, kev)
    BY <1>5 DEF OnFinished
  <2>2. results \subseteq Row /\ FlagsFollowCatalogue /\ ShownIsAsked /\ TypeOK
    BY DEF IInv, TypeOK, Row
  <2>3. /\ results' \subseteq Row /\ (results = {} => results' = {})
        /\ \A row \in results' : \E old \in results : row.query = old.query
        /\ FlagsFollowCatalogue'
    <3>1. CASE outcome = "error"
      BY <2>1, <2>2, <3>1 DEF FlagsFollowCatalogue
    <3>2. CASE outcome # "error"
      <4>1. results' = Flagged(results, kev)
        BY <2>1, <3>2
      <4>2. \A row \in results' : /\ row \in Row /\ row.kev = (row.id \in kev)
                                  /\ \E old \in results : row.query = old.query
        BY <2>2, <4>1, FlaggedAre
      <4>3. results = {} => results' = {}
        BY <4>1 DEF Flagged
      <4> QED BY <4>2, <4>3 DEF FlagsFollowCatalogue
    <3> QED BY <3>1, <3>2
  <2>4. current' # 0 =>
          \/ request'[current'].state \in {"open", "stalled", "failed"}
          \/ Dangling' /\ request'[current'].query \in Lookalike
    <3>1. CASE current = r
      BY <1>1, <1>5, <2>1, <3>1 DEF Dangling
    <3>2. CASE current # r
      <4>1. current # 0 => request'[current] = request[current]
        BY <1>1, <2>2, <3>2 DEF TypeOK
      <4> QED BY <2>1, <2>2, <4>1 DEF TypeOK, Dangling
    <3> QED BY <3>1, <3>2
  <2>5. TypeOK'
    BY <1>1, <2>1, <2>2, <2>3, <2>4 DEF TypeOK, Row, Requests
  <2>6. ShownIsAsked'
    <3>1. busy => current \in Request
      BY <2>2 DEF TypeOK
    <3> QED BY <1>1, <2>1, <2>2, <2>3, <3>1 DEF ShownIsAsked
  <2> QED BY <1>1, <1>2, <2>3, <2>5, <2>6 DEF IInv
<1> QED BY <1>3, <1>4, <1>5

\* A connection that goes silent leaves everything else as it is.
LEMMA StallKeeps == ASSUME IInv, NEW r \in Request, Stalls(r) PROVE IInv'
<1>1. /\ request[r].state = "open"
      /\ request' = [request EXCEPT ![r].state = "stalled"]
      /\ UNCHANGED <<current, busy, status, results, catalogue, kev, fixCache, open,
                     fixInfo, asked>>
  BY DEF Stalls
<1>2. /\ request' \in Requests
      /\ request'[r].state = "stalled"
      /\ \A s \in Request : request'[s].query = request[s].query
      /\ \A s \in Request \ {r} : request'[s] = request[s]
      /\ request[r].query \in Query
  BY <1>1 DEF IInv, TypeOK, Requests
<1>3. TypeOK'
  <2>1. current # 0 => \/ request'[current].state \in {"open", "stalled", "failed"}
                       \/ request'[current] = request[current]
    BY <1>2 DEF IInv, TypeOK
  <2>2. current' # 0 =>
          \/ request'[current'].state \in {"open", "stalled", "failed"}
          \/ Dangling' /\ request'[current'].query \in Lookalike
    BY <1>1, <2>1 DEF IInv, TypeOK, Dangling
  <2> QED BY <1>1, <1>2, <2>2 DEF IInv, TypeOK, Requests
<1>4. ShownIsAsked' /\ FlagsFollowCatalogue'
  BY <1>1, <1>2 DEF IInv, TypeOK, ShownIsAsked, FlagsFollowCatalogue
<1> QED BY <1>1, <1>2, <1>3, <1>4 DEF IInv

LEMMA StepIInv == IInv /\ [Next]_vars => IInv'
<1> SUFFICES ASSUME IInv, [Next]_vars PROVE IInv'
  OBVIOUS
<1> USE CveAssumption
<1>1. CASE OpenPage
  <2>1. /\ open' /\ asked' = Blank /\ fixInfo' = NoFixInfo /\ request' = Aborted
        /\ current' = 0 /\ results' = {} /\ status' = "" /\ busy' = FALSE
        /\ UNCHANGED <<catalogue, kev, fixCache>>
    BY <1>1 DEF OpenPage, BusyAfterReset
  <2> QED BY <2>1, AbortedKeeps
          DEF IInv, TypeOK, ShownIsAsked, FlagsFollowCatalogue, NoFixInfo, Status, Requests
<1>2. CASE ClosePage
  BY <1>2 DEF ClosePage, searchVars, IInv, TypeOK, Dangling, ShownIsAsked, FlagsFollowCatalogue
<1>3. CASE SearchBlank
  <2>1. /\ open' /\ asked' = Blank /\ fixInfo' = NoFixInfo /\ request' = Aborted
        /\ current' = 0 /\ results' = {} /\ status' = "no model" /\ busy' = FALSE
        /\ UNCHANGED <<catalogue, kev, fixCache>>
    BY <1>3 DEF SearchBlank
  <2> QED BY <2>1, AbortedKeeps
          DEF IInv, TypeOK, ShownIsAsked, FlagsFollowCatalogue, NoFixInfo, Status, Requests
<1>4. ASSUME NEW q \in Query, NEW r \in Request, Search(q, r) PROVE IInv'
  <2>1. PICK state \in {"open", "failed"} :
          request' = [Aborted EXCEPT ![r] = [state |-> state, query |-> q]]
    BY <1>4 DEF Search
  <2>2. /\ request' \in Requests
        /\ request'[r] = [state |-> state, query |-> q]
        /\ \A s \in Request : request'[s].state # "free" => request'[s].query \in Query
    BY <2>1, AbortedKeeps DEF IInv, Requests
  <2>3. PICK found \in {"installed", "missing"} :
          /\ fixCache' = [fixCache EXCEPT ![q] = found]
          /\ fixInfo' = [query |-> q, installed |-> found = "installed"]
    BY <1>4 DEF Search, PackageFixInfo
  <2>4. /\ fixCache' \in [Query -> {"none", "installed", "missing"}]
        /\ fixInfo' \in [query : Query \cup {Blank}, installed : BOOLEAN]
        /\ fixInfo'.query = q
    BY <2>3 DEF IInv, TypeOK
  <2>5. /\ asked' = q /\ results' = {} /\ busy' = TRUE /\ status' = "searching"
        /\ current' = r /\ 0 \notin Request
        /\ UNCHANGED <<catalogue, kev, open>>
    BY <1>4 DEF Search, Request
  <2>6. TypeOK'
    <3>1. request'[current'].state \in {"open", "failed"} /\ status' \in Status
      <4>1. request'[r].state = state
        BY <2>2
      <4> QED BY <4>1, <2>5 DEF Status
    <3>2. catalogue' \in {"open", "over"} /\ kev' \in {{}, Exploited} /\ open' \in BOOLEAN
      BY <2>5 DEF IInv, TypeOK
    <3>3. busy' \in BOOLEAN /\ (busy' <=> current' # 0)
      BY <2>5
    <3> QED BY <2>2, <2>4, <2>5, <3>1, <3>2, <3>3 DEF TypeOK, Requests
  <2>7. ShownIsAsked' /\ FlagsFollowCatalogue'
    BY <2>2, <2>5 DEF ShownIsAsked, FlagsFollowCatalogue
  <2> QED BY <2>2, <2>4, <2>5, <2>6, <2>7 DEF IInv
<1>5. ASSUME NEW r \in Request, Answered(r) PROVE IInv'
  <2>1. /\ request[r].state \in {"open", "failed"}
        /\ request' = Over(r) /\ {} \in SUBSET Id
        /\ UNCHANGED <<catalogue, kev, fixCache, open, fixInfo, asked>>
    BY <1>5 DEF Answered, Over
  <2>2. ASSUME NEW ids \in SUBSET Id, OnFinished(r, "found", ids) PROVE IInv'
    BY <2>1, <2>2, FinishKeeps
  <2>3. ASSUME NEW outcome \in {"unexpected", "error"}, OnFinished(r, outcome, {})
        PROVE  IInv'
    BY <2>1, <2>3, FinishKeeps
  <2> QED BY <1>5, <2>2, <2>3 DEF Answered
<1>6. ASSUME NEW r \in Request, QueuedFinish(r) PROVE IInv'
  <2>1. /\ request[r].state \in {"open", "failed"}
        /\ request' = Over(r) /\ {} \in SUBSET Id
        /\ OnFinished(r, "error", {})
        /\ UNCHANGED <<catalogue, kev, fixCache, open, fixInfo, asked>>
    BY <1>6 DEF QueuedFinish, Over
  <2> QED BY <2>1, FinishKeeps
<1>7. CASE CatalogueFinished
  <2>1. /\ catalogue' = "over"
        /\ UNCHANGED <<request, current, busy, status, fixCache, open, fixInfo, asked>>
    BY <1>7 DEF CatalogueFinished
  <2>2. CASE UNCHANGED <<kev, results>>
    BY <2>1, <2>2 DEF IInv, TypeOK, Dangling, ShownIsAsked, FlagsFollowCatalogue
  <2>3. CASE kev' = Exploited /\ results' = Flagged(results, kev')
    <3>1. results \subseteq Row
      BY DEF IInv, TypeOK, Row
    <3>2. \A row \in results' :
            /\ row \in Row /\ row.kev = (row.id \in Exploited)
            /\ \E old \in results : row.query = old.query
      BY <2>3, <3>1, FlaggedAre
    <3>3. results = {} => results' = {}
      BY <2>3 DEF Flagged
    <3>4. TypeOK'
      BY <2>1, <2>3, <3>2 DEF IInv, TypeOK, Dangling, Row
    <3>5. ShownIsAsked' /\ FlagsFollowCatalogue'
      BY <2>1, <2>3, <3>2, <3>3 DEF IInv, ShownIsAsked, FlagsFollowCatalogue
    <3> QED BY <2>1, <3>4, <3>5 DEF IInv
  <2> QED BY <1>7, <2>2, <2>3 DEF CatalogueFinished
<1>8. CASE UNCHANGED vars
  BY <1>8 DEF vars, searchVars, IInv, TypeOK, Dangling, ShownIsAsked, FlagsFollowCatalogue
<1> QED
  BY <1>1, <1>2, <1>3, <1>4, <1>5, <1>6, <1>7, <1>8, StallKeeps, RestartIInv DEF Next

\* The inductive invariant holds in every reachable state.
THEOREM CveInvariant == Spec => []IInv
  BY StartIInv, StepIInv, PTL DEF Spec

\* Every variable keeps its kind, and the page is busy exactly while a reply is
\* wanted, which has not come or was taken for the catalogue.
THEOREM CveTypeOK == Spec => []TypeOK
<1>1. IInv => TypeOK
  BY DEF IInv
<1> QED BY <1>1, CveInvariant, PTL

\* However searches supersede one another and pages come and go, the rows on a
\* page answer the search that was made on it last.
THEOREM CveShownIsAsked == Spec => []ShownIsAsked
<1>1. IInv => ShownIsAsked
  BY DEF IInv
<1> QED BY <1>1, CveInvariant, PTL

\* Whichever comes first, rows or catalogue, the flags are the catalogue's.
THEOREM CveFlags == Spec => []FlagsFollowCatalogue
<1>1. IInv => FlagsFollowCatalogue
  BY DEF IInv
<1> QED BY <1>1, CveInvariant, PTL
==============================================================================
