------------------------------ MODULE ProcModel ------------------------------
(***************************************************************************)
(* The process list behind the list view (procmodel.cpp): the latest sample,*)
(* the rows that are shown, and the hold that parks samples while a finger  *)
(* is on the list.  It has no process of its own: every operation is a call *)
(* made on the GUI thread, and Pipeline makes those calls.                  *)
(***************************************************************************)
EXTENDS Naturals

CONSTANTS
  Row,    \* what a row can say: a process with its figures
  View    \* a view is search, sort key, direction and the two filters: the
          \* set of the rows it accepts

ASSUME ProcModelAssumption == View \in SUBSET SUBSET Row /\ View # {}

VARIABLES
  all,         \* m_all: the latest sample
  rows,        \* m_rows: the rows shown, their order left out
  held,        \* m_held
  haveSample,  \* m_haveSample
  view         \* m_search, m_sortKey, m_desc, m_showKernel, m_appsOnly

modelVars == <<all, rows, held, haveSample, view>>

ModelTypeOK ==
  /\ all \in SUBSET Row /\ rows \in SUBSET Row
  /\ held \in BOOLEAN /\ haveSample \in BOOLEAN /\ view \in View

ModelInit ==
  /\ all = {} /\ rows = {}
  /\ held = FALSE /\ haveSample = FALSE
  /\ view \in View

\* rebuild(): filter, then sort.
Rebuilt(list, v) == list \cap v

\* A slip: a sample that goes through to the rows whatever is held.
ModelOnProcessesAnyway(list) ==
  /\ all' = list
  /\ haveSample' = TRUE
  /\ rows' = Rebuilt(list, view)
  /\ UNCHANGED <<held, view>>

\* A sample is parked while the list is held.
ModelOnProcesses(list) ==
  /\ all' = list
  /\ haveSample' = TRUE
  /\ rows' = IF held THEN rows ELSE Rebuilt(list, view)
  /\ UNCHANGED <<held, view>>

\* setHeld(): releasing shows what was parked.
SetHeld(on) ==
  /\ held # on
  /\ held' = on
  /\ rows' = IF ~on /\ haveSample THEN Rebuilt(all, view) ELSE rows
  /\ UNCHANGED <<all, haveSample, view>>

\* setSearch(), setSortKey(), setDescending(), setShowKernel(), setAppsOnly():
\* each rebuilds at once, held or not.
SetView(v) ==
  /\ view # v
  /\ view' = v
  /\ rows' = Rebuilt(all, v)
  /\ UNCHANGED <<all, held, haveSample>>
==============================================================================
