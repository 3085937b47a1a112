------------------------------- MODULE Charts -------------------------------
(***************************************************************************)
(* The slice of history an operator sweeps out under a usage chart:        *)
(* RangeSelector.tsx (handles, drag, preview), the view that keeps the     *)
(* selection (Usage.tsx, Dashboard.tsx), the queries it keys by it         *)
(* (queries.ts, useUsage and useUsageOverview) and the answers the admin   *)
(* API gives for them.  A window's backdrop is fetched again while it is   *)
(* on screen, so the axis slides under a drag; answers come in any order.  *)
(***************************************************************************)
EXTENDS Ranges

CONSTANTS
  Windows,       \* WINDOWS: the lengths on offer
  MinSelection,  \* MIN_SELECTION_MS
  NoData,       \* null, and a query without data
  MaxAsked,      \* bound on the requests under way at once
  MaxToday       \* bound on the clock

\* A drag: an edge or a sweep, where it was pressed, and the slice it began from.
Drag == [kind : {"from", "to", "new"}, x : Nat, from : Nat, to : Nat]

ASSUME ChartsAssumption ==
  /\ Windows \subseteq Nat \ {0}
  /\ \E longest \in Windows : \A w \in Windows : w <= longest
  /\ MinSelection \in Nat \ {0} /\ NoData \notin Drag
  /\ MaxAsked \in Nat /\ MaxToday \in Nat /\ \A w \in Windows : w <= MaxToday

VARIABLES
  today,         \* Date.now(), of server and page
  window,        \* the window selected
  backdrop,      \* useUsageOverview's data of every window: the span of the axis
  selection,     \* the slice the charts are drawn from
  drag,          \* the drag under way, with the selection it began from
  preview,       \* the slice the handles show meanwhile
  answers,       \* useUsage's data: that of the key on screen, or what it leaves as placeholder
  pending        \* keys whose request is under way

chartVars == <<today, window, backdrop, selection, drag, preview, answers, pending>>

Slice == {slice \in [from : Nat, to : Nat] : slice.from <= slice.to}
Key(w, slice) == [window |-> w, slice |-> slice]
Shown == IF preview # NoData THEN preview ELSE selection

\* The handles never cross: no slice is shown or chosen whose ends are the wrong way round.
ChartsTypeOK ==
  /\ today \in 0..MaxToday /\ window \in Windows
  /\ backdrop \in [Windows -> (Nat \X Nat) \cup {NoData}]
  /\ selection = NoData \/ selection \in Slice
  /\ preview = NoData \/ preview \in Slice
  /\ drag = NoData \/ drag \in Drag
  /\ Cardinality(pending) <= MaxAsked

\* The histories are as long as the longest window.
ChartsInit ==
  /\ today = CHOOSE w \in Windows : \A other \in Windows : other <= w
  /\ window \in Windows
  /\ backdrop = [w \in Windows |-> NoData]
  /\ selection = NoData /\ drag = NoData /\ preview = NoData
  /\ answers = {} /\ pending = {}

----------------------------------------------------------------------------

\* The queries.  A key is asked when it comes on screen and again when it is stale.
useUsage ==
  /\ Key(window, selection) \notin pending /\ Cardinality(pending) < MaxAsked
  /\ pending' = pending \cup {Key(window, selection)}
  /\ UNCHANGED <<today, window, backdrop, selection, drag, preview, answers>>

\* The parameters of a key, as the query string carries them.
Bound(slice, edge) == IF slice = NoData THEN Omitted ELSE slice[edge]

\* The handler's answer, with the clock of the moment it runs.
usage(key) ==
  [key |-> key,
   range |-> readRange(Bound(key.slice, "from"), Bound(key.slice, "to"), key.window, today)]

\* An answer for a key that left the screen waits beside the one shown.
UsageAnswered(key) ==
  /\ key \in pending /\ pending' = pending \ {key}
  /\ answers' = {answer \in answers : answer.key = Key(window, selection) /\ answer.key # key}
                 \cup {usage(key)}
  /\ UNCHANGED <<today, window, backdrop, selection, drag, preview>>

\* The overview takes no range: its backdrop is the whole window, as of its answer.
useUsageOverview ==
  /\ backdrop[window] # rangeOf(window, today)
  /\ backdrop' = [backdrop EXCEPT ![window] = rangeOf(window, today)]
  /\ UNCHANGED <<today, window, selection, drag, preview, answers, pending>>

----------------------------------------------------------------------------

\* The selector is on screen once the window has its backdrop and the view some answer.
Mounted == backdrop[window] # NoData /\ answers # {}

\* timeAt: a pointer anywhere maps to a time of the axis.
Axis == IF Mounted THEN backdrop[window][1]..backdrop[window][2] ELSE {}

\* Pressed near a handle the drag takes that edge; elsewhere it sweeps a new slice.  Only
\* the sweep goes on reading where it began.
PressEdge(edge) ==
  /\ drag = NoData /\ Mounted /\ Shown # NoData
  /\ drag' = [kind |-> edge, x |-> Shown[edge], from |-> Shown.from, to |-> Shown.to]
  /\ UNCHANGED <<today, window, backdrop, selection, preview, answers, pending>>

PressPlot ==
  /\ drag = NoData /\ Mounted
  /\ \E at \in Axis :
       /\ drag' = [kind |-> "new", x |-> at, from |-> at, to |-> at]
       /\ preview' = [from |-> at, to |-> at]
  /\ UNCHANGED <<today, window, backdrop, selection, answers, pending>>

\* Seeded fault: the edge that is not dragged is clamped to the axis too.
draggedOnAxis(at) ==
  CASE drag.kind = "from" -> [from |-> Min({at, drag.to}), to |-> drag.to]
    [] drag.kind = "to"   -> LET from == Max({drag.from, backdrop[window][1]})
                             IN  [from |-> from, to |-> Max({at, from})]
    [] drag.kind = "new"  -> [from |-> Min({drag.x, at}), to |-> Max({drag.x, at})]

\* Seeded fault: an edge follows the pointer past the other one.
draggedFreely(at) ==
  CASE drag.kind = "from" -> [from |-> at, to |-> drag.to]
    [] drag.kind = "to"   -> [from |-> drag.from, to |-> at]
    [] drag.kind = "new"  -> [from |-> Min({drag.x, at}), to |-> Max({drag.x, at})]

\* An edge stops at the other one.
dragged(at) ==
  CASE drag.kind = "from" -> [from |-> Min({at, drag.to}), to |-> drag.to]
    [] drag.kind = "to"   -> [from |-> drag.from, to |-> Max({at, drag.from})]
    [] drag.kind = "new"  -> [from |-> Min({drag.x, at}), to |-> Max({drag.x, at})]

move ==
  /\ drag # NoData
  /\ \E at \in Axis : preview' = dragged(at)
  /\ UNCHANGED <<today, window, backdrop, selection, drag, answers, pending>>

\* Seeded fault: a click is a slice of no length.
ReleasedAsSwept == IF preview # NoData THEN preview ELSE selection

\* A slice too narrow to be meant is a click, which clears the selection.
Released ==
  IF preview = NoData THEN selection
  ELSE IF preview.to - preview.from >= MinSelection THEN preview ELSE NoData

up ==
  /\ drag # NoData
  /\ selection' = Released
  /\ drag' = NoData /\ preview' = NoData
  /\ UNCHANGED <<today, window, backdrop, answers, pending>>

onReset ==
  /\ drag = NoData /\ Mounted /\ selection # NoData
  /\ selection' = NoData
  /\ UNCHANGED <<today, window, backdrop, drag, preview, answers, pending>>

\* One pointer: the window is not changed in the middle of a drag.
ChooseWindow(w) ==
  /\ drag = NoData /\ w # window
  /\ window' = w /\ selection' = NoData
  /\ UNCHANGED <<today, backdrop, drag, preview, answers, pending>>

TimeGoesBy ==
  /\ today < MaxToday /\ today' = today + 1
  /\ UNCHANGED <<window, backdrop, selection, drag, preview, answers, pending>>

ChartsNext ==
  \/ useUsage \/ useUsageOverview \/ PressPlot \/ move \/ up \/ onReset \/ TimeGoesBy
  \/ \E key \in pending : UsageAnswered(key)
  \/ \E edge \in {"from", "to"} : PressEdge(edge)
  \/ \E w \in Windows : ChooseWindow(w)

ChartsSpec == ChartsInit /\ [][ChartsNext]_chartVars

----------------------------------------------------------------------------

\* What is summarised for a slice is the slice: the server, which falls back to the window
\* for a pair it cannot use, never has to (RangeSelector.tsx, up; handlers.ts, readRange).
\* A chart of the window under handles that say otherwise would be the two views disagreeing.
SliceIsSummarised ==
  \A answer \in answers :
    answer.key.slice # NoData => answer.range = <<answer.key.slice.from, answer.key.slice.to>>

\* Dragging one handle leaves the other where the selection had it, although the axis may
\* have slid past it since (RangeSelector.tsx, move and up).
OtherHandleStays ==
  [][ drag # NoData /\ drag' = NoData /\ selection # NoData /\ selection' # NoData
        => /\ drag.kind = "from" => selection'.to = selection.to
           /\ drag.kind = "to" => selection'.from = selection.from
    ]_chartVars

\* The handles never cross or disturb each other, and an answer for a slice is of that slice
\* (RangeSelector.tsx; readRange of admin/handlers.ts): the chart under the handles is of what
\* they select as soon as the answer for it is there.  Until then the former chart stays.
HandlesTellTheSlice == []ChartsTypeOK /\ []SliceIsSummarised /\ OtherHandleStays
=============================================================================
