----------------------------- MODULE EventSidebar -----------------------------
(***************************************************************************)
(* The event log of the terminal client (cli/src/eventLog.ts) and the      *)
(* sidebar that shows it (Sidebar of cli/src/tui/widgets.ts).  The sidebar *)
(* draws itself after every key, click, resize and logged event, and the   *)
(* next key works on what was drawn last.                                  *)
(***************************************************************************)
EXTENDS Integers, SequencesExt

CONSTANTS
  LogCap,     \* CAP
  MaxLogId,   \* bound on the entries logged
  BodyHeights \* heights the pane can have, in lines

ASSUME SidebarBounds ==
  /\ LogCap \in Nat \ {0} /\ MaxLogId \in Nat
  /\ BodyHeights \subseteq Nat \ {0} /\ BodyHeights # {}

VARIABLES
  entries,   \* events: the ids that are kept, oldest first
  nextEntry, \* nextId
  bar        \* the Sidebar: mode, scrollTop as top, autoScroll as auto,
             \* selectedId as sel (0 for null), expanded, rendered as drawn,
             \* totalLines as total; the height of its body, and its focus

sideVars == <<entries, nextEntry, bar>>

NewSidebar(height) ==
  [mode |-> "none", top |-> 0, auto |-> TRUE, sel |-> 0, expanded |-> {},
   drawn |-> <<>>, total |-> 0, height |-> height, focused |-> FALSE]

SideInit ==
  /\ entries = <<>> /\ nextEntry = 1
  /\ bar = NewSidebar(CHOOSE h \in BodyHeights : TRUE)

(* The detail lines of an entry: the sizes that occur, in turn.            *)
Details(id) == id % 3

AtLeast0(n) == IF n < 0 THEN 0 ELSE n
Lesser(m, n) == IF m < n THEN m ELSE n

-----------------------------------------------------------------------------
(* _computeEventLines: <<id, 0>> is the header of an entry, <<id, k>> the  *)
(* k-th of its details.                                                    *)
EventLines(events, expanded) ==
  FlattenSeq([i \in DOMAIN events |->
    [k \in 1..(1 + IF events[i] \in expanded THEN Details(events[i]) ELSE 0) |->
       <<events[i], k - 1>>]])

Headers(lines) == SelectSeq(lines, LAMBDA l : l[2] = 0)

(* _renderEventLog; the first time it has the focus it selects the last    *)
(* header shown.                                                           *)
RenderEventLog(b, events) ==
  LET lines == EventLines(events, b.expanded)
      max == AtLeast0(Len(lines) - b.height)
      top == IF b.auto THEN max ELSE Lesser(b.top, max)
      drawn == SubSeq(lines, top + 1, Lesser(top + b.height, Len(lines)))
      heads == Headers(drawn)
  IN [b EXCEPT !.top = top, !.total = Len(lines), !.drawn = drawn,
               !.sel = IF b.focused /\ b.sel = 0 /\ heads # <<>>
                       THEN Last(heads)[1] ELSE @]

(* render: the verify panel has no state of its own.                       *)
Drawn(b, events) == IF b.mode = "event-log" THEN RenderEventLog(b, events) ELSE b

MaxTop(b) == AtLeast0(b.total - b.height)

(* _scrollPage: a page is one line less than the body, and at least one.   *)
Page(b) == IF b.height > 1 THEN b.height - 1 ELSE 1
PageDown(b) ==
  LET top == Lesser(b.top + Page(b), MaxTop(b))
  IN [b EXCEPT !.top = top, !.auto = @ \/ top >= MaxTop(b)]
PageUp(b) == [b EXCEPT !.top = AtLeast0(@ - Page(b)), !.auto = FALSE]

(* _ensureSelectionVisible                                                 *)
EnsureVisible(b) ==
  CASE \E i \in DOMAIN b.drawn : b.drawn[i] = <<b.sel, 0>> -> b
    [] b.top = 0 -> PageDown(b)
    [] OTHER -> PageUp(b)

(* _move                                                                   *)
Selected(b, events, dir) ==
  LET at == SelectInSeq(events, LAMBDA id : id = b.sel)
  IN CASE b.sel = 0 -> IF dir = 1 THEN Head(events) ELSE Last(events)
       [] b.sel # 0 /\ at = 0 -> Last(events)
       [] OTHER -> events[IF dir = 1 THEN Lesser(at + 1, Len(events))
                                     ELSE IF at = 1 THEN 1 ELSE at - 1]
MoveSelection(b, events, dir) ==
  IF events = <<>> THEN [b EXCEPT !.sel = 0]
  ELSE EnsureVisible([b EXCEPT !.sel = Selected(b, events, dir), !.auto = FALSE])

LastLine(lines, id) == SelectLastInSeq(lines, LAMBDA l : l[1] = id)

(* Mutant: the last line is taken for the first below the body.            *)
ScrolledIntoViewShort(b, events) ==
  LET lines == EventLines(events, b.expanded)
      last == LastLine(lines, b.sel)
      max == AtLeast0(Len(lines) - b.height)
      top == Lesser(last - b.height - 1, max)
  IN IF last = 0 \/ last <= b.top + b.height THEN b
     ELSE [b EXCEPT !.top = top, !.auto = @ \/ top >= max]

(* _scrollSelectedEntryIntoView: down to the last line of the entry.       *)
ScrolledIntoView(b, events) ==
  LET lines == EventLines(events, b.expanded)
      last == LastLine(lines, b.sel)
      max == AtLeast0(Len(lines) - b.height)
      top == Lesser(last - b.height, max)
  IN IF last = 0 \/ last <= b.top + b.height THEN b
     ELSE [b EXCEPT !.top = top, !.auto = @ \/ top >= max]

(* _toggleExpanded                                                         *)
ToggleExpanded(b, events) ==
  IF b.sel = 0 THEN b
  ELSE ScrolledIntoView([b EXCEPT !.expanded =
         IF b.sel \in @ THEN @ \ {b.sel} ELSE @ \cup {b.sel}], events)

(* scrollByLines, by the wheel.                                            *)
WheelUp(b) ==
  LET top == AtLeast0(b.top - 3)
  IN [b EXCEPT !.top = top, !.auto = top >= MaxTop(b)]
WheelDown(b) ==
  LET top == Lesser(b.top + 3, MaxTop(b))
  IN [b EXCEPT !.top = top, !.auto = @ \/ top >= MaxTop(b)]

-----------------------------------------------------------------------------
(* Mutant: a new entry takes the view to the end.                          *)
LogEventSnaps ==
  /\ nextEntry <= MaxLogId
  /\ nextEntry' = nextEntry + 1
  /\ LET longer == Append(entries, nextEntry)
     IN entries' = IF Len(longer) > LogCap THEN Tail(longer) ELSE longer
  /\ bar' = Drawn([bar EXCEPT !.auto = TRUE], entries')

(* logEvent and its listener.                                              *)
LogEvent ==
  /\ nextEntry <= MaxLogId
  /\ nextEntry' = nextEntry + 1
  /\ LET longer == Append(entries, nextEntry)
     IN entries' = IF Len(longer) > LogCap THEN Tail(longer) ELSE longer
  /\ bar' = Drawn(bar, entries')

(* A chat that is left and shown again has a new Sidebar; the log is kept  *)
(* over a reconnect and the lobby, and starts anew (resetEvents) with a    *)
(* room that the user asks for.                                            *)
Remount ==
  /\ bar' = NewSidebar(bar.height)
  /\ \/ UNCHANGED <<entries, nextEntry>>
     \/ entries' = <<>> /\ nextEntry' = 1

(* setMode: the log opens at its end.                                      *)
SetMode ==
  /\ \E mode \in {"none", "event-log", "verify"} \ {bar.mode} :
       bar' = Drawn([bar EXCEPT !.mode = mode, !.auto = @ \/ mode = "event-log",
                                !.focused = @ /\ mode # "none"], entries)
  /\ UNCHANGED <<entries, nextEntry>>

FocusMoves ==
  /\ bar.mode # "none"
  /\ bar' = Drawn([bar EXCEPT !.focused = ~@], entries)
  /\ UNCHANGED <<entries, nextEntry>>

PaneResized ==
  /\ \E h \in BodyHeights \ {bar.height} : bar' = Drawn([bar EXCEPT !.height = h], entries)
  /\ UNCHANGED <<entries, nextEntry>>

(* onKey: the keys need the focus, and only the log has any.               *)
HasKeys == bar.mode = "event-log" /\ bar.focused
Pressed(b) == bar' = Drawn(b, entries) /\ UNCHANGED <<entries, nextEntry>>

UpDown == HasKeys /\ \E dir \in {-1, 1} : Pressed(MoveSelection(bar, entries, dir))
PageKey == HasKeys /\ \E b \in {PageDown(bar), PageUp(bar)} : Pressed(b)
HomeKey ==
  HasKeys /\ Pressed([bar EXCEPT !.top = 0, !.auto = FALSE,
                        !.sel = IF entries = <<>> THEN 0 ELSE Head(entries)])
EndKey ==
  HasKeys /\ Pressed([bar EXCEPT !.auto = TRUE,
                        !.sel = IF entries = <<>> THEN 0 ELSE Last(entries)])
EnterKey == HasKeys /\ Pressed(ToggleExpanded(bar, entries))
Wheel == bar.mode = "event-log" /\ \E b \in {WheelUp(bar), WheelDown(bar)} : Pressed(b)

SideNext ==
  \/ LogEvent \/ Remount \/ SetMode \/ FocusMoves \/ PaneResized
  \/ UpDown \/ PageKey \/ HomeKey \/ EndKey \/ EnterKey \/ Wheel

SideSpec == SideInit /\ [][SideNext]_sideVars

-----------------------------------------------------------------------------
InView(b, line) == \E i \in DOMAIN b.drawn : b.drawn[i] = line

(* Opening or closing an entry whose header is in view leaves its last     *)
(* line in view, although the view is moved once by the key and once more  *)
(* when it is drawn (_scrollSelectedEntryIntoView, _renderEventLog).       *)
ExpandedInView ==
  [][(EnterKey /\ InView(bar, <<bar.sel, 0>>)) =>
       InView(bar', <<bar.sel, IF bar.sel \in bar'.expanded
                               THEN Details(bar.sel) ELSE 0>>)]_sideVars

(* The lines of the oldest entry, which goes when the log is full.         *)
OldestLines(b) ==
  1 + IF Head(entries) \in b.expanded THEN Details(Head(entries)) ELSE 0

(* Somebody who reads back in the log keeps what is in view when another   *)
(* entry comes.  While the log grows, nothing moves.  When it is full the  *)
(* scroll position stays and the lines move under it, by those of the      *)
(* entry that goes and no more: of what was in view at most that many      *)
(* lines are lost, at the top (logEvent, _renderEventLog, autoScroll).     *)
LogBacklogKept ==
  [][(bar.mode = "event-log" /\ bar.top < MaxTop(bar) /\ nextEntry' > nextEntry) =>
       IF Len(entries) < LogCap THEN bar'.drawn = bar.drawn
       ELSE \A i \in DOMAIN bar.drawn :
              i > OldestLines(bar) => InView(bar', bar.drawn[i])]_sideVars
=============================================================================
