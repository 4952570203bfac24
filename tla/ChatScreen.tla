------------------------------ MODULE ChatScreen ------------------------------
(***************************************************************************)
(* The chat screen of the terminal client: the focus ring, the file        *)
(* picker, the keys bar, the place of the sidebar and the list of messages *)
(* with its attachment cursor (renderChat and appendMessage of             *)
(* cli/src/tui/views.ts, ScrollView of widgets.ts, focus.ts).  The events  *)
(* are those that no modal swallows; the screen is drawn after each.       *)
(***************************************************************************)
EXTENDS Integers, SequencesExt

CONSTANTS
  ListHeight,  \* the lines the list has
  MaxMsgs      \* bound on the messages appended

ASSUME ChatBounds == ListHeight \in Nat \ {0} /\ MaxMsgs \in Nat

VARIABLES
  chat,   \* ring, as items and focus; keysMode as keys; picking; sidebar.mode
          \* as side; lastLayoutSig as sig; wide: SIDEBAR_MIN_COLS or more
  list    \* of the ScrollView: msgs, scrollTop as top, autoScroll as auto,
          \* selectedMsgIdx as sel (0 for null)

chatVars == <<chat, list>>

(* chatLayout, as far as its mode goes.                                    *)
Layout(c) ==
  CASE c.side = "none" -> "chat" [] c.side # "none" /\ ~c.wide -> "full" [] OTHER -> "side"

(* Mutant: the sidebar is in the ring whatever the width.                  *)
ChatFocusIdsWide(mode, picking) ==
  IF picking THEN <<"pathInput", "cancelBtn">>
  ELSE <<"chatInput", "sendBtn", "attachBtn", "rotateBtn", "msgArea">>
         \o IF mode = "chat" THEN <<>> ELSE <<"sidebar">>

ChatFocusIds(mode, picking) ==
  CASE picking -> <<"pathInput", "cancelBtn">>
    [] ~picking /\ mode = "full" -> <<"sidebar">>
    [] ~picking /\ mode = "side" ->
         <<"chatInput", "sendBtn", "attachBtn", "rotateBtn", "msgArea", "sidebar">>
    [] OTHER -> <<"chatInput", "sendBtn", "attachBtn", "rotateBtn", "msgArea">>

InRing(c, id) == \E i \in DOMAIN c.items : c.items[i] = id

(* setById; next, prev.                                                    *)
SetById(c, id) == IF InRing(c, id) THEN [c EXCEPT !.focus = id] ELSE c
Turn(c, by) ==
  LET i == SelectInSeq(c.items, LAMBDA id : id = c.focus)
      n == Len(c.items)
  IN [c EXCEPT !.focus = c.items[((i - 1 + by + n) % n) + 1]]

(* rebuildRing: a focus that is no longer there goes to the first.         *)
Rebuild(c) ==
  LET items == ChatFocusIds(Layout(c), c.picking)
  IN SetById([c EXCEPT !.items = items, !.focus = items[1]], c.focus)

Sig(c) == <<c.picking, Layout(c)>>

-----------------------------------------------------------------------------
(* The list.  A message is a text of one or two lines or a file, on one:   *)
(* the i-th starts below those before it and their second lines.           *)
FirstLine(l, i) == i + Cardinality({j \in 1..(i - 1) : l.msgs[j] = "long"})
TotalLines(l) == FirstLine(l, Len(l.msgs) + 1) - 1
MaxScroll(l) == IF TotalLines(l) > ListHeight THEN TotalLines(l) - ListHeight ELSE 0
Attachments(l) == {i \in DOMAIN l.msgs : l.msgs[i] = "file"}
Biggest(S) == CHOOSE i \in S : \A j \in S : j <= i
Smallest(S) == CHOOSE i \in S : \A j \in S : i <= j

(* Mutant: the line below the last is taken for visible.                   *)
DrawListLate(l, focused) ==
  LET max == MaxScroll(l)
      top == IF l.auto \/ l.top > max THEN max ELSE l.top
      line == FirstLine(l, l.sel)
  IN CASE focused /\ l.sel # 0 /\ line <= top -> [l EXCEPT !.top = line - 1, !.auto = FALSE]
       [] focused /\ l.sel # 0 /\ line > top + ListHeight + 1 ->
            [l EXCEPT !.top = line - ListHeight, !.auto = line - ListHeight >= max]
       [] OTHER -> [l EXCEPT !.top = top]

(* render of the list: the end of it, or where it was, and then to the     *)
(* selected attachment while the list has the focus.                       *)
DrawList(l, focused) ==
  LET max == MaxScroll(l)
      top == IF l.auto \/ l.top > max THEN max ELSE l.top
      line == FirstLine(l, l.sel)
  IN CASE focused /\ l.sel # 0 /\ line <= top -> [l EXCEPT !.top = line - 1, !.auto = FALSE]
       [] focused /\ l.sel # 0 /\ line > top + ListHeight ->
            [l EXCEPT !.top = line - ListHeight, !.auto = line - ListHeight >= max]
       [] OTHER -> [l EXCEPT !.top = top]

ScrollUp(l, n) == [l EXCEPT !.top = IF @ > n THEN @ - n ELSE 0, !.auto = FALSE]
ScrollDown(l, n) ==
  LET top == IF l.top + n > MaxScroll(l) THEN MaxScroll(l) ELSE l.top + n
  IN [l EXCEPT !.top = top, !.auto = @ \/ top >= MaxScroll(l)]

SelectLatest(l) == [l EXCEPT !.sel = IF Attachments(l) = {} THEN 0 ELSE Biggest(Attachments(l))]

(* moveSelection, where there are attachments.                             *)
MoveCursor(l, dir) ==
  LET before == {i \in Attachments(l) : i < l.sel}
      after == {i \in Attachments(l) : i > l.sel}
  IN CASE l.sel = 0 -> [l EXCEPT !.sel = IF dir = -1 THEN Biggest(after) ELSE Smallest(after)]
       [] l.sel # 0 /\ dir = -1 /\ before # {} -> [l EXCEPT !.sel = Biggest(before)]
       [] l.sel # 0 /\ dir = 1 /\ after # {} -> [l EXCEPT !.sel = Smallest(after)]
       [] OTHER -> l

(* onKey of the list; enter starts a download.                             *)
ListKeys(l) ==
  (IF Attachments(l) = {} THEN {ScrollUp(l, 1), ScrollDown(l, 1)}
   ELSE {MoveCursor(l, -1), MoveCursor(l, 1)}) \cup {ScrollUp(l, 10), ScrollDown(l, 10)}

-----------------------------------------------------------------------------
(* Mutant: the keys bar outlives the input.                                *)
DrawKeysKept(c, l) ==
  LET d == IF Sig(c) = c.sig THEN c ELSE Rebuild([c EXCEPT !.sig = Sig(c)])
  IN IF Layout(d) = "full" THEN chat' = d /\ list' = l
     ELSE chat' = d /\ list' = DrawList(l, d.focus = "msgArea")

(* render: a change of the layout rebuilds the ring; a sidebar that takes  *)
(* the whole screen ends the keys bar and leaves the list undrawn.         *)
Draw(c, l) ==
  LET d == IF Sig(c) = c.sig THEN c ELSE Rebuild([c EXCEPT !.sig = Sig(c)])
  IN IF Layout(d) = "full"
     THEN chat' = [d EXCEPT !.keys = FALSE] /\ list' = l
     ELSE chat' = d /\ list' = DrawList(l, d.focus = "msgArea")

(* afterFocusChange                                                        *)
Refocused(c, l) ==
  CASE c.focus = "msgArea" -> SelectLatest(l)
    [] c.focus = "sidebar" -> l
    [] OTHER -> [l EXCEPT !.auto = TRUE]
Moved(c) == Draw(c, Refocused(c, list))

ChatInit ==
  /\ chat = [items |-> ChatFocusIds("chat", FALSE), focus |-> "chatInput", keys |-> FALSE,
             picking |-> FALSE, side |-> "none", sig |-> <<FALSE, "chat">>, wide |-> TRUE]
  /\ list = [msgs |-> <<>>, top |-> 0, auto |-> TRUE, sel |-> 0]

(* enterPicking, exitPicking                                               *)
Picking(c, on) == Rebuild([c EXCEPT !.picking = on])

(* toggleMode: opening takes the focus to the sidebar, closing to the input*)
Toggled(c, target) ==
  LET d == Rebuild([c EXCEPT !.side = IF @ = target THEN "none" ELSE target])
  IN CASE c.side = "none" -> SetById(d, "sidebar")
       [] d.side = "none" -> SetById(d, "chatInput")
       [] OTHER -> d

Closed(c) == SetById(Rebuild([c EXCEPT !.side = "none"]), "chatInput")

Typing == ~chat.picking /\ ~chat.keys

(* Mutant: a new message moves the view whatever has the focus.            *)
AppendSnaps ==
  /\ Len(list.msgs) < MaxMsgs
  /\ \E msg \in {"line", "long", "file"} :
       Draw(chat, [list EXCEPT !.msgs = Append(@, msg), !.auto = TRUE])

(* appendMessage, appendFile: for what comes in and what is sent.          *)
AppendItem ==
  /\ Len(list.msgs) < MaxMsgs
  /\ \E msg \in {"line", "long", "file"} :
       Draw(chat, [list EXCEPT !.msgs = Append(@, msg),
                               !.auto = @ \/ chat.focus \notin {"msgArea", "sidebar"}])

(* The file picker takes every key: Tab completes, Shift-Tab moves; Escape,*)
(* Cancel, an empty path and a file chosen end it.                         *)
PickerKey ==
  /\ chat.picking
  /\ \E c \in {Turn(chat, -1), Picking(chat, FALSE)} : Draw(c, list)

(* The keys bar: R and Escape return to the input, E and V go on as the    *)
(* command would.                                                          *)
KeysBarKey ==
  /\ chat.keys /\ ~chat.picking
  /\ LET off == [chat EXCEPT !.keys = FALSE]
     IN \/ Draw(SetById(off, "chatInput"), list) \/ Draw(off, list)
        \/ \E target \in {"event-log", "verify"} : Moved(Toggled(off, target))

Escape ==
  /\ Typing
  /\ CASE chat.focus = "chatInput" -> Draw([chat EXCEPT !.keys = TRUE], list)
       [] chat.focus = "sidebar" -> Moved(Closed(chat))
       [] chat.focus = "msgArea" -> Moved(SetById(chat, "chatInput"))
       [] OTHER -> UNCHANGED chatVars

Tab ==
  /\ Typing
  /\ IF Layout(chat) = "full" THEN Moved(Closed(chat))
     ELSE \E by \in {-1, 1} : Moved(Turn(chat, by))

(* Enter on a widget: doSend with a command, or enterPicking.              *)
Command ==
  /\ Typing /\ chat.focus \in {"chatInput", "sendBtn"}
  /\ \E target \in {"event-log", "verify"} : Moved(Toggled(chat, target))
AttachPressed ==
  /\ Typing /\ chat.focus = "attachBtn" /\ Draw(Picking(chat, TRUE), list)
ListKey ==
  /\ Typing /\ chat.focus = "msgArea"
  /\ \E l \in ListKeys(list) : Draw(chat, l)

(* The wheel over the list; a click, also on a widget that the keys bar    *)
(* hides.  A sidebar that is closed is still hit, beside the bar.          *)
WheelOverList ==
  /\ Layout(chat) # "full"
  /\ \E l \in {ScrollUp(list, 3), ScrollDown(list, 3)} : Draw(chat, l)

Click ==
  /\ Layout(chat) # "full"
  /\ \E id \in IF chat.picking THEN {"pathInput", "cancelBtn"}
               ELSE {"chatInput", "sendBtn", "attachBtn", "rotateBtn", "msgArea", "sidebar"} :
       LET c == SetById([chat EXCEPT !.keys = FALSE], id)
       IN Draw(CASE id = "attachBtn" -> Picking(c, TRUE)
                 [] id = "cancelBtn" -> Picking(c, FALSE)
                 [] OTHER -> c, Refocused(c, list))

Resize == Draw([chat EXCEPT !.wide = ~@], list)

ChatNext ==
  \/ AppendItem \/ PickerKey \/ KeysBarKey \/ Escape \/ Tab \/ Command \/ AttachPressed
  \/ ListKey \/ WheelOverList \/ Click \/ Resize

ChatSpec == ChatInit /\ [][ChatNext]_chatVars

-----------------------------------------------------------------------------
(* What is drawn that can have the focus; the keys bar stands for the input*)
OnScreen(c) ==
  CASE Layout(c) = "full" -> {"sidebar"}
    [] Layout(c) # "full" /\ c.picking -> {"pathInput", "cancelBtn", "msgArea"}
    [] OTHER -> {"chatInput", "sendBtn", "attachBtn", "rotateBtn", "msgArea"}
                  \cup IF Layout(c) = "side" THEN {"sidebar"} ELSE {}

(* Keys never go to a widget that is not drawn, whatever is toggled,       *)
(* clicked or resized in whatever order (rebuildRing, lastLayoutSig) - but *)
(* for a window that shrinks under the sidebar and an open file picker.    *)
FocusShown ==
  ~(chat.picking /\ Layout(chat) = "full") => chat.focus \in OnScreen(chat)

(* The keys bar hides the input only while the input has the focus, and no *)
(* click, picker or narrow window leaves it on (keysMode).                 *)
KeysBarAtInput ==
  chat.keys => chat.focus = "chatInput" /\ ~chat.picking /\ Layout(chat) # "full"

(* In the list the attachment that Enter would save is on the screen,      *)
(* whatever comes in or is scrolled (ScrollView.render).                   *)
SelectedShown ==
  (chat.focus = "msgArea" /\ list.sel # 0) =>
     LET line == FirstLine(list, list.sel)
     IN list.top < line /\ line <= list.top + ListHeight

(* A message that comes in leaves the view where it is for somebody who    *)
(* reads back, and is shown to somebody at the input (appendMessage).      *)
MessageLands ==
  [][(AppendItem /\ Layout(chat) # "full") =>
       IF chat.focus \in {"msgArea", "sidebar"}
       THEN list.top < MaxScroll(list) => list'.top = list.top
       ELSE list'.top + ListHeight >= TotalLines(list')]_chatVars
=============================================================================
