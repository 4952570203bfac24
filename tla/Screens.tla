------------------------------- MODULE Screens -------------------------------
(***************************************************************************)
(* Which screen of the terminal client is up and what the terminal shows:  *)
(* the views of cli/src/tui/views.ts, the handles through which the rest   *)
(* of the program paints on them, the modal over them and the guard on     *)
(* Ctrl+C.  Copying, saving and browsing end when another screen may be up.*)
(***************************************************************************)
EXTENDS Naturals, SequencesExt

VARIABLES
  up,       \* the view that setupView installed last
  handles,  \* chat: _scrollView, _chatScreen and _sidebar; error: _errorDisplay
  modal,    \* _modal and _quitConfirm
  form,     \* focus ring and showToken of the form
  tty,      \* what was painted last: the screen and the modal on it
  pending,  \* browsing: here or, once the form has gone, gone; copying
  gone,     \* the process has exited
  pressed,  \* Ctrl+C was the last input on this screen
  around    \* the last paint left the view or its modal out

screenVars == <<up, handles, modal, form, tty, pending, gone, pressed, around>>

ScreenNames == {"landing", "create", "join", "waiting", "chat"}

(* The rings; buildRing of the create form.  The chat's is ChatScreen's.   *)
Ring(screen, token) ==
  CASE screen = "landing" -> <<"username", "create", "join">>
    [] screen = "create" /\ ~token ->
         <<"username", "server", "advanced", "create", "cancel">>
    [] screen = "create" /\ token ->
         <<"username", "server", "advanced", "authToken", "create", "cancel">>
    [] screen = "join" -> <<"username", "path", "browse", "invite", "join", "cancel">>
    [] screen = "waiting" -> <<"copy", "download", "cancel">>
    [] screen = "chat" -> <<"chat">>

-----------------------------------------------------------------------------
(* renderAll: the view that is up, and the modal.                          *)
Repaint == tty' = [screen |-> up', modal |-> modal'.text] /\ around' = FALSE

(* Mutant: the waiting screen leaves the chat's handles set.               *)
HandlesKept(screen) ==
  [chat |-> screen = "chat" \/ (screen = "waiting" /\ handles.chat),
   error |-> IF screen \in {"create", "join"} THEN screen ELSE "none"]

(* Every view starts by dropping the handles of the others.                *)
Handles(screen) ==
  [chat |-> screen = "chat",
   error |-> IF screen \in {"create", "join"} THEN screen ELSE "none"]

(* Mutant: the confirmation is still open on the next screen.              *)
SetupViewConfirmKept(screen) ==
  /\ up' = screen /\ handles' = Handles(screen)
  /\ modal' = [text |-> "none", confirm |-> modal.confirm]
  /\ form' = [focus |-> Ring(screen, FALSE)[1], token |-> FALSE]
  /\ pending' = [pending EXCEPT !.browsing = IF @ = "none" THEN @ ELSE "gone"]
  /\ pressed' = FALSE /\ Repaint

(* A view's head and setupView: a modal goes with the view under it.       *)
SetupView(screen) ==
  /\ up' = screen /\ handles' = Handles(screen)
  /\ modal' = [text |-> "none", confirm |-> FALSE]
  /\ form' = [focus |-> Ring(screen, FALSE)[1], token |-> FALSE]
  /\ pending' = [pending EXCEPT !.browsing = IF @ = "none" THEN @ ELSE "gone"]
  /\ pressed' = FALSE /\ Repaint

(* mount: a --join path skips the landing page; a bad config is told.      *)
ScreenInit ==
  \E screen \in {"landing", "join"}, text \in {"none", "notice"} :
    /\ up = screen
    /\ handles = [chat |-> FALSE, error |-> IF screen = "join" THEN "join" ELSE "none"]
    /\ modal = [text |-> text, confirm |-> FALSE]
    /\ form = [focus |-> Ring(screen, FALSE)[1], token |-> FALSE]
    /\ tty = [screen |-> screen, modal |-> text]
    /\ pending = [browsing |-> "none", copying |-> FALSE]
    /\ gone = FALSE /\ pressed = FALSE /\ around = FALSE

(* The user goes on and back; a connection shows the waiting screen or the *)
(* chat, also under a form that was cancelled meanwhile.                   *)
Navigate ==
  /\ modal.text = "none"
  /\ \/ up = "landing" /\ \E screen \in {"create", "join"} : SetupView(screen)
     \/ up \in {"create", "join", "waiting"} /\ SetupView("landing")
  /\ UNCHANGED gone

ConnectionShows ==
  /\ \/ SetupView("waiting")
     \/ up # "chat" /\ SetupView("chat")
  /\ UNCHANGED gone

ShowModal(text) ==
  /\ modal' = [modal EXCEPT !.text = text] /\ UNCHANGED up /\ Repaint

(* requestQuit, by Ctrl+C, whatever modal is up.                           *)
CtrlC ==
  /\ pressed' = TRUE
  /\ IF modal.confirm
     THEN gone' = TRUE /\ UNCHANGED <<up, modal, tty, around>>
     ELSE /\ modal' = [text |-> "quit", confirm |-> TRUE]
          /\ UNCHANGED <<up, gone>> /\ Repaint
  /\ UNCHANGED <<handles, form, pending>>

(* Any other key, or a click, takes the modal away and does nothing else.  *)
Dismiss ==
  /\ modal.text # "none"
  /\ modal' = [text |-> "none", confirm |-> FALSE] /\ pressed' = FALSE
  /\ UNCHANGED <<up, handles, form, pending, gone>> /\ Repaint

(* Tab, Shift-Tab, Enter in a field and clicks move the focus.             *)
Input(focus, token) ==
  /\ modal.text = "none" /\ pressed' = FALSE
  /\ form' = [focus |-> focus, token |-> token]
  /\ UNCHANGED <<up, handles, modal, gone>> /\ Repaint

MoveFocus ==
  /\ \E i \in DOMAIN Ring(up, form.token) : Input(Ring(up, form.token)[i], form.token)
  /\ UNCHANGED pending
ToggleToken ==
  /\ form.focus = "advanced" /\ Input("advanced", ~form.token) /\ UNCHANGED pending
Browse ==
  /\ form.focus = "browse" /\ Input("browse", form.token)
  /\ pending' = [pending EXCEPT !.browsing = "here"]
CopyOrDownload ==
  /\ form.focus \in {"copy", "download"} /\ Input(form.focus, form.token)
  /\ pending' = [pending EXCEPT !.copying = TRUE]

(* doBrowse paints its own form, whatever is up, and without the modal.    *)
BrowseDone ==
  /\ pending.browsing # "none"
  /\ pending' = [pending EXCEPT !.browsing = "none"]
  /\ tty' = [screen |-> "join", modal |-> "none"]
  /\ around' = (pending.browsing = "gone" \/ modal.text # "none")
  /\ UNCHANGED <<up, handles, modal, form, gone, pressed>>

(* The modals that tell how a copy or a download went.                     *)
CopyDone ==
  /\ pending.copying /\ pending' = [pending EXCEPT !.copying = FALSE]
  /\ ShowModal("notice")
  /\ UNCHANGED <<handles, form, gone, pressed>>

(* appendMessage, for an error of the connection: on the form, without the *)
(* modal, or in the chat; elsewhere it is lost.                            *)
SystemError ==
  /\ \/ /\ handles.chat
        /\ tty' = [screen |-> "chat", modal |-> modal.text] /\ around' = FALSE
     \/ /\ ~handles.chat /\ handles.error # "none"
        /\ tty' = [screen |-> handles.error, modal |-> "none"]
        /\ around' = (modal.text # "none")
  /\ UNCHANGED <<up, handles, modal, form, pending, gone, pressed>>

(* The event log repaints the chat through the sidebar's listener.         *)
EventShown ==
  /\ handles.chat
  /\ tty' = [screen |-> "chat", modal |-> modal.text] /\ around' = FALSE
  /\ UNCHANGED <<up, handles, modal, form, pending, gone, pressed>>

TerminalResized ==
  /\ UNCHANGED <<up, handles, modal, form, pending, gone, pressed>> /\ Repaint

ScreenNext ==
  ~gone /\
  (\/ Navigate \/ ConnectionShows \/ CtrlC \/ Dismiss
   \/ MoveFocus \/ ToggleToken \/ Browse \/ CopyOrDownload
   \/ BrowseDone \/ CopyDone \/ SystemError \/ EventShown \/ TerminalResized)

ScreenSpec == ScreenInit /\ [][ScreenNext]_screenVars

-----------------------------------------------------------------------------
(* The terminal shows the screen that gets the keys, with its modal,       *)
(* although the connection, the event log and the clipboard paint when     *)
(* they like, through handles that a screen left behind.  Only a Browse    *)
(* that ends late and an error under a modal paint around it.              *)
ScreenShown ==
  ~around => tty = [screen |-> up, modal |-> modal.text]

(* Ctrl+C ends the program only when it is pressed twice in a row on one   *)
(* screen; one that answers a screen since replaced does not count.        *)
QuitConfirmed ==
  [][(CtrlC /\ gone') => pressed]_screenVars
=============================================================================
