------------------------------- MODULE MCClient -------------------------------
(***************************************************************************)
(* A bench for the parts of the two clients that share no state with each  *)
(* other: in every behaviour one of them moves, and the others rest.       *)
(***************************************************************************)
EXTENDS WebConnection, TerminalConnection, WebViews, EventSidebar, ChatScreen,
        Screens, TextWrap

VARIABLE part

Parts == {"web", "terminal", "page", "sidebar", "chat", "screens", "wrap"}

BenchInit ==
  /\ part \in Parts
  /\ WebInit /\ TerminalInit /\ ViewInit /\ SideInit /\ ChatInit /\ ScreenInit /\ WrapInit
  \* Where a part can start in several ways, the others see one of them.
  /\ part # "screens" => up = "landing" /\ modal.text = "none"
  /\ part # "wrap" => wrapWidth = CHOOSE w \in WrapWidths : TRUE

Rest(idle) == UNCHANGED idle /\ UNCHANGED part

BenchNext ==
  \/ /\ part = "web" /\ WebNext
     /\ Rest(<<terminalVars, viewVars, sideVars, chatVars, screenVars, wrapVars>>)
  \/ /\ part = "terminal" /\ TerminalNext
     /\ Rest(<<webVars, viewVars, sideVars, chatVars, screenVars, wrapVars>>)
  \/ /\ part = "page" /\ ViewNext
     /\ Rest(<<webVars, terminalVars, sideVars, chatVars, screenVars, wrapVars>>)
  \/ /\ part = "sidebar" /\ SideNext
     /\ Rest(<<webVars, terminalVars, viewVars, chatVars, screenVars, wrapVars>>)
  \/ /\ part = "chat" /\ ChatNext
     /\ Rest(<<webVars, terminalVars, viewVars, sideVars, screenVars, wrapVars>>)
  \/ /\ part = "screens" /\ ScreenNext
     /\ Rest(<<webVars, terminalVars, viewVars, sideVars, chatVars, wrapVars>>)
  \/ /\ part = "wrap" /\ WrapNext
     /\ Rest(<<webVars, terminalVars, viewVars, sideVars, chatVars, screenVars>>)

BenchSpec ==
  /\ BenchInit
  /\ [][BenchNext]_<<part, webVars, terminalVars, viewVars, sideVars, chatVars,
                     screenVars, wrapVars>>
  /\ WebFairness

MCWidths == {2, 3}
MCHeights == {1, 3}
=============================================================================
