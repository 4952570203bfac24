------------------------------- MODULE TextWrap -------------------------------
(***************************************************************************)
(* How the terminal client breaks a message into lines: wordWrap and       *)
(* charWrap of cli/src/tui/widgets.ts, which count terminal columns, where *)
(* a glyph takes none, one or two.  wrapStyled and charWrapStyled do the   *)
(* same to styled runs.  A text is entered glyph by glyph and the pane     *)
(* changes its width, so every short text meets every width.               *)
(***************************************************************************)
EXTENDS Naturals, FiniteSets, SequencesExt

CONSTANTS
  WrapWidths,  \* the widths of the pane, in columns
  MaxGlyphs    \* bound on the length of the text

(* Callers never ask for fewer columns than a wide glyph takes.            *)
ASSUME WrapBounds == MaxGlyphs \in Nat /\ WrapWidths \subseteq Nat \ {0, 1}

VARIABLES glyphs, wrapWidth

wrapVars == <<glyphs, wrapWidth>>

Glyphs == {"space", "narrow", "wide", "mark"}   \* mark: combining, joiner, selector

(* Mutant: every glyph but a mark is one column.                           *)
CharWidthNarrow(g) == IF g = "mark" THEN 0 ELSE 1
(* Mutant: a mark takes a column of its own.                               *)
CharWidthMarked(g) == IF g = "wide" THEN 2 ELSE 1

CharWidth(g) == CASE g = "mark" -> 0 [] g = "wide" -> 2 [] OTHER -> 1

DisplayWidth(s) ==
  LET upTo[n \in 0 .. Len(s)] == IF n = 0 THEN 0 ELSE upTo[n - 1] + CharWidth(s[n])
  IN upTo[Len(s)]

(* charWrap: the chunks of a word, none wider than the pane.               *)
PutGlyph(acc, g, width) ==
  IF acc.cur # <<>> /\ acc.used + CharWidth(g) > width
  THEN [out |-> Append(acc.out, acc.cur), cur |-> <<g>>, used |-> CharWidth(g)]
  ELSE [acc EXCEPT !.cur = Append(@, g), !.used = @ + CharWidth(g)]

CharWrap(word, width) ==
  LET upTo[n \in 0 .. Len(word)] ==
        IF n = 0 THEN [out |-> <<>>, cur |-> <<>>, used |-> 0]
        ELSE PutGlyph(upTo[n - 1], word[n], width)
      end == upTo[Len(word)]
  IN Append(end.out, end.cur)

(* split(' '): words may be empty.                                         *)
PutInWord(words, g) ==
  IF g = "space" THEN Append(words, <<>>)
  ELSE [words EXCEPT ![Len(words)] = Append(@, g)]

Words(text) ==
  LET upTo[n \in 0 .. Len(text)] ==
        IF n = 0 THEN <<<<>>>> ELSE PutInWord(upTo[n - 1], text[n])
  IN upTo[Len(text)]

(* Mutant: a word that is cut takes the place of the line before it.       *)
WrapWordDropping(acc, word, width) ==
  LET segs == CharWrap(word, width)
      joined == IF acc.cur = <<>> THEN word ELSE acc.cur \o <<"space">> \o word
  IN CASE DisplayWidth(word) > width ->
            [lines |-> acc.lines \o Front(segs), cur |-> Last(segs)]
       [] DisplayWidth(word) <= width /\ DisplayWidth(joined) > width ->
            [lines |-> Append(acc.lines, acc.cur), cur |-> word]
       [] OTHER -> [acc EXCEPT !.cur = joined]

(* One word of wordWrap: cut, on a line of its own, or on this one.        *)
WrapWord(acc, word, width) ==
  LET segs == CharWrap(word, width)
      joined == IF acc.cur = <<>> THEN word ELSE acc.cur \o <<"space">> \o word
      before == IF acc.cur = <<>> THEN acc.lines ELSE Append(acc.lines, acc.cur)
  IN CASE DisplayWidth(word) > width ->
            [lines |-> before \o Front(segs), cur |-> Last(segs)]
       [] DisplayWidth(word) <= width /\ DisplayWidth(joined) > width ->
            [lines |-> Append(acc.lines, acc.cur), cur |-> word]
       [] OTHER -> [acc EXCEPT !.cur = joined]

WordWrap(text, width) ==
  LET words == Words(text)
      upTo[n \in 0 .. Len(words)] ==
        IF n = 0 THEN [lines |-> <<>>, cur |-> <<>>]
        ELSE WrapWord(upTo[n - 1], words[n], width)
      end == upTo[Len(words)]
      lines == IF end.cur = <<>> THEN end.lines ELSE Append(end.lines, end.cur)
  IN IF lines = <<>> THEN <<<<>>>> ELSE lines

WrapInit == glyphs = <<>> /\ wrapWidth \in WrapWidths
GlyphTyped ==
  /\ Len(glyphs) < MaxGlyphs
  /\ \E g \in Glyphs : glyphs' = Append(glyphs, g)
  /\ UNCHANGED wrapWidth
PaneNarrowed == wrapWidth' \in WrapWidths \ {wrapWidth} /\ UNCHANGED glyphs
WrapNext == GlyphTyped \/ PaneNarrowed
WrapSpec == WrapInit /\ [][WrapNext]_wrapVars

-----------------------------------------------------------------------------
Wrapped == WordWrap(glyphs, wrapWidth)
Count(s, g) == Cardinality({i \in DOMAIN s : s[i] = g})

(* No line is wider than the pane, counted in columns, wherever a wide     *)
(* glyph falls (displayWidth, charWrap).                                   *)
LinesFit ==
  \A i \in DOMAIN Wrapped :
    Count(Wrapped[i], "narrow") + Count(Wrapped[i], "space")
      + 2 * Count(Wrapped[i], "wide") <= wrapWidth

(* Wrapping drops and reorders nothing but the spaces, also where a long   *)
(* word is cut (the two places where wordWrap starts a line).              *)
Ink(s) == FlattenSeq([i \in DOMAIN s |-> IF s[i] = "space" THEN <<>> ELSE <<s[i]>>])
TextKept == Ink(FlattenSeq(Wrapped)) = Ink(glyphs)

(* A combining mark stays on the line of the glyph it belongs to: no more  *)
(* lines begin with one than words do.                                     *)
Marked(line) == line # <<>> /\ line[1] = "mark"
MarksStay ==
  Cardinality({i \in DOMAIN Wrapped : Marked(Wrapped[i])})
    <= Cardinality({i \in DOMAIN glyphs : glyphs[i] = "mark"
                      /\ (i = 1 \/ glyphs[i - 1] = "space")})
=============================================================================
