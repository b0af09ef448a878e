--------------------------- MODULE SettingsLayout ---------------------------
(***************************************************************************)
(* The layout engine of the settings window (settings_layout.cpp), its     *)
(* metrics (settings_metrics.h) and the table of fields it lays out        *)
(* (settings_fields.h), with the creation of the window, its move to a     *)
(* monitor of another scale and its clamping to the work area              *)
(* (settings_dialog.cpp).                                                  *)
(*                                                                         *)
(* Widgets are remembered in design pixels (96 DPI) and converted when     *)
(* they are placed.  Their rectangles are operators of the field table and *)
(* of the scale; the state is the window and the client size and scale the *)
(* widgets were last placed for.                                           *)
(***************************************************************************)
EXTENDS Integers, Sequences, FiniteSets, SequencesExt

CONSTANTS
  Scales,     \* DPI values of monitors
  Frames,     \* heights of caption and border at 96 DPI (external)
  TabInsets,  \* height of the tabs over a page at 96 DPI (external)
  WorkAreas,  \* sizes of the work area in pixels
  MaxMoves    \* bound: moves to another monitor

ASSUME LayoutAssumption ==
  /\ Scales \subseteq 48..480 /\ Frames \subseteq Nat /\ TabInsets \subseteq Nat
  /\ WorkAreas \subseteq [w : Nat \ {0}, h : Nat \ {0}] /\ MaxMoves \in Nat

-----------------------------------------------------------------------------
(* settings_metrics.h, in design pixels.                                   *)

WinW == 560
WinH == 620
PadX == 16
PadTop == 12
GapAfterTab == 8
FooterH == 60
FooterBtnW == 84
FooterBtnWideW == 150
FooterBtnH == 28
FooterBtnGap == 8
FooterBtnY == 22
PadPageX == 16
PadPageY == 12
ColLabelW == 110
ColFieldX == 120
RowH == 30
CtrlH == 24
ctrlOffset == (RowH - CtrlH) \div 2
SectionTitleH == 20
kRuleH == 2
GapBeforeSection == 14
GapAfterSectionTitle == 6
HintH == 20
StatusLineH == 20
FieldWText == 280
FieldWNumber == 110
SliderW == 260
ValueW == 56
GapFieldTrail == 8
TrailW == 76
ToggleW == 360
ToggleColW == 240

\* setDpi() and S(), settings_layout.cpp.
setDpi(dpi) == IF dpi \in 48..480 THEN dpi ELSE 96
S(dpi, design) == (design * dpi + 48) \div 96

-----------------------------------------------------------------------------
(* settings_fields.h: kind, hint lines, and whether the row has a trailing *)
(* button or value, or goes on the row before.                             *)

Row(kind, hintLines) == [kind |-> kind, hintLines |-> hintLines, trail |-> FALSE, same |-> FALSE]
Trailing(row) == [row EXCEPT !.trail = TRUE]
SameRow(row) == [row EXCEPT !.same = TRUE]

Slider(hintLines) == Trailing(Row("Slider", hintLines))

\* kGeneralSections
General == <<
  [title |-> TRUE, rows |-> <<Trailing(Row("Choice", 0)), Row("Text", 0), Row("Number", 0)>>],
  [title |-> TRUE, rows |-> <<Row("Choice", 0), Slider(0)>>],
  [title |-> TRUE, rows |-> <<Row("Toggle", 0), SameRow(Row("Toggle", 0)), Row("Toggle", 0),
                              Row("Note", 1)>>],
  [title |-> TRUE, rows |-> <<Row("Toggle", 0), Row("Toggle", 1)>>] >>

\* kDspSections
Dsp == <<
  [title |-> FALSE, rows |-> <<Row("Status", 0)>>],
  [title |-> TRUE, rows |-> <<Row("Toggle", 0), Row("Choice", 0), Row("Status", 2), Slider(1)>>],
  [title |-> TRUE, rows |-> <<Row("Toggle", 0), Slider(1), Slider(1)>>],
  [title |-> TRUE, rows |-> <<Row("Toggle", 1)>>] >>

\* Both pages are in one window; a table is the set of its pages.
kPages == {General, Dsp}

-----------------------------------------------------------------------------
(* Heights.                                                                *)

rowHeightDesign(row) ==
  CASE row.kind = "Note" -> row.hintLines * HintH
    [] row.kind = "Status" -> Max({row.hintLines * StatusLineH, StatusLineH, RowH})
    [] OTHER -> RowH

hintHeightDesign(row) ==
  IF row.kind \in {"Note", "Status"} THEN 0 ELSE row.hintLines * HintH

fieldWidthDesign(row) == IF row.kind = "Number" THEN FieldWNumber ELSE FieldWText

TitleHeight(section) ==
  IF section.title THEN SectionTitleH + kRuleH + GapAfterSectionTitle ELSE 0

RowsHeight(rows) ==
  FoldLeft(LAMBDA h, row :
             IF row.same THEN h ELSE h + rowHeightDesign(row) + hintHeightDesign(row), 0, rows)

\* The height a page is expected to have, which sizes the window.
pageContentHeightDesign(page) ==
  FoldLeft(LAMBDA h, section : h + TitleHeight(section) + RowsHeight(section.rows),
           (Len(page) - 1) * GapBeforeSection, page)

-----------------------------------------------------------------------------
(* createPageContent(): the widgets of a page, relative to its origin.  A  *)
(* width of 0 is stretched to the right edge of the page.                  *)

Widget(part, x, y, w, h) == [part |-> part, x |-> x, y |-> y, w |-> w, h |-> h]

\* The widgets of a field at y, without its hint.
FieldWidgets(row, y, sharesRow) ==
  LET at == y + ctrlOffset
      label == Widget("label", 0, at, ColLabelW, CtrlH)
      fieldW == IF row.kind = "Slider" THEN SliderW ELSE fieldWidthDesign(row)
      trailW == IF row.kind = "Slider" THEN ValueW ELSE TrailW
      trail == Widget("control", ColFieldX + fieldW + GapFieldTrail, at, trailW, CtrlH)
  IN  CASE row.kind \in {"Note", "Status"} -> {Widget("text", 0, y, 0, rowHeightDesign(row))}
        [] row.kind = "Toggle" ->
             {Widget("control", 0, at, IF sharesRow THEN ToggleColW ELSE ToggleW, CtrlH)}
        [] OTHER -> {label, Widget("control", ColFieldX, at, fieldW, CtrlH)}
                      \cup (IF row.trail THEN {trail} ELSE {})

\* One row: acc holds y, lastRowY, sameRowSlot and the widgets so far.
PlaceRow_OnNextLine(acc, rows, i) ==
  LET row == rows[i]
      below == acc.y + rowHeightDesign(row)
  IN  IF row.same
      THEN [acc EXCEPT !.slot = @ + 1,
              !.widgets = @ \cup {Widget("control", (acc.slot + 1) * ToggleColW,
                                         acc.y + ctrlOffset, ToggleColW, CtrlH)}]
      ELSE [y |-> below + hintHeightDesign(row), lastRowY |-> acc.y, slot |-> 0,
            widgets |-> acc.widgets \cup FieldWidgets(row, acc.y, FALSE)]
PlaceRow(acc, rows, i) ==
  LET row == rows[i]
      sharesRow == i < Len(rows) /\ rows[i + 1].same
      below == acc.y + rowHeightDesign(row)
      hintH == hintHeightDesign(row)
      hint == IF hintH > 0 THEN {Widget("text", 0, below, 0, hintH)} ELSE {}
  IN  IF row.same
      THEN [acc EXCEPT !.slot = @ + 1,
              !.widgets = @ \cup {Widget("control", (acc.slot + 1) * ToggleColW,
                                         acc.lastRowY + ctrlOffset, ToggleColW, CtrlH)}]
      ELSE [y |-> below + hintH, lastRowY |-> acc.y, slot |-> 0,
            widgets |-> acc.widgets \cup FieldWidgets(row, acc.y, sharesRow) \cup hint]

PlaceSection(acc, page, s) ==
  LET section == page[s]
      y == acc.y + (IF s > 1 THEN GapBeforeSection ELSE 0)
      title == IF section.title THEN {Widget("text", 0, y, 0, SectionTitleH)} ELSE {}
      start == [acc EXCEPT !.y = y + TitleHeight(section), !.widgets = @ \cup title]
  IN  FoldLeft(LAMBDA a, i : PlaceRow(a, section.rows, i), start,
               [i \in 1..Len(section.rows) |-> i])

createPageContent(page) ==
  FoldLeft(LAMBDA a, s : PlaceSection(a, page, s),
           [y |-> 0, lastRowY |-> 0, slot |-> 0, widgets |-> {}], [s \in 1..Len(page) |-> s])

needed == Max({pageContentHeightDesign(page) : page \in kPages})

-----------------------------------------------------------------------------
VARIABLES
  s_dpi,     \* metrics::s_dpi
  monitor,   \* the scale of the monitor the window is on
  created,   \* history: the scales of the system and of the first monitor
  frame, tabInset, work,   \* what Windows adds, and the work area
  window,    \* its size in pixels
  laidOut,   \* the scale and client size the widgets were placed for
  phase,     \* creating, clamping or ready
  clamped,   \* history: the work area cut the window
  moves

vars == <<s_dpi, monitor, created, frame, tabInset, work, window, laidOut, phase, clamped, moves>>
external == <<created, frame, tabInset, work>>

\* GetClientRect() and TabCtrl_AdjustRect().
ClientW(dpi, size) == size.w - S(dpi, 6)
ClientH(dpi, size) == size.h - S(dpi, frame)

\* computePageRect() and the padding: left and right are relative to the
\* client area, height is what a page's content may use.
Page(dpi, client) ==
  LET left == S(dpi, PadX) + 4
      top == S(dpi, PadTop) + S(dpi, tabInset)
  IN  [x |-> left + S(dpi, PadPageX),
       y |-> top + S(dpi, PadPageY),
       right |-> client.w - S(dpi, PadX) - 4 - S(dpi, PadPageX),
       bottom |-> client.h - S(dpi, FooterH) - S(dpi, GapAfterTab) - 4 - S(dpi, PadPageY)]

\* place(): a widget of a page on the client area.
Placed(widget, dpi, client) ==
  LET page == Page(dpi, client)
      x == page.x + S(dpi, widget.x)
  IN  [part |-> widget.part, x |-> x, y |-> page.y + S(dpi, widget.y),
       w |-> IF widget.w = 0 THEN page.right - x ELSE S(dpi, widget.w),
       h |-> S(dpi, widget.h)]

\* footerButtonRect() and place() for Reset, OK, Cancel and Apply.
FooterButtons(dpi, client) ==
  LET y == client.h - S(dpi, FooterH - FooterBtnY)
      Right(slot) == WinW - PadX - slot * (FooterBtnW + FooterBtnGap) - FooterBtnW
  IN  {[part |-> "control", x |-> S(dpi, PadX), y |-> y, w |-> S(dpi, FooterBtnWideW),
        h |-> S(dpi, FooterBtnH)]}
      \cup {[part |-> "control", x |-> S(dpi, Right(slot)) + client.w - S(dpi, WinW), y |-> y,
             w |-> S(dpi, FooterBtnW), h |-> S(dpi, FooterBtnH)] : slot \in 0..2}

Client(dpi, size) == [w |-> ClientW(dpi, size), h |-> ClientH(dpi, size)]

-----------------------------------------------------------------------------
(* createSettingsWindow(): the window has the size of the system's scale.  *)

Init ==
  /\ s_dpi \in Scales /\ monitor \in Scales
  /\ created = [system |-> s_dpi, home |-> monitor]
  /\ frame \in Frames /\ tabInset \in TabInsets /\ work \in WorkAreas
  /\ window = [w |-> S(s_dpi, WinW), h |-> S(s_dpi, WinH)]
  /\ laidOut = [dpi |-> 0, client |-> window]
  /\ phase = "creating" /\ clamped = FALSE /\ moves = 0

\* WM_CREATE: setDpi(), build(), which grows the window to its tallest page.
Grown_DesignPixels(dpi, size) ==
  LET page == Page(dpi, Client(dpi, size))
      available == page.bottom - page.y
  IN  IF needed > available THEN [size EXCEPT !.h = @ + needed - available] ELSE size
Grown(dpi, size) ==
  LET page == Page(dpi, Client(dpi, size))
      available == page.bottom - page.y
      neededPx == S(dpi, needed)
  IN  IF neededPx > available THEN [size EXCEPT !.h = @ + neededPx - available] ELSE size

LayOut(dpi, size) == [dpi |-> dpi, client |-> Client(dpi, size)]

Build ==
  /\ phase = "creating"
  /\ s_dpi' = setDpi(monitor)
  /\ window' = Grown(s_dpi', window)
  /\ laidOut' = LayOut(s_dpi', window')
  /\ phase' = "clamping"
  /\ UNCHANGED <<monitor, external, clamped, moves>>

\* The window may not exceed the work area; WM_SIZE lays it out again.
Clamp ==
  /\ phase = "clamping"
  /\ window' = [w |-> Min({window.w, work.w}), h |-> Min({window.h, work.h})]
  /\ clamped' = (window' # window)
  /\ laidOut' = LayOut(s_dpi, window')
  /\ phase' = "ready"
  /\ UNCHANGED <<s_dpi, monitor, external, moves>>

\* WM_DPICHANGED: the window is given the size Windows suggests, its own
\* scaled, and laid out; it is not grown again.
MoveTo(dpi) ==
  /\ phase = "ready" /\ moves < MaxMoves /\ dpi # monitor
  /\ monitor' = dpi /\ s_dpi' = setDpi(dpi)
  /\ window' = [w |-> (window.w * dpi) \div s_dpi, h |-> (window.h * dpi) \div s_dpi]
  /\ laidOut' = LayOut(s_dpi', window')
  /\ moves' = moves + 1
  /\ UNCHANGED <<external, phase, clamped>>

Next == Build \/ Clamp \/ \E dpi \in Scales : MoveTo(dpi)

Spec == Init /\ [][Next]_vars

-----------------------------------------------------------------------------
(* Properties of the window the user sees.                                 *)

OnPage(page) == {Placed(w, laidOut.dpi, laidOut.client) : w \in createPageContent(page).widgets}

Footer == FooterButtons(laidOut.dpi, laidOut.client)

Controls(page) == {w \in OnPage(page) : w.part = "control"} \cup Footer

Shown == phase = "ready"

\* The system had the scale of the monitor when the window was created.
SizedForMonitor == created.system = created.home

Disjoint(v, w) ==
  v.x + v.w <= w.x \/ w.x + w.w <= v.x \/ v.y + v.h <= w.y \/ w.y + w.h <= v.y

\* On every page no two controls, the footer's included, ever overlap, at any
\* scale and after any move, unless the work area was too small for the window
\* or its monitor's scale was not the system's, which WM_CREATE corrects in
\* height only.  Rows are placed in design pixels and rounded one by one
\* (settings_layout.cpp:201), the footer hangs from the other edges (209, 211):
\* only the estimate of 87-104 keeps the two apart.
ControlsApart ==
  Shown /\ SizedForMonitor /\ ~clamped =>
    \A page \in kPages : \A v, w \in Controls(page) : v # w => Disjoint(v, w)

\* The tallest page fits above the footer of the window as it is, whatever the
\* scale: the window cannot scroll.  A row and its height are rounded apart,
\* which may cost a pixel.  Moved to a monitor of another scale, where it is not
\* grown again, roundings may push it into the padding of the page, no further.
PageFits ==
  Shown /\ ~clamped =>
    LET tolerance == IF moves = 0 THEN 1 ELSE S(s_dpi, PadPageY)
    IN  \A page \in kPages : \A w \in OnPage(page) :
          w.y + w.h <= Page(s_dpi, Client(s_dpi, window)).bottom + tolerance
=============================================================================
