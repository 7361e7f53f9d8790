----------------------------- MODULE EditorScreen -----------------------------
(***************************************************************************)
(* The screen of "vmake config" (pkg/tui): the tree of packages, the       *)
(* cursors, the search, the dialogs, and which key or click changes what.  *)
(* ConfigEditor has what the values mean; here a value matters only when   *)
(* an option is shown by it.                                               *)
(*                                                                         *)
(* A node of the tree is its path of names; the name of a package is the   *)
(* last part of a local path, and what follows Remote of a remote one.     *)
(* Where a row is on the screen, the texts and colours are left out; the   *)
(* rows of the tree panel are counted, as the panel scrolls.               *)
(***************************************************************************)
EXTENDS Naturals, Sequences, FiniteSets, SequencesExt

CONSTANTS
  Tree,       \* EditorTree!DepTree: the nodes, in the order they have when all are expanded
  Remotes,    \* the remote packages, as sequences of names
  Options,    \* Options[p]: a sequence of [type, shownIf]; shownIf is 0 or a bool option
  KConfig,    \* packages with a menuconfig
  Queries,    \* what is typed into the search
  Named,      \* Named[q]: the packages whose name it matches
  Hits,       \* Hits[q]: the <<package, option>> it matches
  Heights     \* of the tree panel

Global == <<"Global">>
Remote == <<"Remote">>
NoQuery == "no query"

Name(node) ==
  IF Len(node) > 1 /\ node[1] = Remote[1] THEN Tail(node)
  ELSE IF node \in {Global, Remote} THEN node ELSE <<Last(node)>>

IsGroup(node) == node = Remote \/ (node[1] = Remote[1] /\ Name(node) \notin Remotes)
Above(node) == {SubSeq(node, 1, i) : i \in 1..Len(node)-1}
(* No package is named like the group of the remote ones.                  *)
ASSUME ScreenAssumption ==
  /\ Tree \in Seq(ToSet(Tree)) /\ \A node \in ToSet(Tree) : Name(node) = Remote => node = Remote
  /\ Heights \subseteq Nat

Below == [node \in ToSet(Tree) |-> {n \in ToSet(Tree) : node \in Above(n)}]
HasChildren(node) == Below[node] # {}

-----------------------------------------------------------------------------
VARIABLES
  ui,        \* the tree, the panels and the cursors
  on,        \* the bool options that are set
  open,      \* which of the things that take the keys are open: the code has a flag for each
  overlay,   \* "none", "choice", "detail", "language"
  choiceOpt, \* the option of the overlay
  did        \* what the last message did: set an option, jump to a package

screenVars == <<ui, on, open, overlay, choiceOpt, did>>

NoEffect == [what |-> "nothing", asked |-> 0, got |-> 0]

ShowingFilter(u) == u.filtering \/ u.query # NoQuery

DirectMatch(node, q) ==
  /\ ~IsGroup(node)
  /\ Name(node) \in Named[q] \/ \E hit \in Hits[q] : hit[1] = Name(node)
SearchVisible(node, q) == \E n \in Below[node] \cup {node} : DirectMatch(n, q)

Displayable(node) ==
  \E n \in Below[node] \cup {node} :
    n = Global \/ (~IsGroup(n) /\ (Options[Name(n)] # <<>> \/ Name(n) \in KConfig))

(* rebuildFlat: the rows of the tree.                                      *)
Rows(shown) ==
  [n \in 1..Cardinality(shown) |->
     Tree[CHOOSE i \in shown : Cardinality({j \in shown : j <= i}) = n]]

Shown(u, node) ==
  IF u.query # NoQuery THEN SearchVisible(node, u.query)
  ELSE Above(node) \subseteq u.expanded /\ (u.hideEmpty => Displayable(node))

RebuildFlat(u) == [u EXCEPT !.flat = Rows({i \in DOMAIN Tree : Shown(u, Tree[i])})]

Clamp(x, low, high) == IF x < low THEN low ELSE IF x > high THEN high ELSE x
AtMost(x, high) == IF x > high THEN high ELSE x
AtLeast(x, low) == IF x < low THEN low ELSE x

(* The rows of the panel, one of which is the search and one the position. *)
TreeItemRows(u) ==
  LET h == AtLeast(IF ShowingFilter(u) THEN u.height - 1 ELSE u.height, 1)
  IN  IF Len(u.flat) > h THEN AtLeast(h - 1, 1) ELSE h

EnsureTreeCursorVisible(u) ==
  LET total == Len(u.flat)
      rows == TreeItemRows(u)
      up == AtMost(u.off, u.cursor - 1)
      down == IF u.cursor > up + rows THEN u.cursor - rows ELSE up
  IN  IF total = 0 THEN u
      ELSE [u EXCEPT !.off = IF rows >= total THEN 0 ELSE AtMost(down, total - rows)]

Drawn(u) == {i \in DOMAIN u.flat : i > u.off /\ i <= u.off + TreeItemRows(u)}

SelectCurrentNode(u) ==
  IF u.cursor \in DOMAIN u.flat
  THEN [u EXCEPT !.selected = Name(u.flat[u.cursor]), !.opt = 1] ELSE u

(* The first row is Global whenever it is shown.                           *)
SelectFirstPkg(u) ==
  IF u.flat = <<>> THEN u ELSE [u EXCEPT !.selected = Name(u.flat[1])]

ClampCursor(u) == [u EXCEPT !.cursor = Clamp(@, 1, AtLeast(Len(u.flat), 1))]

-----------------------------------------------------------------------------
(* The panel of options.                                                   *)

OptionsOf(p) == IF p \in DOMAIN Options THEN Options[p] ELSE <<>>
OptionsShown(p, set) ==
  SelectSeq([i \in DOMAIN OptionsOf(p) |-> i],
            LAMBDA i : OptionsOf(p)[i].shownIf = 0 \/ <<p, OptionsOf(p)[i].shownIf>> \in set)
VisibleOptions(p) == OptionsShown(p, on)
Visible == VisibleOptions(ui.selected)
OnOption == ui.opt \in DOMAIN Visible
Current == <<ui.selected, Visible[ui.opt]>>
TypeOf(item) == OptionsOf(item[1])[item[2]].type
(* The rows of a package with a menuconfig: its presets, and the menuconfig. *)
TotalRows == Len(Visible) + IF ui.selected \in KConfig THEN 2 ELSE 0

SetValue(item, asked) ==
  /\ on' = IF TypeOf(item) # "bool" THEN on
           ELSE IF item \in on THEN on \ {item} ELSE on \cup {item}
  /\ did' = [what |-> "set", asked |-> asked, got |-> item]

-----------------------------------------------------------------------------
StartScreen(h) ==
  SelectFirstPkg(RebuildFlat(
    [expanded |-> {Global} \cup {n \in ToSet(Tree) \ {Remote} : n[1] = Remote[1] /\ HasChildren(n)},
     hideEmpty |-> FALSE, query |-> NoQuery, filtering |-> FALSE, cursor |-> 1, off |-> 0,
     height |-> h, selected |-> Global, opt |-> 1, focus |-> "tree", flat |-> <<>>]))

ScreenInit ==
  /\ \E h \in Heights : ui = StartScreen(h)
  /\ on = {} /\ open = {} /\ overlay = "none" /\ choiceOpt = <<>> /\ did = NoEffect

Shows(u) ==
  ui' = u /\ did' = NoEffect /\ UNCHANGED <<on, open, overlay, choiceOpt>>
Opens(what) ==
  /\ open' = open \cup {what} /\ did' = NoEffect
  /\ UNCHANGED <<ui, on, overlay, choiceOpt>>
Shuts(what) ==
  /\ open' = open \ {what} /\ did' = NoEffect
  /\ UNCHANGED <<ui, on, overlay, choiceOpt>>
(* The editor is left, and opened again: the values are saved, or not.     *)
Quits ==
  /\ ui' = StartScreen(ui.height) /\ on' \in {on, {}} /\ open' = {} /\ overlay' = "none"
  /\ choiceOpt' = <<>> /\ did' = NoEffect

(* handleKey and handleMouse: what comes first of what is open has the key.*)
InConfirm == "confirm" \in open
InOverlay == "confirm" \notin open /\ overlay # "none"
InEdit == "confirm" \notin open /\ overlay = "none" /\ "edit" \in open
InDescription ==
  {"confirm", "edit"} \cap open = {} /\ overlay = "none" /\ "description" \in open
Main ==
  open \cap {"confirm", "edit", "description", "menuconfig"} = {} /\ overlay = "none"
  /\ ~ui.filtering
InFilter ==
  open \cap {"confirm", "edit", "description", "menuconfig"} = {} /\ overlay = "none"
  /\ ui.filtering

(* The mouse *)
Clickable ==
  overlay = "none" /\ {"confirm", "edit", "description", "menuconfig"} \cap open = {} /\ ~ui.filtering

-----------------------------------------------------------------------------
(* Keys of the main view.                                                  *)

(* It is asked when there are changes, of which ConfigEditor knows.         *)
Leave == Opens("confirm") \/ Quits
Interrupt == Main /\ Leave
SaveAndQuit == Main /\ Quits
StartSearch == Main /\ Shows([ui EXCEPT !.filtering = TRUE])

Browsing == ui.query # NoQuery

Escape ==
  /\ Main
  /\ \/ Browsing /\ Shows(EnsureTreeCursorVisible(
                            SelectCurrentNode(ClampCursor(
                            RebuildFlat([ui EXCEPT !.query = NoQuery])))))
     \/ ~Browsing /\ ui.focus = "tree" /\ Leave
     \/ ~Browsing /\ ui.focus = "options" /\ Shows([ui EXCEPT !.focus = "tree"])

SwitchPanel ==
  Main /\ Shows([ui EXCEPT !.focus = IF @ = "tree" THEN "options" ELSE "tree"])

(* Keys of the tree.                                                       *)
InTree == Main /\ ui.focus = "tree"

Moved(u, delta) ==
  LET next == IF delta = "up" THEN Clamp(u.cursor - 1, 1, Len(u.flat))
              ELSE Clamp(u.cursor + 1, 1, Len(u.flat))
  IN  IF u.flat = <<>> \/ next = u.cursor THEN u
      ELSE EnsureTreeCursorVisible(SelectCurrentNode([u EXCEPT !.cursor = next]))
MoveTreeCursor == InTree /\ \E delta \in {"up", "down"} : Shows(Moved(ui, delta))

AtCursor == ui.flat[ui.cursor]
Fold(u, nodes) == EnsureTreeCursorVisible(RebuildFlat([u EXCEPT !.expanded = @ \ nodes]))
Unfold(u, nodes) == EnsureTreeCursorVisible(RebuildFlat([u EXCEPT !.expanded = @ \cup nodes]))

FoldNode ==
  InTree /\ ui.cursor \in DOMAIN ui.flat /\ AtCursor \in ui.expanded /\ Shows(Fold(ui, {AtCursor}))
UnfoldNode ==
  InTree /\ ui.cursor \in DOMAIN ui.flat /\ HasChildren(AtCursor) /\ Shows(Unfold(ui, {AtCursor}))
ToggleNode ==
  /\ InTree /\ ~Browsing /\ ui.cursor \in DOMAIN ui.flat /\ HasChildren(AtCursor)
  /\ Shows(IF AtCursor \in ui.expanded THEN Fold(ui, {AtCursor}) ELSE Unfold(ui, {AtCursor}))
CollapseAll == InTree /\ Shows(Fold(ui, ToSet(Tree) \ {Global}))
ExpandAll == InTree /\ Shows(Unfold(ui, ToSet(Tree)))
HideEmpty ==
  /\ InTree
  /\ Shows(EnsureTreeCursorVisible(SelectCurrentNode(ClampCursor(
             RebuildFlat([ui EXCEPT !.hideEmpty = ~@])))))

FirstNode(p) == Tree[Min({i \in DOMAIN Tree : Name(Tree[i]) = p})]

(* jumpToMatch: the first node of the package is opened.  Mutant: what is  *)
(* above it is not.                                                        *)
ExpandToNothing(u, p) == u
ExpandToPkg(u, p) ==
  [u EXCEPT !.expanded = @ \cup (IF p = Remote THEN {Remote} ELSE Above(FirstNode(p)))]

JumpToMatch(u, p, option) ==
  LET shown == RebuildFlat(ExpandToPkg(u, p))
      rows == {i \in DOMAIN shown.flat : Name(shown.flat[i]) = p}
      there == IF rows = {} THEN shown ELSE SelectCurrentNode([shown EXCEPT !.cursor = Min(rows)])
      options == VisibleOptions(there.selected)
      row == {i \in DOMAIN options : options[i] = option}
  IN  EnsureTreeCursorVisible(
        [there EXCEPT !.focus = "tree",
                      !.opt = IF row = {} THEN @ ELSE CHOOSE i \in row : TRUE])

Jumps(u, p, option) ==
  /\ ui' = JumpToMatch(u, p, option)
  /\ did' = [what |-> "jump", asked |-> p, got |-> ui'.selected]
  /\ UNCHANGED <<on, open, overlay, choiceOpt>>

(* An option of the package that matches, any of them, or none.            *)
MatchedOptions(p, q) ==
  LET hits == {hit[2] : hit \in {h \in Hits[q] : h[1] = p}} IN IF hits = {} THEN {0} ELSE hits

JumpFromList ==
  /\ InTree /\ Browsing
  /\ IF ui.cursor \notin DOMAIN ui.flat THEN Shows(RebuildFlat([ui EXCEPT !.query = NoQuery]))
     ELSE \E option \in MatchedOptions(Name(AtCursor), ui.query) :
            Jumps([ui EXCEPT !.query = NoQuery], Name(AtCursor), option)

-----------------------------------------------------------------------------
(* Keys of the search line.                                                *)

TypeQuery ==
  InFilter /\ \E q \in Queries \cup {NoQuery} : q # ui.query /\ Shows(RebuildFlat([ui EXCEPT !.query = q]))

CancelSearch ==
  InFilter /\ 
  Shows(SelectFirstPkg(RebuildFlat([ui EXCEPT !.query = NoQuery, !.filtering = FALSE])))

Matches(u) ==
  {i \in DOMAIN u.flat :
     /\ ~IsGroup(u.flat[i]) /\ u.flat[i] # Global
     /\ u.query # NoQuery => DirectMatch(u.flat[i], u.query)}

Matching(q) == {i \in DOMAIN Tree : DirectMatch(Tree[i], q)}
FirstMatch(q) == Name(Tree[Min(Matching(q))])

ConfirmSearch ==
  /\ InFilter
  /\ LET left == [ui EXCEPT !.filtering = FALSE]
         shut == RebuildFlat([left EXCEPT !.query = NoQuery])
         direct == {i \in DOMAIN left.flat : DirectMatch(left.flat[i], ui.query)}
     IN
     IF Cardinality(Matches(ui)) <= 1
     THEN CASE ui.query = NoQuery -> Shows(SelectFirstPkg(shut))
            [] ui.query # NoQuery /\ Matching(ui.query) = {} -> Shows(shut)
            [] ui.query # NoQuery /\ Matching(ui.query) # {} ->
                 LET p == FirstMatch(ui.query)
                 IN  \E option \in IF p \in Named[ui.query] THEN {0}
                                   ELSE MatchedOptions(p, ui.query) :
                       Jumps(shut, p, option)
     ELSE Shows(EnsureTreeCursorVisible(SelectCurrentNode(
            [left EXCEPT !.focus = "tree",
                         !.cursor = IF ui.query = NoQuery \/ direct = {} THEN 1
                                    ELSE Min(direct)])))

-----------------------------------------------------------------------------
(* Keys of the options.                                                    *)

InOptions == Main /\ ui.focus = "options"

MoveOption(u, delta) ==
  [u EXCEPT !.opt = Clamp(IF delta = "up" THEN @ - 1 ELSE @ + 1, 1, AtLeast(TotalRows, 1))]
MoveOptionCursor == InOptions /\ \E delta \in {"up", "down"} : Shows(MoveOption(ui, delta))

Sets(item, asked) == SetValue(item, asked) /\ UNCHANGED <<ui, open, overlay, choiceOpt>>

(* The action of a row: toggle, cycle, or edit.  "ui" may have been moved  *)
(* by a click.                                                             *)
Act(u, key) ==
  LET visible == VisibleOptions(u.selected)
      item == <<u.selected, visible[u.opt]>>
      kconfig == u.selected \in KConfig
  IN
  /\ ui' = u
  /\ \/ /\ u.opt \in DOMAIN visible /\ TypeOf(item) = "bool"
        /\ SetValue(item, item) /\ UNCHANGED <<open, overlay, choiceOpt>>
     \/ /\ u.opt \in DOMAIN visible /\ TypeOf(item) = "choice"
        /\ IF key = "enter"
           THEN /\ overlay' = "choice" /\ choiceOpt' = item /\ did' = NoEffect
                /\ UNCHANGED <<on, open>>
           ELSE SetValue(item, item) /\ UNCHANGED <<open, overlay, choiceOpt>>
     \/ /\ u.opt \in DOMAIN visible /\ TypeOf(item) = "text" /\ key # "left"
        /\ open' = open \cup {"edit"} /\ choiceOpt' = item /\ did' = NoEffect
        /\ UNCHANGED <<on, overlay>>
     \/ /\ kconfig /\ u.opt = Len(visible) + 1
        /\ did' = NoEffect
        /\ UNCHANGED <<on, open, overlay, choiceOpt>>
     \/ /\ kconfig /\ u.opt = Len(visible) + 2 /\ key = "enter"
        /\ open' = open \cup {"menuconfig"} /\ did' = NoEffect
        /\ UNCHANGED <<on, overlay, choiceOpt>>

ActOnOption == InOptions /\ \E key \in {"enter", "right", "left"} : Act(ui, key)

(* "r" and "R": a bool option goes back, or stays what it is.              *)
ResetOption ==
  /\ InOptions /\ OnOption
  /\ \/ Sets(Current, Current)
     \/ /\ did' = NoEffect
        /\ UNCHANGED <<ui, on, open, overlay, choiceOpt>>
OpenDetail ==
  /\ InOptions /\ OnOption
  /\ overlay' = "detail" /\ choiceOpt' = Current /\ did' = NoEffect
  /\ UNCHANGED <<ui, on, open>>
StartDescription == InOptions /\ Opens("description")

-----------------------------------------------------------------------------
(* What is open.                                                           *)

ConfirmQuit == InConfirm /\ Quits
CancelQuit == InConfirm /\ Shuts("confirm")

CloseOverlay ==
  /\ InOverlay /\ overlay' = "none" /\ choiceOpt' = <<>> /\ did' = NoEffect
  /\ UNCHANGED <<ui, on, open>>
Choose ==
  /\ InOverlay /\ overlay = "choice"
  /\ SetValue(<<ui.selected, choiceOpt[2]>>, choiceOpt)
  /\ overlay' = "none" /\ choiceOpt' = <<>> /\ UNCHANGED <<ui, open>>

(* The value goes to the option at the cursor.                             *)
CommitEdit ==
  /\ InEdit /\ OnOption
  /\ SetValue(Current, choiceOpt)
  /\ open' = open \ {"edit"} /\ choiceOpt' = <<>> /\ UNCHANGED <<ui, overlay>>
CancelEdit ==
  /\ InEdit /\ open' = open \ {"edit"} /\ choiceOpt' = <<>> /\ did' = NoEffect
  /\ UNCHANGED <<ui, on, overlay>>
EndDescription ==
  /\ InDescription /\ open' = open \ {"description"} /\ did' = NoEffect
  /\ UNCHANGED <<ui, on, overlay, choiceOpt>>

(* The message of a menuconfig that is done or has failed; the one of the  *)
(* configuration made for it starts it.                                    *)
MenuconfigDone ==
  /\ "menuconfig" \in open
  /\ open' = open \ {"menuconfig"} /\ did' = NoEffect
  /\ UNCHANGED <<ui, on, overlay, choiceOpt>>

Resize ==
  \E h \in Heights \ {ui.height} :
    Shows(EnsureTreeCursorVisible([ui EXCEPT !.height = h]))

-----------------------------------------------------------------------------
(* The mouse, where the screen is large enough.                            *)

ClickTree ==
  /\ Clickable
  /\ \E i \in Drawn(ui) :
       LET there == SelectCurrentNode([ui EXCEPT !.focus = "tree", !.cursor = i])
           node == ui.flat[i] IN
       Shows(EnsureTreeCursorVisible(
         IF ~HasChildren(node) THEN there
         ELSE RebuildFlat(
                [there EXCEPT !.expanded = IF node \in @ THEN @ \ {node} ELSE @ \cup {node}])))
WheelTree ==
  Clickable /\ \E delta \in {"up", "down"} : Shows(Moved([ui EXCEPT !.focus = "tree"], delta))
ClickOption ==
  Clickable /\ \E i \in 1..TotalRows : Act([ui EXCEPT !.focus = "options", !.opt = i], "enter")
WheelOptions ==
  Clickable /\ \E delta \in {"up", "down"} : Shows(MoveOption([ui EXCEPT !.focus = "options"], delta))
ClickDescription ==
  /\ Clickable /\ open' = open \cup {"description"} /\ ui' = [ui EXCEPT !.focus = "options"]
  /\ did' = NoEffect /\ UNCHANGED <<on, overlay, choiceOpt>>
ClickLanguage ==
  /\ Clickable /\ overlay' = "language" /\ choiceOpt' = <<>> /\ did' = NoEffect
  /\ UNCHANGED <<ui, on, open>>

ScreenNext ==
  \/ Interrupt \/ SaveAndQuit \/ StartSearch \/ Escape \/ SwitchPanel
  \/ MoveTreeCursor \/ FoldNode \/ UnfoldNode \/ ToggleNode \/ CollapseAll \/ ExpandAll
  \/ HideEmpty \/ JumpFromList
  \/ TypeQuery \/ CancelSearch \/ ConfirmSearch
  \/ MoveOptionCursor \/ ActOnOption \/ ResetOption \/ OpenDetail \/ StartDescription
  \/ ConfirmQuit \/ CancelQuit \/ CloseOverlay \/ Choose \/ CommitEdit \/ CancelEdit
  \/ EndDescription \/ MenuconfigDone \/ Resize
  \/ ClickTree \/ WheelTree \/ ClickOption \/ WheelOptions \/ ClickDescription \/ ClickLanguage

ScreenSpec == ScreenInit /\ [][ScreenNext]_screenVars

-----------------------------------------------------------------------------
(* A value goes to the option it was typed or picked for, whatever came in *)
(* between: an edit is committed to where the cursor is then, a choice to  *)
(* the package that is selected then.  And one thing takes the keys at a   *)
(* time: nothing is opened behind another, nor while menuconfig runs.      *)
AnswersGoWhereAsked ==
  /\ did.what = "set" => did.got = did.asked
  /\ Cardinality(open) + (IF overlay = "none" THEN 0 ELSE 1)
       + (IF ui.filtering THEN 1 ELSE 0) <= 1

(* A jump ends on the package that was asked for, with its row drawn and   *)
(* selected; but while empty packages are hidden, one whose first node is  *)
(* empty is not opened to.                                                 *)
JumpsLand ==
  did.what = "jump" =>
    \/ ui.hideEmpty /\ ~Displayable(FirstNode(did.asked))
    \/ did.got = did.asked /\ ui.cursor \in Drawn(ui) /\ Name(ui.flat[ui.cursor]) = did.asked

(* What is typed or picked goes where it was asked, and a jump ends on the *)
(* package it names.                                                       *)
ScreenIsTrue == AnswersGoWhereAsked /\ JumpsLand
=============================================================================
