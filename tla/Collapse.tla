------------------------------- MODULE Collapse -------------------------------
(* Bootstrap's collapse as an accordion: panels of one parent, each with a    *)
(* trigger.  A panel's Collapse object is built by its first use and kept in  *)
(* the element's data.  One built by a click takes the options of the trigger, *)
(* which name the parent; one built by a call takes those of the panel, which  *)
(* do not, and knows no other panel.  Showing a panel by an object that has    *)
(* the parent hides the active one, and gives an object that had to be built   *)
(* for this away again.                                                        *)
EXTENDS Integers, FiniteSets, SequencesExt

CONSTANTS
    Panels,          \* numbers from 1, in the order of the document
    MaxCollapseOps   \* bound: clicks and calls

ASSUME CollapseAssumption ==
    IsFiniteSet(Panels) /\ Panels \subseteq Nat \ {0} /\ MaxCollapseOps \in Nat

VARIABLES
    acc,           \* the classes of the panels and triggers, the objects, what waits
    collapseOps,
    blind,         \* history: used while a panel moved and it, or the panel used, had no object
    beside         \* history: shown beside an open panel by an object without the parent

collapseVars == <<acc, collapseOps, blind, beside>>

\* object: "none" in the data, or "moving" (transitioning) or "still".
\* parent: does it have the $parent?
\* ends: what waits for the end of a panel's transition; owned: by that object.
CollapseInit ==
    /\ \E open \in {panel \in SUBSET Panels : Cardinality(panel) <= 1} :
         acc = [class   |-> [p \in Panels |-> IF p \in open THEN "open" ELSE "shut"],
                trigger |-> [p \in Panels |-> IF p \in open THEN "open" ELSE "shut"],
                object  |-> [p \in Panels |-> "none"],
                parent  |-> [p \in Panels |-> FALSE],
                ends    |-> [p \in Panels |-> << >>]]
    /\ collapseOps = 0 /\ blind = FALSE /\ beside = FALSE

\* The constructor, but for its toggle().  Triggers are set by the class "in" of the
\* panel, which one that is opening does not have yet: by a click all of the parent,
\* by a call the panel's own.
ByClass(a, q) == IF a.class[q] = "open" THEN "open" ELSE "shut"

BuildByClick(a, p) == [a EXCEPT !.trigger = [q \in Panels |-> ByClass(a, q)],
                                !.object[p] = "still", !.parent[p] = TRUE]

BuildByCall(a, p) == [a EXCEPT !.trigger[p] = ByClass(a, p),
                               !.object[p] = "still", !.parent[p] = FALSE]

Moves(a, p, class, trigger, does) ==
    [a EXCEPT !.class[p] = class, !.trigger[p] = trigger, !.object[p] = "moving",
              !.ends[p] = Append(@, [does |-> does, owned |-> TRUE])]

HidePanel(a, p) ==
    IF a.object[p] = "moving" \/ a.class[p] # "open" THEN a
    ELSE Moves(a, p, "closing", "shut", "hidden")

\* Plugin.call(actives, 'hide'), of one panel and of each in the document's order.
HideCall(a, p) == HidePanel(IF a.object[p] = "none" THEN BuildByCall(a, p) ELSE a, p)

HideCalls(a, actives) ==
    LET hide[i \in 0 .. Max(actives)] ==
          IF i = 0 THEN a ELSE IF i \in actives THEN HideCall(hide[i - 1], i) ELSE hide[i - 1]
    IN  hide[Max(actives)]

\* Mutant: the active panel stays open.
ShowPanelBeside(a, p, mine, child) ==
    IF mine = "moving" \/ a.class[p] = "open" THEN a ELSE Moves(a, p, "opening", "open", "shown")

\* show() of p's object: mine is what it does, child whether it has the parent.  While
\* its constructor runs the object is "still", and in nobody's data.
ShowPanel(a, p, mine, child) ==
    LET actives == {q \in Panels : child /\ a.class[q] # "shut"}
        first   == Min(actives)
        hidden  == HideCalls(a, actives)
        given   == [hidden EXCEPT
            !.object = [q \in Panels |-> IF q \in actives THEN "none" ELSE @[q]],
            !.parent = [q \in Panels |-> q \notin actives /\ @[q]],
            !.ends   = [q \in Panels |-> IF q \notin actives THEN @[q] ELSE
                         [i \in DOMAIN @[q] |-> [@[q][i] EXCEPT !.owned = FALSE]]]]
    IN  CASE mine = "moving" \/ a.class[p] = "open" -> a
          [] mine # "moving" /\ a.class[p] # "open" /\ actives = {} ->
                Moves(a, p, "opening", "open", "shown")
          [] mine # "moving" /\ a.class[p] # "open" /\ actives # {} /\ a.object[first] = "none" ->
                [Moves(given, p, "opening", "open", "shown")
                   EXCEPT !.object[p] = IF p \in actives THEN "none" ELSE @]
          [] mine # "moving" /\ a.class[p] # "open" /\ actives # {} /\ a.object[first] = "still" ->
                Moves(hidden, p, "opening", "open", "shown")
          [] OTHER -> a

TogglePanel(a, p, mine, child) ==
    IF a.class[p] = "open" THEN HidePanel(a, p) ELSE ShowPanel(a, p, mine, child)

\* A click of the trigger: toggle(), by the new object's constructor if need be,
\* whose object is stored when it has run.
FirstToggle(a, p) ==
    LET b == [BuildByClick(a, p) EXCEPT !.object[p] = a.object[p]]
        c == TogglePanel(b, p, "still", TRUE)
    IN  [c EXCEPT !.object[p] = IF Len(c.ends[p]) = Len(b.ends[p]) THEN "still" ELSE "moving",
                  !.parent[p] = TRUE]

Moving(a) == \E p \in Panels : a.ends[p] # << >>

\* What transitioning cannot tell: the object was given away, or is built now.
Blind(p) == \E q \in Panels : acc.ends[q] # << >> /\ "none" \in {acc.object[p], acc.object[q]}

\* Does an object that does not know the others open p now, and another is open?
Beside(p, child) ==
    /\ ~child /\ acc.class[p] # "opening" /\ acc'.class[p] = "opening"
    /\ \E q \in Panels \ {p} : acc.class[q] \in {"open", "opening"}

Uses(p, child) ==
    /\ collapseOps < MaxCollapseOps
    /\ collapseOps' = collapseOps + 1
    /\ blind' = (blind \/ Blind(p))
    /\ beside' = (beside \/ Beside(p, child))

ClickTrigger(p) ==
    /\ acc' = IF acc.object[p] = "none" THEN FirstToggle(acc, p)
              ELSE TogglePanel(acc, p, acc.object[p], acc.parent[p])
    /\ Uses(p, acc.object[p] = "none" \/ acc.parent[p])

\* Code calls 'show' or 'hide'.
CallPanel(p) ==
    LET a == IF acc.object[p] = "none" THEN BuildByCall(acc, p) ELSE acc
    IN  /\ acc' \in {ShowPanel(a, p, a.object[p], a.parent[p]), HidePanel(a, p)}
        /\ Uses(p, a.parent[p])

\* The transition of a panel ends, by the event or the timer that emulates it.
PanelEnds(p) ==
    /\ acc.ends[p] # << >>
    /\ LET complete(a, end) ==
             [a EXCEPT !.class[p] = IF end.does = "shown" THEN "open"
                                    ELSE IF @ = "open" THEN "open" ELSE "shut",
                       !.object[p] = IF end.owned /\ @ # "none" THEN "still" ELSE @]
           after[i \in 0 .. Len(acc.ends[p])] ==
             IF i = 0 THEN [acc EXCEPT !.ends[p] = << >>] ELSE complete(after[i - 1], acc.ends[p][i])
       IN  acc' = after[Len(acc.ends[p])]
    /\ UNCHANGED <<collapseOps, blind, beside>>

CollapseNext == \E p \in Panels : ClickTrigger(p) \/ CallPanel(p) \/ PanelEnds(p)

CollapseSpec == CollapseInit /\ [][CollapseNext]_collapseVars

-----------------------------------------------------------------------------
(* Properties.                                                               *)

\* An accordion has at most one panel open or opening, and its triggers say which
\* when nothing moves, whatever is clicked and called while panels still move.
\* Two things are not so in the code, and are left out.  A panel of which no object
\* is kept may move without show() knowing it (blind).  And an object built by
\* collapse('show') or ('hide') has no parent, as data-parent is on the trigger
\* (bootstrap.js:555-559, 672, 706): its show(), by a call or by a later click of
\* the trigger, leaves another panel open (beside).
OnePanelOpen ==
    ~blind =>
      /\ ~beside => Cardinality({p \in Panels : acc.class[p] \in {"open", "opening"}}) <= 1
      /\ ~Moving(acc) => acc.trigger = acc.class
=============================================================================
