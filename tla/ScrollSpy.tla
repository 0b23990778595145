------------------------------- MODULE ScrollSpy -------------------------------
(* Bootstrap's scrollspy: the link of the section one has scrolled to is lit.  *)
(* The sections' places are measured once and kept; a scroll event compares    *)
(* the height of the content with the one kept, measures again if it differs,  *)
(* and yet judges by the places from before.                                   *)
EXTENDS Integers, FiniteSets, SequencesExt

CONSTANTS
    Sections,    \* the targets of the links
    Tops,        \* bound: where a section may begin
    Heights,     \* bound: scrollHeight of the content
    ViewHeight,  \* height of the element
    Offset,      \* options.offset
    Steps        \* bound: where it may be scrolled to

NoTarget == 0   \* null or undefined, which != does not tell apart

ASSUME SpyAssumption ==
    /\ IsFiniteSet(Sections) /\ NoTarget \notin Sections
    /\ Tops \subseteq Nat /\ Heights \subseteq Nat \ {0} /\ Steps \subseteq Nat
    /\ 0 \in Steps /\ ViewHeight \in Nat /\ Offset \in Nat

VARIABLES
    content,    \* the page: top of each section, which are visible, height
    scrollTop,
    scrolled,   \* a scroll event is to come
    spy,        \* offsets, targets, activeTarget, scrollHeight of the object
    lit,        \* the targets whose links are active
    seen,       \* history: scroll events since the content changed, up to 2;
                \* refresh() is worth one
    unnoticed   \* history: it changed to the height the object had kept

spyVars == <<content, scrollTop, scrolled, spy, lit, seen, unnoticed>>

Contents == [top : [Sections -> Tops], visible : SUBSET Sections, height : Heights]
Within(c) == {y \in Steps : y = 0 \/ y + ViewHeight <= c.height}

\* sort() may leave sections with the same top in any order.
Measured(s, c) ==
    {[s EXCEPT !.targets = order, !.offsets = [i \in DOMAIN order |-> c.top[order[i]]],
               !.scrollHeight = c.height] :
       order \in {o \in SetToSeqs(c.visible) :
                    \A i \in 1 .. Len(o) - 1 : c.top[o[i]] <= c.top[o[i + 1]]}}

ActivateTarget(s, t) == [s EXCEPT !.activeTarget = t]
Lit(s) == {s.activeTarget} \ {NoTarget}

(* What process() makes activeTarget of the places in the object s. *)
Target(s, c, y) ==
    LET n == Len(s.targets)
        here == y + Offset
        reached == {i \in 1 .. n : here >= s.offsets[i] /\ (i = n \/ here < s.offsets[i + 1])}
    IN  CASE here >= Offset + c.height - ViewHeight ->
               IF n = 0 THEN NoTarget ELSE s.targets[n]
          [] here < Offset + c.height - ViewHeight /\ n > 0 /\ here < s.offsets[1] -> NoTarget
          [] OTHER -> IF reached = {} THEN s.activeTarget
                      ELSE s.targets[CHOOSE i \in reached : TRUE]

\* Mutant: the places are kept as they were when the page was loaded.
MeasuredOnce(s, c) == {s}

MeasuredAgain(s, c) == IF s.scrollHeight = c.height THEN {s} ELSE Measured(s, c)

Process(s, c, y) == {ActivateTarget(m, Target(s, c, y)) : m \in MeasuredAgain(s, c)}

SpyInit ==
    /\ content \in Contents /\ scrollTop \in Within(content)
    /\ \E m \in Measured([offsets |-> << >>, targets |-> << >>, activeTarget |-> NoTarget,
                          scrollHeight |-> 0], content) :
         spy \in Process(m, content, scrollTop)
    /\ scrolled = FALSE /\ lit = Lit(spy)
    /\ seen = 2 /\ unnoticed = FALSE

-----------------------------------------------------------------------------
Scroll ==
    /\ scrollTop' \in Within(content) \ {scrollTop}
    /\ scrolled' = TRUE
    /\ UNCHANGED <<content, spy, lit, seen, unnoticed>>

ScrollEvent ==
    /\ scrolled /\ scrolled' = FALSE
    /\ spy' \in Process(spy, content, scrollTop)
    /\ lit' = Lit(spy')
    /\ seen' = Min({2, seen + 1})
    /\ unnoticed' = (unnoticed /\ spy.scrollHeight = content.height)
    /\ UNCHANGED <<content, scrollTop>>

\* The browser scrolls a page that has become too short for where it was.
ContentChanges ==
    /\ content' \in Contents \ {content}
    /\ scrollTop' = Max({y \in Within(content') : y <= scrollTop})
    /\ scrolled' = (scrolled \/ scrollTop' # scrollTop)
    /\ seen' = 0 /\ unnoticed' = (content'.height = spy.scrollHeight)
    /\ UNCHANGED <<spy, lit>>

\* $().scrollspy("refresh")
RefreshCalled ==
    /\ spy' \in Measured(spy, content)
    /\ seen' = 1 /\ unnoticed' = FALSE
    /\ UNCHANGED <<content, scrollTop, scrolled, lit>>

SpyNext == Scroll \/ ScrollEvent \/ ContentChanges \/ RefreshCalled

SpySpec == SpyInit /\ [][SpyNext]_spyVars

-----------------------------------------------------------------------------
(* Properties.                                                               *)

\* The sections one can be said to be at.
AtSections ==
    LET begun == {t \in content.visible : content.top[t] <= scrollTop + Offset}
        among == IF scrollTop + ViewHeight >= content.height THEN content.visible ELSE begun
    IN  {t \in among : \A u \in among : content.top[u] <= content.top[t]}

\* Wherever one has scrolled to, the link that is lit is of the last section begun
\* there, or the last of all at the end of the page.  When the content changes it may
\* be wrong until the second scroll event, and longer if nobody is told of a change
\* that keeps the height; with no section left the last link stays lit.
LitWhereOneIs ==
    ~scrolled /\ seen = 2 /\ ~unnoticed /\ content.visible # {} =>
      IF AtSections = {} THEN lit = {} ELSE \E t \in AtSections : lit = {t}
=============================================================================
