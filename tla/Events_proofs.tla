---------------------------- MODULE Events_proofs -----------------------------
(* Theorems about Events, for every ancestry of elements, every set of        *)
(* handlers and every nesting of the events they make: that an event reaches  *)
(* a handler once, and one of one() only one event.                           *)
(*                                                                            *)
(* What an event is still going to do is on the call stack.  EventsInv says   *)
(* frame by frame that it is for handlers the event has not reached, and that *)
(* nothing a handler does to the lists of handlers changes that.              *)
EXTENDS Events, JQuery_proofs

-----------------------------------------------------------------------------
(* Loops.                                                                    *)

\* A loop over 1 .. len has its intermediate results.
Stages(f, first, next, len) == f[0] = first /\ \A i \in 1 .. len : f[i] = next[i][f[i - 1]]

LEMMA StagesExist ==
  ASSUME NEW S, NEW first \in S, NEW next \in [Nat -> [S -> S]], NEW len \in Nat
  PROVE  \E f \in [0 .. len -> S] : Stages(f, first, next, len)
<1> USE DEF Stages
<1> DEFINE T == {n \in Nat : \E f \in [0 .. n -> S] : Stages(f, first, next, n)}
<1>1. 0 \in T
  <2> DEFINE f == [k \in 0 .. 0 |-> first]
  <2>1. f \in [0 .. 0 -> S] /\ f[0] = first   OBVIOUS
  <2>2. \A i \in 1 .. 0 : f[i] = next[i][f[i - 1]]   OBVIOUS
  <2> HIDE DEF f
  <2> QED  BY <2>1, <2>2
<1>2. ASSUME NEW n \in Nat, n \in T   PROVE  n + 1 \in T
  <2>1. PICK f \in [0 .. n -> S] : Stages(f, first, next, n)   BY <1>2
  <2>2. f[n] \in S /\ n + 1 \in Nat   OBVIOUS
  <2> DEFINE x == next[n + 1][f[n]]
             g == [k \in 0 .. n + 1 |-> IF k <= n THEN f[k] ELSE x]
  <2>3. x \in S   BY <2>2
  <2> HIDE DEF x
  <2>4. g \in [0 .. n + 1 -> S]   BY <2>3
  <2>5. g[0] = first   BY <2>1
  <2>6. ASSUME NEW i \in 1 .. n + 1   PROVE  g[i] = next[i][g[i - 1]]
    <3>1. CASE i <= n
      <4>1. i \in 1 .. n /\ i - 1 <= n /\ i - 1 \in 0 .. n + 1 /\ i \in 0 .. n + 1   BY <3>1
      <4>2. g[i] = f[i] /\ g[i - 1] = f[i - 1]   BY <3>1, <4>1
      <4> QED  BY <2>1, <4>1, <4>2
    <3>2. CASE ~(i <= n)
      <4>1. i = n + 1 /\ i - 1 = n /\ n \in 0 .. n + 1 /\ ~(n + 1 <= n)   BY <3>2
      <4>2. g[i] = x /\ g[i - 1] = f[n]   BY <4>1
      <4> QED  BY <4>1, <4>2 DEF x
    <3> QED  BY <3>1, <3>2
  <2> HIDE DEF g
  <2> QED  BY <2>4, <2>5, <2>6
<1> HIDE DEF T
<1>3. Nat \subseteq T   BY <1>1, <1>2, Induction
<1> QED  BY <1>3 DEF T

-----------------------------------------------------------------------------
(* The inductive invariant.                                                  *)

\* What attached handlers, the lists of elements and the frames of the stack are.
Hs         == [id : Nat, fn : Handlers, selector : Nodes \union {NoSelector}, namespace : Namespaces,
               one : BOOLEAN]
Lists      == [list : Seq(Hs), delegateCount : Nat, listener : BOOLEAN]
Walks      == [does : {"walk"}, by : {"trigger", "browser", "default"}, event : Nat, target : Nodes,
               path : Seq(Nodes), namespace : Namespaces, default : BOOLEAN, stopped : BOOLEAN]
Queued     == [at : Nodes, h : Hs]
Dispatches == [does : {"dispatch"}, event : Nat, on : Nodes, queue : Seq(Queued)]
Running    == [does : {"handler"}, at : Nodes]
Frames     == Walks \union Dispatches \union Running

\* The delegates are in front and counted, and the browser has its listener.
ListSound(b) ==
  /\ b.delegateCount <= Len(b.list) /\ (b.listener = TRUE <=> b.list # << >>)
  /\ \A i \in 1 .. Len(b.list) : b.list[i].selector # NoSelector <=> i <= b.delegateCount

\* An id is that of one handler at one element.
IdsApart(b, now) ==
  /\ \A e \in Nodes : \A i \in 1 .. Len(b[e].list) : b[e].list[i].id <= now
  /\ \A e, f \in Nodes : \A i \in 1 .. Len(b[e].list), j \in 1 .. Len(b[f].list) :
       b[e].list[i].id = b[f].list[j].id => e = f /\ i = j

\* Where a walk still goes nothing was handled of its event.
WalkSound(w, b, done, now) ==
  /\ w.event <= now
  /\ \A i, j \in 1 .. Len(w.path) : w.path[i] = w.path[j] => i = j
  /\ w.by # "default" =>
       \A i \in 1 .. Len(w.path) : \A j \in 1 .. Len(b[w.path[i]].list) :
         <<w.event, b[w.path[i]].list[j].id>> \notin done

\* Nor by the queue of the dispatch w is in, which has left its element behind.
DispatchSound(d, w, b, done, now) ==
  /\ d.event = w.event /\ w.by # "default" /\ \A i \in 1 .. Len(w.path) : w.path[i] # d.on
  /\ \A i, j \in 1 .. Len(d.queue) : d.queue[i].h.id = d.queue[j].h.id => i = j
  /\ \A i \in 1 .. Len(d.queue) :
       /\ d.queue[i].h.id <= now /\ <<d.event, d.queue[i].h.id>> \notin done
       /\ \A e \in Nodes : \A j \in 1 .. Len(b[e].list) :
            b[e].list[j].id = d.queue[i].h.id => e = d.on /\ b[e].list[j] = d.queue[i].h

\* A handler runs in a dispatch, a dispatch in a walk, a walk in a handler.
FrameSound(st, i, b, done, now) ==
  /\ st[i].does = "walk" =>
       /\ WalkSound(st[i], b, done, now) /\ (i < Len(st) => st[i + 1].does = "handler")
       /\ st[i].by = "default" => i = 1
       /\ \A j \in i + 1 .. Len(st) : st[j].does = "walk" => st[j].event # st[i].event
  /\ st[i].does = "dispatch" =>
       i < Len(st) /\ st[i + 1].does = "walk" /\ DispatchSound(st[i], st[i + 1], b, done, now)
  /\ st[i].does = "handler" => i < Len(st) /\ st[i + 1].does = "dispatch"

\* The handlers of one() that are left have had no event, when they are made one at a time.
OneWalk(st) == \A i, j \in 1 .. Len(st) : st[i].does = "walk" /\ st[j].does = "walk" => i = j
OnceQueued(d, done) ==
  d.does = "dispatch" => \A k \in 1 .. Len(d.queue) :
                           d.queue[k].h.one = TRUE => \A r \in done : r[2] # d.queue[k].h.id
OnceBound(b, done) ==
  \A e \in Nodes : \A i \in 1 .. Len(b[e].list) :
    b[e].list[i].one = TRUE => \A r \in done : r[2] # b[e].list[i].id
OnceStack(st, done) == OneWalk(st) /\ \A i \in 1 .. Len(st) : OnceQueued(st[i], done)

Sound(st, b, done, now) ==
  st \in Seq(Frames) /\ \A i \in 1 .. Len(st) : FrameSound(st, i, b, done, now)

DefaultOnTop(st) == st # << >> /\ st[1].does = "walk" /\ st[1].by = "default"

\* The lists of all elements.
BoundSound(b, now) ==
  b \in [Nodes -> Lists] /\ (\A e \in Nodes : ListSound(b[e])) /\ IdsApart(b, now)

EventsInv ==
  /\ eventOps \in Nat /\ handled \subseteq (0 .. eventOps) \X (0 .. eventOps)
  /\ triggered \in BOOLEAN /\ again = FALSE /\ nested \in BOOLEAN
  /\ BoundSound(bound, eventOps) /\ Sound(evStack, bound, handled, eventOps)
  /\ triggered = TRUE <=> DefaultOnTop(evStack)
  /\ nested = FALSE => OnceStack(evStack, handled) /\ OnceBound(bound, handled)

-----------------------------------------------------------------------------
(* Parts of sequences.                                                       *)

\* The stages of the loop of Among.
AmongSteps(f, s, T) ==
  /\ f[0] = << >>
  /\ \A n \in 1 .. Len(s) : f[n] = IF s[n] \in T THEN Append(f[n - 1], s[n]) ELSE f[n - 1]

LEMMA AmongStages ==
  ASSUME NEW S, NEW s \in Seq(S), NEW T
  PROVE  \E f \in [0 .. Len(s) -> Seq(S)] : AmongSteps(f, s, T) /\ Among(s, T) = f[Len(s)]
<1> DEFINE len == Len(s)
           Is(f) == f = [n \in 0 .. len |-> IF n = 0 THEN << >>
                                            ELSE IF s[n] \in T THEN Append(f[n - 1], s[n]) ELSE f[n - 1]]
           r == CHOOSE f : Is(f)
<1>1. len \in Nat /\ << >> \in Seq(S) /\ \A n \in 1 .. len : s[n] \in S   OBVIOUS
<1>2. Among(s, T) = r[len]   BY DEF Among
<1>3. \E f : Is(f)
  <2> DEFINE next == [i \in Nat |-> [q \in Seq(S) |-> IF i \in 1 .. len /\ s[i] \in T THEN Append(q, s[i]) ELSE q]]
  <2>1. next \in [Nat -> [Seq(S) -> Seq(S)]]
    <3> SUFFICES ASSUME NEW i \in Nat, NEW q \in Seq(S)
                 PROVE  (IF i \in 1 .. len /\ s[i] \in T THEN Append(q, s[i]) ELSE q) \in Seq(S)
      OBVIOUS
    <3> HIDE DEF len
    <3> QED  BY <1>1
  <2> HIDE DEF next, len
  <2>2. PICK f \in [0 .. len -> Seq(S)] : Stages(f, << >>, next, len)
    BY <1>1, <2>1, StagesExist
  <2>3. f[0] = << >> /\ \A i \in 1 .. len : f[i] = next[i][f[i - 1]]   BY <2>2 DEF Stages
  <2>4. ASSUME NEW i \in 0 .. len
        PROVE  f[i] = IF i = 0 THEN << >> ELSE IF s[i] \in T THEN Append(f[i - 1], s[i]) ELSE f[i - 1]
    <3>1. CASE i = 0   BY <2>3, <3>1
    <3>2. CASE i # 0
      <4>1. i \in 1 .. len /\ i - 1 \in 0 .. len /\ i \in Nat   BY <1>1, <3>2
      <4>2. f[i - 1] \in Seq(S)   BY <4>1
      <4>3. f[i] = next[i][f[i - 1]]   BY <2>3, <4>1
      <4>4. next[i][f[i - 1]] = IF s[i] \in T THEN Append(f[i - 1], s[i]) ELSE f[i - 1]
        BY <4>1, <4>2 DEF next
      <4> QED  BY <3>2, <4>3, <4>4
    <3> QED  BY <3>1, <3>2
  <2>5. f = [i \in 0 .. len |-> f[i]]   OBVIOUS
  <2>6. Is(f)   BY <2>4, <2>5
  <2> QED  BY <2>6
<1>4. Is(r)
  <2> HIDE DEF Is
  <2> QED  BY <1>3
<1>5. /\ r[0] = << >> /\ r = [n \in 0 .. len |-> r[n]]
      /\ \A n \in 1 .. len : r[n] = IF s[n] \in T THEN Append(r[n - 1], s[n]) ELSE r[n - 1]
  <2> HIDE DEF r
  <2>1. \A n \in 0 .. len : r[n] = IF n = 0 THEN << >> ELSE IF s[n] \in T THEN Append(r[n - 1], s[n]) ELSE r[n - 1]
    BY <1>4, Zenon
  <2>2. r = [n \in 0 .. len |-> r[n]]   BY <1>4
  <2> HIDE DEF Is, len
  <2> QED  BY <1>1, <2>1, <2>2
<1> HIDE DEF r, Is, len
<1>6. \A n \in 0 .. len : r[n] \in Seq(S)
  <2> DEFINE N == {n \in Nat : n <= len => r[n] \in Seq(S)}
  <2>1. 0 \in N   BY <1>1, <1>5
  <2>2. ASSUME NEW n \in Nat, n \in N   PROVE n + 1 \in N
    <3> SUFFICES ASSUME n + 1 <= len   PROVE r[n + 1] \in Seq(S)
      OBVIOUS
    <3>1. n + 1 \in 1 .. len /\ (n + 1) - 1 = n /\ n <= len   BY <1>1
    <3>2. r[n] \in Seq(S) /\ s[n + 1] \in S   BY <1>1, <2>2, <3>1
    <3>3. r[n + 1] = IF s[n + 1] \in T THEN Append(r[n], s[n + 1]) ELSE r[n]   BY <1>5, <3>1
    <3> QED  BY <3>2, <3>3
  <2> HIDE DEF N
  <2>3. Nat \subseteq N   BY <2>1, <2>2, Induction
  <2> QED  BY <1>1, <2>3 DEF N
<1>7. r \in [0 .. len -> Seq(S)]   BY <1>5, <1>6
<1>8. AmongSteps(r, s, T)   BY <1>5 DEF AmongSteps, len
<1> QED  BY <1>2, <1>7, <1>8 DEF len

\* The places in s of the elements of Among(s, T), in order.
Places(p, s, t, T) ==
  /\ p \in [1 .. Len(t) -> 1 .. Len(s)]
  /\ \A i \in 1 .. Len(t) : t[i] = s[p[i]] /\ t[i] \in T
  /\ \A i, j \in 1 .. Len(t) : i < j => p[i] < p[j]

LEMMA AmongIs ==
  ASSUME NEW S, NEW s \in Seq(S), NEW T
  PROVE  Among(s, T) \in Seq(S) /\ \E p : Places(p, s, Among(s, T), T)
<1>1. PICK f \in [0 .. Len(s) -> Seq(S)] : AmongSteps(f, s, T) /\ Among(s, T) = f[Len(s)]   BY AmongStages
<1> DEFINE P(n) == \E p \in [1 .. Len(f[n]) -> 1 .. n] :
                     /\ \A i \in 1 .. Len(f[n]) : f[n][i] = s[p[i]] /\ f[n][i] \in T
                     /\ \A i, j \in 1 .. Len(f[n]) : i < j => p[i] < p[j]
           N == {n \in Nat : n <= Len(s) => P(n)}
<1>2. Len(s) \in Nat /\ f[0] = << >> /\ \A n \in 0 .. Len(s) : f[n] \in Seq(S)
  <2>1. Len(s) \in Nat   OBVIOUS
  <2>2. f[0] = << >>   BY <1>1 DEF AmongSteps
  <2>3. \A n \in 0 .. Len(s) : f[n] \in Seq(S)   BY <1>1
  <2> QED  BY <2>1, <2>2, <2>3
<1>3. P(0)
  <2>1. Len(f[0]) = 0   BY <1>2
  <2>2. [i \in 1 .. Len(f[0]) |-> 1] \in [1 .. Len(f[0]) -> 1 .. 0]   BY <2>1
  <2>3. \A i \in 1 .. Len(f[0]) : FALSE   BY <2>1
  <2> QED  BY <2>2, <2>3
<1>4. ASSUME NEW n \in Nat, n + 1 <= Len(s), P(n)   PROVE P(n + 1)
  <2>1. n + 1 \in 1 .. Len(s) /\ (n + 1) - 1 = n /\ n \in 0 .. Len(s) /\ n + 1 \in 0 .. Len(s)   BY <1>2, <1>4
  <2>2. f[n + 1] = IF s[n + 1] \in T THEN Append(f[n], s[n + 1]) ELSE f[n]   BY <1>1, <2>1 DEF AmongSteps
  <2>3. PICK p \in [1 .. Len(f[n]) -> 1 .. n] :
                     /\ \A i \in 1 .. Len(f[n]) : f[n][i] = s[p[i]] /\ f[n][i] \in T
                     /\ \A i, j \in 1 .. Len(f[n]) : i < j => p[i] < p[j]
    BY <1>4
  <2>4. CASE s[n + 1] \notin T
    <3>1. f[n + 1] = f[n]   BY <2>2, <2>4
    <3>2. p \in [1 .. Len(f[n]) -> 1 .. n + 1]   BY <2>1
    <3> QED  BY <2>3, <3>1, <3>2
  <2>5. CASE s[n + 1] \in T
    <3> DEFINE t == f[n]
               u == Append(t, s[n + 1])
               q == [i \in 1 .. Len(u) |-> IF i <= Len(t) THEN p[i] ELSE n + 1]
    <3>1. /\ t \in Seq(S) /\ s[n + 1] \in S /\ Len(t) \in Nat /\ Len(u) = Len(t) + 1
          /\ u[Len(t) + 1] = s[n + 1] /\ \A i \in 1 .. Len(t) : u[i] = t[i]
      BY <1>2, <2>1
    <3>2. f[n + 1] = u   BY <2>2, <2>5
    <3> HIDE DEF u
    <3>3. /\ \A i \in 1 .. Len(t) : q[i] = p[i] /\ p[i] \in 1 .. n
          /\ q[Len(t) + 1] = n + 1
      BY <3>1
    <3>4. \A i \in 1 .. Len(u) : i \in 1 .. Len(t) \/ i = Len(t) + 1   BY <3>1
    <3>5. q \in [1 .. Len(u) -> 1 .. n + 1]
      <4>1. \A i \in 1 .. Len(u) : q[i] \in 1 .. n + 1
        <5> HIDE DEF q, t
        <5>1. n + 1 \in 1 .. n + 1 /\ 1 .. n \subseteq 1 .. n + 1   OBVIOUS
        <5> QED  BY <3>3, <3>4, <5>1
      <4> QED  BY <4>1
    <3> HIDE DEF q, t
    <3>6. \A i \in 1 .. Len(u) : u[i] = s[q[i]] /\ u[i] \in T
      BY <2>3, <2>5, <3>1, <3>3, <3>4 DEF t
    <3>7. ASSUME NEW i \in 1 .. Len(u), NEW j \in 1 .. Len(u), i < j   PROVE q[i] < q[j]
      <4>1. i \in 1 .. Len(t)   BY <3>1, <3>7
      <4>2. CASE j \in 1 .. Len(t)   BY <2>3, <3>3, <3>7, <4>1, <4>2 DEF t
      <4>3. CASE j = Len(t) + 1   BY <3>3, <4>1, <4>3
      <4> QED  BY <3>4, <4>2, <4>3
    <3> QED  BY <3>2, <3>5, <3>6, <3>7
  <2> QED  BY <2>4, <2>5
<1>5. Len(s) \in N
  <2>1. 0 \in N   BY <1>3
  <2>2. \A n \in Nat : n \in N => n + 1 \in N
    <3> HIDE DEF P
    <3>1. ASSUME NEW n \in Nat, n \in N, n + 1 <= Len(s)   PROVE P(n + 1)
      <4>1. P(n)   BY <1>2, <3>1
      <4> QED  BY <1>4, <3>1, <4>1
    <3> QED  BY <3>1
  <2> HIDE DEF N
  <2> QED  BY <1>2, <2>1, <2>2, Induction
<1>6. P(Len(s))   BY <1>2, <1>5
<1>7. \E p : Places(p, s, f[Len(s)], T)   BY <1>6 DEF Places
<1> QED  BY <1>1, <1>2, <1>7

\* Those of s left out of T and those in it that are counted: what is counted in front of
\* s stays in front, fewer by these.
LEMMA DetachCounts ==
  ASSUME NEW S, NEW s \in Seq(S), NEW dc \in 0 .. Len(s), NEW D, NEW out,
         \A i \in 1 .. Len(s) : s[i] \in D <=> i <= dc
  PROVE  LET kept == Among(s, Range(s) \ out)
             gone == Among(s, {h \in out : h \in D})
         IN  /\ dc - Len(gone) \in 0 .. Len(kept)
             /\ \A i \in 1 .. Len(kept) : kept[i] \in D <=> i <= dc - Len(gone)
<1> DEFINE in == Range(s) \ out
           of == {h \in out : h \in D}
<1>1. PICK k \in [0 .. Len(s) -> Seq(S)] : AmongSteps(k, s, in) /\ Among(s, in) = k[Len(s)]   BY AmongStages
<1>2. PICK g \in [0 .. Len(s) -> Seq(S)] : AmongSteps(g, s, of) /\ Among(s, of) = g[Len(s)]   BY AmongStages
<1> DEFINE m(n) == IF n <= dc THEN n ELSE dc
           P(n) == /\ m(n) - Len(g[n]) \in 0 .. Len(k[n])
                   /\ n <= dc => Len(k[n]) = n - Len(g[n])
                   /\ \A i \in 1 .. Len(k[n]) : k[n][i] \in D <=> i <= m(n) - Len(g[n])
           N == {n \in Nat : n <= Len(s) => P(n)}
<1>3. /\ Len(s) \in Nat /\ dc \in Nat /\ dc <= Len(s) /\ k[0] = << >> /\ g[0] = << >>
      /\ \A n \in 0 .. Len(s) : k[n] \in Seq(S) /\ g[n] \in Seq(S) /\ Len(k[n]) \in Nat /\ Len(g[n]) \in Nat
  BY <1>1, <1>2 DEF AmongSteps
<1>4. P(0)
  <2>1. Len(k[0]) = 0 /\ Len(g[0]) = 0 /\ m(0) = 0   BY <1>3
  <2> HIDE DEF m
  <2> QED  BY <2>1
<1>5. ASSUME NEW n \in Nat, n + 1 <= Len(s), P(n)   PROVE P(n + 1)
  <2>1. n + 1 \in 1 .. Len(s) /\ (n + 1) - 1 = n /\ n \in 0 .. Len(s) /\ n + 1 \in 0 .. Len(s)   BY <1>3, <1>5
  <2> DEFINE x == s[n + 1]
  <2>2. /\ k[n + 1] = IF x \in in THEN Append(k[n], x) ELSE k[n]
        /\ g[n + 1] = IF x \in of THEN Append(g[n], x) ELSE g[n]
    BY <1>1, <1>2, <2>1 DEF AmongSteps
  <2>3. x \in Range(s) /\ x \in S /\ (x \in D <=> n + 1 <= dc)
    <3>1. Range(s) = {s[i] : i \in 1 .. Len(s)}   BY RangeEquality
    <3> QED  BY <2>1, <3>1
  <2>4. /\ Len(k[n]) \in Nat /\ Len(g[n]) \in Nat /\ k[n] \in Seq(S) /\ g[n] \in Seq(S)   BY <1>3, <2>1
  <2>5. /\ Len(Append(k[n], x)) = Len(k[n]) + 1 /\ Len(Append(g[n], x)) = Len(g[n]) + 1
        /\ Append(k[n], x)[Len(k[n]) + 1] = x /\ \A i \in 1 .. Len(k[n]) : Append(k[n], x)[i] = k[n][i]
    BY <2>3, <2>4
  <2> HIDE DEF x
  <2>6. CASE x \in out
    <3>1. k[n + 1] = k[n]   BY <2>2, <2>6
    <3>2. CASE x \in D
      <4>1. n + 1 <= dc /\ n <= dc /\ m(n + 1) = n + 1 /\ m(n) = n   BY <1>3, <2>3, <3>2
      <4>2. Len(g[n + 1]) = Len(g[n]) + 1   BY <2>2, <2>5, <2>6, <3>2
      <4>3. m(n + 1) - Len(g[n + 1]) = m(n) - Len(g[n])   BY <2>4, <4>1, <4>2
      <4>4. (n + 1) - Len(g[n + 1]) = n - Len(g[n])   BY <2>4, <4>2
      <4> HIDE DEF m
      <4> QED  BY <1>5, <3>1, <4>1, <4>3, <4>4
    <3>3. CASE x \notin D
      <4>1. ~(n + 1 <= dc) /\ m(n + 1) = dc /\ m(n) = dc   BY <1>3, <2>3, <3>3
      <4>2. g[n + 1] = g[n]   BY <2>2, <3>3
      <4> HIDE DEF m
      <4> QED  BY <1>5, <3>1, <4>1, <4>2
    <3> QED  BY <3>2, <3>3
  <2>7. CASE x \notin out
    <3>1. k[n + 1] = Append(k[n], x) /\ g[n + 1] = g[n]   BY <2>2, <2>3, <2>7
    <3>2. \A i \in 1 .. Len(k[n + 1]) : i \in 1 .. Len(k[n]) \/ i = Len(k[n]) + 1   BY <2>4, <2>5, <3>1
    <3>3. CASE x \in D
      <4>1. n + 1 <= dc /\ n <= dc /\ m(n + 1) = n + 1 /\ m(n) = n   BY <1>3, <2>3, <3>3
      <4> HIDE DEF m
      <4>5. Len(k[n + 1]) = Len(k[n]) + 1 /\ Len(g[n + 1]) = Len(g[n])   BY <2>5, <3>1
      <4>6. Len(k[n]) = n - Len(g[n])   BY <1>5, <4>1
      <4>2. Len(k[n]) = n - Len(g[n]) /\ Len(k[n + 1]) = (n + 1) - Len(g[n + 1])
        BY <2>4, <4>5, <4>6
      <4>3. m(n + 1) - Len(g[n + 1]) \in 0 .. Len(k[n + 1])
        <5>1. (n + 1) - Len(g[n + 1]) \in 0 .. Len(k[n + 1])   BY <2>4, <4>2, <4>5
        <5> QED  BY <4>1, <5>1
      <4>4. ASSUME NEW i \in 1 .. Len(k[n + 1])   PROVE k[n + 1][i] \in D <=> i <= m(n + 1) - Len(g[n + 1])
        <5>1. i <= (n + 1) - Len(g[n + 1])   BY <4>2
        <5>2. CASE i \in 1 .. Len(k[n])
          <6>1. i <= m(n) - Len(g[n])   BY <2>4, <4>1, <4>2, <5>2
          <6>2. k[n][i] \in D   BY <1>5, <5>2, <6>1
          <6> QED  BY <2>5, <3>1, <4>1, <5>1, <5>2, <6>2
        <5>3. CASE i = Len(k[n]) + 1   BY <2>5, <3>1, <3>3, <4>1, <5>1, <5>3
        <5> QED  BY <3>2, <5>2, <5>3
      <4> QED  BY <4>1, <4>2, <4>3, <4>4
    <3>4. CASE x \notin D
      <4>1. ~(n + 1 <= dc) /\ m(n + 1) = dc /\ m(n) = dc   BY <1>3, <2>3, <3>4
      <4> HIDE DEF m
      <4>2. dc - Len(g[n]) \in 0 .. Len(k[n]) /\ g[n + 1] = g[n]   BY <1>5, <3>1, <4>1
      <4>3. m(n + 1) - Len(g[n + 1]) \in 0 .. Len(k[n + 1])   BY <2>4, <2>5, <3>1, <4>1, <4>2
      <4>4. ASSUME NEW i \in 1 .. Len(k[n + 1])   PROVE k[n + 1][i] \in D <=> i <= m(n + 1) - Len(g[n + 1])
        <5>1. CASE i \in 1 .. Len(k[n])
          <6>1. k[n][i] \in D <=> i <= dc - Len(g[n])   BY <1>5, <4>1, <5>1
          <6> QED  BY <2>5, <3>1, <4>1, <4>2, <5>1, <6>1
        <5>2. CASE i = Len(k[n]) + 1
          <6>1. ~(i <= dc - Len(g[n]))   BY <2>4, <4>2, <5>2
          <6> QED  BY <2>5, <3>1, <3>4, <4>1, <4>2, <5>2, <6>1
        <5> QED  BY <3>2, <5>1, <5>2
      <4> QED  BY <4>1, <4>3, <4>4
    <3> QED  BY <3>3, <3>4
  <2> QED  BY <2>6, <2>7
<1>6. Len(s) \in N
  <2>1. 0 \in N   BY <1>4
  <2>2. \A n \in Nat : n \in N => n + 1 \in N
    <3> HIDE DEF P
    <3>1. ASSUME NEW n \in Nat, n \in N, n + 1 <= Len(s)   PROVE P(n + 1)
      <4>1. P(n)   BY <1>3, <3>1
      <4> QED  BY <1>5, <3>1, <4>1
    <3> QED  BY <3>1
  <2> HIDE DEF N
  <2> QED  BY <1>3, <2>1, <2>2, Induction
<1>7. P(Len(s))   BY <1>3, <1>6
<1>8. m(Len(s)) = dc   BY <1>3
<1> HIDE DEF m, in, of
<1>9. /\ dc - Len(g[Len(s)]) \in 0 .. Len(k[Len(s)])
      /\ \A i \in 1 .. Len(k[Len(s)]) : k[Len(s)][i] \in D <=> i <= dc - Len(g[Len(s)])
  BY <1>7, <1>8
<1> QED  BY <1>1, <1>2, <1>9 DEF in, of

-----------------------------------------------------------------------------
(* The handlers of an element.                                               *)

\* h is put into t at a place of its own.
Inserted(s, t, at, h) ==
  /\ at \in 1 .. Len(t) + 1 /\ Len(s) = Len(t) + 1 /\ s[at] = h
  /\ \A i \in 1 .. at - 1 : s[i] = t[i]
  /\ \A i \in at + 1 .. Len(s) : s[i] = t[i - 1]

LEMMA AttachIs ==
  ASSUME NEW b \in Lists, ListSound(b), NEW h \in Hs
  PROVE  /\ Attach(b, h) \in Lists /\ ListSound(Attach(b, h))
         /\ \E at : Inserted(Attach(b, h).list, b.list, at, h)
<1>1. /\ b.list \in Seq(Hs) /\ b.delegateCount \in Nat /\ Len(b.list) \in Nat /\ b.delegateCount <= Len(b.list)
      /\ \A i \in 1 .. Len(b.list) : b.list[i].selector # NoSelector <=> i <= b.delegateCount
  BY DEF Lists, ListSound
<1>2. CASE h.selector = NoSelector
  <2> DEFINE s == Append(b.list, h)
  <2>1. s \in Seq(Hs) /\ Len(s) = Len(b.list) + 1 /\ s # << >> /\ s[Len(b.list) + 1] = h
        /\ \A i \in 1 .. Len(b.list) : s[i] = b.list[i]
    BY <1>1
  <2>2. Attach(b, h) = [b EXCEPT !.list = s, !.listener = TRUE]   BY <1>2 DEF Attach
  <2> HIDE DEF s
  <2>3. Attach(b, h) \in Lists /\ Attach(b, h).list = s /\ Attach(b, h).listener = TRUE
        /\ Attach(b, h).delegateCount = b.delegateCount
    BY <2>1, <2>2 DEF Lists
  <2>4. \A i \in 1 .. Len(s) : s[i].selector # NoSelector <=> i <= b.delegateCount
    <3> TAKE i \in 1 .. Len(s)
    <3>1. CASE i \in 1 .. Len(b.list)   BY <1>1, <2>1, <3>1
    <3>2. CASE i = Len(b.list) + 1   BY <1>1, <1>2, <2>1, <3>2
    <3> QED  BY <1>1, <2>1, <3>1, <3>2
  <2>5. b.delegateCount <= Len(s)   BY <1>1, <2>1
  <2>6. Inserted(s, b.list, Len(b.list) + 1, h)   BY <1>1, <2>1 DEF Inserted
  <2> QED  BY <2>1, <2>3, <2>4, <2>5, <2>6 DEF ListSound
<1>3. CASE h.selector # NoSelector
  <2> DEFINE dc == b.delegateCount
             len == Len(b.list)
             u == SubSeq(b.list, 1, dc)
             v == SubSeq(b.list, dc + 1, len)
             w == u \o <<h>>
             s == w \o v
  <2>1. u \in Seq(Hs) /\ Len(u) = dc /\ \A i \in 1 .. dc : u[i] = b.list[i]
    BY <1>1
  <2>2. v \in Seq(Hs) /\ Len(v) = len - dc /\ \A i \in 1 .. len - dc : v[i] = b.list[dc + i]
    BY <1>1
  <2>3. InsertAt(b.list, dc + 1, h) = s
    <3>1. (dc + 1) - 1 = dc   BY <1>1
    <3> QED  BY <3>1 DEF InsertAt
  <2>4. Attach(b, h) = [list |-> s, delegateCount |-> dc + 1, listener |-> TRUE]   BY <1>3, <2>3 DEF Attach
  <2> HIDE DEF u, v
  <2>5. w \in Seq(Hs) /\ Len(w) = dc + 1 /\ w[dc + 1] = h /\ \A i \in 1 .. dc : w[i] = u[i]
    BY <1>1, <2>1
  <2> HIDE DEF w
  <2>6. /\ s \in Seq(Hs) /\ Len(s) = len + 1 /\ \A i \in 1 .. dc + 1 : s[i] = w[i]
        /\ \A i \in dc + 2 .. len + 1 : s[i] = v[i - (dc + 1)]
    <3>1. w \in Seq(Hs) /\ v \in Seq(Hs) /\ Len(w) = dc + 1 /\ Len(v) = len - dc
          /\ dc \in Nat /\ len \in Nat /\ dc <= len
      BY <1>1, <2>2, <2>5
    <3> HIDE DEF dc, len
    <3>2. s \in Seq(Hs) /\ Len(s) = Len(w) + Len(v)   BY <3>1
    <3>3. \A i \in 1 .. Len(s) : s[i] = IF i <= Len(w) THEN w[i] ELSE v[i - Len(w)]   BY <3>1
    <3>4. Len(s) = len + 1   BY <3>1, <3>2
    <3>5. \A i \in 1 .. dc + 1 : s[i] = w[i]   BY <3>1, <3>3, <3>4
    <3>6. \A i \in dc + 2 .. len + 1 : s[i] = v[i - (dc + 1)]   BY <3>1, <3>3, <3>4
    <3> QED  BY <3>2, <3>4, <3>5, <3>6
  <2> HIDE DEF s
  <2>7. /\ s[dc + 1] = h /\ \A i \in 1 .. dc : s[i] = b.list[i]
        /\ \A i \in dc + 2 .. len + 1 : s[i] = b.list[i - 1]
    <3>1. s[dc + 1] = h   BY <1>1, <2>5, <2>6
    <3>2. \A i \in 1 .. dc : s[i] = b.list[i]   BY <1>1, <2>1, <2>5, <2>6
    <3>3. ASSUME NEW i \in dc + 2 .. len + 1   PROVE s[i] = b.list[i - 1]
      <4>1. i - (dc + 1) \in 1 .. len - dc /\ dc + (i - (dc + 1)) = i - 1   BY <1>1
      <4> QED  BY <2>2, <2>6, <4>1
    <3> QED  BY <3>1, <3>2, <3>3
  <2>8. Inserted(s, b.list, dc + 1, h)
    <3>1. (dc + 1) - 1 = dc /\ (dc + 1) + 1 = dc + 2 /\ dc + 1 \in 1 .. len + 1   BY <1>1
    <3> QED  BY <2>6, <2>7, <3>1 DEF Inserted
  <2>9. \A i \in 1 .. Len(s) : s[i].selector # NoSelector <=> i <= dc + 1
    <3> TAKE i \in 1 .. Len(s)
    <3>1. CASE i \in 1 .. dc   BY <1>1, <2>7, <3>1
    <3>2. CASE i = dc + 1   BY <1>1, <1>3, <2>7, <3>2
    <3>3. CASE i \in dc + 2 .. len + 1
      <4>1. i - 1 \in 1 .. len /\ ~(i - 1 <= dc) /\ ~(i <= dc + 1)   BY <1>1, <3>3
      <4> QED  BY <1>1, <2>7, <3>3, <4>1
    <3> QED  BY <1>1, <2>6, <3>1, <3>2, <3>3
  <2>10. s # << >> /\ dc + 1 <= Len(s) /\ dc + 1 \in Nat   BY <1>1, <2>6
  <2> QED  BY <2>4, <2>6, <2>8, <2>9, <2>10 DEF ListSound, Lists
<1> QED  BY <1>2, <1>3

\* s is a part of t.
PartOf(s, t) == \E p \in [1 .. Len(s) -> 1 .. Len(t)] :
                  /\ \A i \in 1 .. Len(s) : s[i] = t[p[i]]
                  /\ \A i, j \in 1 .. Len(s) : p[i] = p[j] => i = j

LEMMA AmongPart ==
  ASSUME NEW S, NEW s \in Seq(S), NEW T
  PROVE  /\ Among(s, T) \in Seq(S) /\ PartOf(Among(s, T), s)
         /\ \A i \in 1 .. Len(Among(s, T)) : Among(s, T)[i] \in T
<1> DEFINE t == Among(s, T)
<1>1. t \in Seq(S)   BY AmongIs
<1>2. PICK p : Places(p, s, t, T)   BY AmongIs
<1> HIDE DEF t
<1>3. /\ p \in [1 .. Len(t) -> 1 .. Len(s)] /\ \A i \in 1 .. Len(t) : t[i] = s[p[i]] /\ t[i] \in T
      /\ \A i, j \in 1 .. Len(t) : i < j => p[i] < p[j]
  BY <1>2 DEF Places
<1>4. ASSUME NEW i \in 1 .. Len(t), NEW j \in 1 .. Len(t), p[i] = p[j]   PROVE i = j
  <2>1. p[i] \in Int /\ p[j] \in Int /\ i \in Int /\ j \in Int   BY <1>3
  <2>2. ~(i < j) /\ ~(j < i)   BY <1>3, <1>4, <2>1
  <2> QED  BY <2>1, <2>2
<1> QED  BY <1>1, <1>3, <1>4 DEF PartOf, t

LEMMA DetachIs ==
  ASSUME NEW b \in Lists, ListSound(b), NEW fn, NEW selector, NEW namespace
  PROVE  LET d == Detach(b, fn, selector, namespace)
         IN  /\ d \in Lists /\ ListSound(d) /\ PartOf(d.list, b.list)
             /\ \A i \in 1 .. Len(d.list) : ~Matches(d.list[i], fn, selector, namespace)
<1> DEFINE out == Meant(b, fn, selector, namespace)
           D == {h \in Hs : h.selector # NoSelector}
           kept == Among(b.list, Range(b.list) \ out)
           gone == Among(b.list, {h \in out : h \in D})
           d == Detach(b, fn, selector, namespace)
<1>1. /\ b.list \in Seq(Hs) /\ b.delegateCount \in 0 .. Len(b.list) /\ b.listener \in BOOLEAN
      /\ \A i \in 1 .. Len(b.list) : b.list[i].selector # NoSelector <=> i <= b.delegateCount
      /\ b.listener = TRUE <=> b.list # << >>
  BY DEF Lists, ListSound
<1>2. Range(b.list) \subseteq Hs
  <2>1. Range(b.list) = {b.list[i] : i \in 1 .. Len(b.list)}   BY <1>1, RangeEquality
  <2> QED  BY <1>1, <2>1
<1>3. {h \in out : h.selector # NoSelector} = {h \in out : h \in D}   BY <1>2 DEF Meant
<1>4. d = [list |-> kept, delegateCount |-> b.delegateCount - Len(gone), listener |-> b.listener /\ kept # << >>]
  BY <1>3 DEF Detach
<1>5. \A i \in 1 .. Len(b.list) : b.list[i] \in D <=> i <= b.delegateCount   BY <1>1
<1>6. /\ b.delegateCount - Len(gone) \in 0 .. Len(kept)
      /\ \A i \in 1 .. Len(kept) : kept[i] \in D <=> i <= b.delegateCount - Len(gone)
  <2> HIDE DEF D, out, kept, gone
  <2>1. LET k == Among(b.list, Range(b.list) \ out)
            g == Among(b.list, {h \in out : h \in D})
        IN  /\ b.delegateCount - Len(g) \in 0 .. Len(k)
            /\ \A i \in 1 .. Len(k) : k[i] \in D <=> i <= b.delegateCount - Len(g)
    BY <1>1, <1>5, DetachCounts
  <2> QED  BY <2>1 DEF kept, gone
<1>7. /\ kept \in Seq(Hs) /\ PartOf(kept, b.list)
      /\ \A i \in 1 .. Len(kept) : kept[i] \in Range(b.list) \ out
  <2> HIDE DEF out
  <2> QED  BY <1>1, AmongPart
<1> HIDE DEF kept, gone, d
<1>8. /\ d.list = kept /\ d.delegateCount = b.delegateCount - Len(gone)
      /\ d.listener = (b.listener /\ kept # << >>)
  BY <1>4
<1>9. Len(kept) \in Nat   BY <1>7
<1>10. d \in Lists
  <2>1. (b.listener /\ kept # << >>) \in BOOLEAN /\ b.delegateCount - Len(gone) \in Nat   BY <1>6, <1>9
  <2> HIDE DEF D, out
  <2> QED  BY <1>4, <1>7, <2>1 DEF Lists
<1>11. kept # << >> => b.list # << >>
  <2> SUFFICES ASSUME kept # << >>, b.list = << >>   PROVE FALSE
    OBVIOUS
  <2>1. Len(kept) # 0 /\ Len(b.list) = 0   BY <1>7
  <2>2. 1 \in 1 .. Len(kept)   BY <1>9, <2>1
  <2>3. PICK p \in [1 .. Len(kept) -> 1 .. Len(b.list)] : TRUE   BY <1>7 DEF PartOf
  <2> QED  BY <2>1, <2>2, <2>3
<1>12. ListSound(d)
  <2>1. d.listener = TRUE <=> kept # << >>   BY <1>1, <1>8, <1>11
  <2>2. \A i \in 1 .. Len(kept) : kept[i] \in Hs   BY <1>7
  <2>3. \A i \in 1 .. Len(kept) : kept[i].selector # NoSelector <=> i <= b.delegateCount - Len(gone)
    BY <1>6, <2>2
  <2> QED  BY <1>6, <1>8, <1>9, <2>1, <2>3 DEF ListSound
<1>13. \A i \in 1 .. Len(kept) : ~Matches(kept[i], fn, selector, namespace)   BY <1>7 DEF Meant
<1> QED  BY <1>7, <1>8, <1>10, <1>12, <1>13 DEF d

-----------------------------------------------------------------------------
(* The queue of a dispatch.                                                  *)

\* No element twice.
Apart(s) == \A i, j \in 1 .. Len(s) : s[i] = s[j] => i = j

LEMMA PartApart == ASSUME NEW s, NEW t, PartOf(s, t), Apart(t) PROVE Apart(s)
BY DEF PartOf, Apart

LEMMA AncestryIs ==
  /\ Ancestry \in Seq(Nodes) /\ Apart(Ancestry)
  /\ \A e : e \in Nodes <=> \E i \in 1 .. Len(Ancestry) : e = Ancestry[i]
  /\ NoSelector \notin Nodes
<1>1. Ancestry \in Seq(Nodes) /\ IsInjective(Ancestry) /\ NoSelector \notin Nodes
  BY EventsAssumption DEF Nodes
<1>2. DOMAIN Ancestry = 1 .. Len(Ancestry)   BY <1>1
<1>3. Apart(Ancestry)   BY <1>1, <1>2 DEF IsInjective, Apart
<1>4. ASSUME NEW e PROVE e \in Nodes <=> \E i \in 1 .. Len(Ancestry) : e = Ancestry[i]
  BY <1>1, RangeElements DEF Nodes
<1> QED  BY <1>1, <1>3, <1>4

LEMMA UpwardIs ==
  ASSUME NEW e \in Nodes
  PROVE  Upward(e) \in Seq(Nodes) /\ Apart(Upward(e))
<1> DEFINE k == CHOOSE i \in DOMAIN Ancestry : Ancestry[i] = e
<1>1. /\ Ancestry \in Seq(Nodes) /\ Apart(Ancestry) /\ Len(Ancestry) \in Nat
      /\ DOMAIN Ancestry = 1 .. Len(Ancestry)
  BY AncestryIs
<1>2. \E i \in DOMAIN Ancestry : Ancestry[i] = e   BY <1>1, AncestryIs
<1>3. k \in 1 .. Len(Ancestry)   BY <1>1, <1>2
<1>4. Upward(e) = SubSeq(Ancestry, k, Len(Ancestry))   BY DEF Upward
<1> HIDE DEF k
<1> DEFINE u == SubSeq(Ancestry, k, Len(Ancestry))
<1>5. u \in Seq(Nodes)   BY <1>1, <1>3
<1>6. Len(u) = Len(Ancestry) - k + 1   BY <1>1, <1>3
<1>7. \A i \in 1 .. Len(Ancestry) - k + 1 : u[i] = Ancestry[k + i - 1]   BY <1>1, <1>3
<1> HIDE DEF u
<1>8. ASSUME NEW i \in 1 .. Len(u), NEW j \in 1 .. Len(u), u[i] = u[j]   PROVE i = j
  <2>1. /\ k + i - 1 \in 1 .. Len(Ancestry) /\ k + j - 1 \in 1 .. Len(Ancestry)
        /\ i \in 1 .. Len(Ancestry) - k + 1 /\ j \in 1 .. Len(Ancestry) - k + 1
    BY <1>1, <1>3, <1>6
  <2>2. Ancestry[k + i - 1] = Ancestry[k + j - 1]   BY <1>7, <1>8, <2>1
  <2>3. k + i - 1 = k + j - 1   BY <1>1, <2>1, <2>2 DEF Apart
  <2> QED  BY <1>3, <2>3
<1>9. Apart(u)   BY <1>8 DEF Apart
<1> QED  BY <1>4, <1>5, <1>9 DEF u

\* Each of q is of hs, for a selector of sel, and none is there twice.
QueueOf(q, hs, sel) ==
  /\ q \in Seq(Queued) /\ \A i \in 1 .. Len(q) : q[i].h \in hs /\ q[i].h.selector \in sel
  /\ \A i, j \in 1 .. Len(q) : q[i].h = q[j].h => i = j

LEMMA QueuePart ==
  ASSUME NEW q, NEW hs, NEW sel, QueueOf(q, hs, sel), NEW r \in Seq(Queued), PartOf(r, q)
  PROVE  QueueOf(r, hs, sel)
<1>1. PICK p \in [1 .. Len(r) -> 1 .. Len(q)] :
          /\ \A i \in 1 .. Len(r) : r[i] = q[p[i]]
          /\ \A i, j \in 1 .. Len(r) : p[i] = p[j] => i = j
  BY DEF PartOf
<1>2. \A i \in 1 .. Len(r) : p[i] \in 1 .. Len(q)   BY <1>1
<1>3. \A i \in 1 .. Len(r) : r[i].h \in hs /\ r[i].h.selector \in sel   BY <1>1, <1>2 DEF QueueOf
<1>4. ASSUME NEW i \in 1 .. Len(r), NEW j \in 1 .. Len(r), r[i].h = r[j].h   PROVE i = j
  <2>1. q[p[i]].h = q[p[j]].h   BY <1>1, <1>4
  <2>2. p[i] = p[j]   BY <1>2, <2>1 DEF QueueOf
  <2> QED  BY <1>1, <2>2
<1> QED  BY <1>3, <1>4 DEF QueueOf

\* r comes after q, of other selectors.
LEMMA QueueJoined ==
  ASSUME NEW hs, NEW A, NEW B, A \intersect B = {}, NEW q, NEW r, QueueOf(q, hs, A), QueueOf(r, hs, B)
  PROVE  QueueOf(q \o r, hs, A \union B)
<1> DEFINE s == q \o r
<1>1. q \in Seq(Queued) /\ r \in Seq(Queued) /\ Len(q) \in Nat /\ Len(r) \in Nat   BY DEF QueueOf
<1>2. s \in Seq(Queued) /\ Len(s) = Len(q) + Len(r)   BY <1>1
<1>3. \A i \in 1 .. Len(s) : s[i] = IF i <= Len(q) THEN q[i] ELSE r[i - Len(q)]   BY <1>1
<1> HIDE DEF s
<1>4. ASSUME NEW i \in 1 .. Len(s)
      PROVE  \/ i \in 1 .. Len(q) /\ s[i] = q[i]
             \/ i - Len(q) \in 1 .. Len(r) /\ s[i] = r[i - Len(q)]
  BY <1>1, <1>2, <1>3
<1>5. \A i \in 1 .. Len(q) : q[i].h \in hs /\ q[i].h.selector \in A   BY DEF QueueOf
<1>6. \A i \in 1 .. Len(r) : r[i].h \in hs /\ r[i].h.selector \in B   BY DEF QueueOf
<1>7. \A i \in 1 .. Len(s) : s[i].h \in hs /\ s[i].h.selector \in A \union B   BY <1>4, <1>5, <1>6
<1>8. ASSUME NEW i \in 1 .. Len(s), NEW j \in 1 .. Len(s), s[i].h = s[j].h   PROVE i = j
  <2>1. i \in Int /\ j \in Int   BY <1>2
  <2>2. CASE i \in 1 .. Len(q) /\ s[i] = q[i]
    <3>1. CASE j \in 1 .. Len(q) /\ s[j] = q[j]   BY <1>8, <2>2, <3>1 DEF QueueOf
    <3>2. CASE j - Len(q) \in 1 .. Len(r) /\ s[j] = r[j - Len(q)]
      <4>1. s[i].h.selector \in A /\ s[j].h.selector \in B   BY <1>5, <1>6, <2>2, <3>2
      <4> QED  BY <1>8, <4>1
    <3> QED  BY <1>4, <3>1, <3>2
  <2>3. CASE i - Len(q) \in 1 .. Len(r) /\ s[i] = r[i - Len(q)]
    <3>1. CASE j \in 1 .. Len(q) /\ s[j] = q[j]
      <4>1. s[i].h.selector \in B /\ s[j].h.selector \in A   BY <1>5, <1>6, <2>3, <3>1
      <4> QED  BY <1>8, <4>1
    <3>2. CASE j - Len(q) \in 1 .. Len(r) /\ s[j] = r[j - Len(q)]
      <4>1. i - Len(q) = j - Len(q)   BY <1>8, <2>3, <3>2 DEF QueueOf
      <4> QED  BY <1>1, <2>1, <4>1
    <3> QED  BY <1>4, <3>1, <3>2
  <2> QED  BY <1>4, <2>2, <2>3
<1> QED  BY <1>2, <1>7, <1>8 DEF QueueOf, s

\* The handlers of hs at the places of s, each for the element d.
LEMMA QueueFor ==
  ASSUME NEW d \in Nodes, NEW hs, NEW sel, NEW s \in Seq(Hs), Apart(s),
         \A i \in 1 .. Len(s) : s[i] \in hs /\ s[i].selector \in sel
  PROVE  QueueOf([i \in DOMAIN s |-> [at |-> d, h |-> s[i]]], hs, sel)
<1> DEFINE q == [i \in DOMAIN s |-> [at |-> d, h |-> s[i]]]
<1>1. DOMAIN s = 1 .. Len(s) /\ Len(s) \in Nat   OBVIOUS
<1>2. \A i \in 1 .. Len(s) : s[i] \in Hs   OBVIOUS
<1>3. \A i \in 1 .. Len(s) : q[i] = [at |-> d, h |-> s[i]] /\ q[i] \in Queued   BY <1>1, <1>2 DEF Queued
<1>4. q \in [1 .. Len(s) -> Queued]   BY <1>1, <1>3
<1> HIDE DEF q
<1>5. q \in Seq(Queued) /\ Len(q) = Len(s)   BY <1>1, <1>4
<1>6. ASSUME NEW i \in 1 .. Len(q)   PROVE q[i].h = s[i]
  <2>1. q[i] = [at |-> d, h |-> s[i]]   BY <1>3, <1>5
  <2> QED  BY <2>1
<1> QED  BY <1>5, <1>6 DEF QueueOf, q, Apart

\* f[i] is the first i of the sequences one after another.
Joins(f, seqs, n) ==
  /\ f[0] = << >> /\ FlattenSeq(seqs) = f[n]
  /\ \A i \in 1 .. n : f[i] = f[i - 1] \o seqs[i]

LEMMA FlattenStages ==
  ASSUME NEW S, NEW n \in Nat, NEW seqs \in [1 .. n -> Seq(S)]
  PROVE  \E f \in [0 .. n -> Seq(S)] : Joins(f, seqs, n)
<1>1. seqs \in Seq(Seq(S)) /\ Len(seqs) = n /\ << >> \in Seq(S)   OBVIOUS
<1> DEFINE next == [i \in Nat |-> [q \in Seq(S) |-> IF i \in 1 .. n THEN q \o seqs[i] ELSE q]]
<1>2. next \in [Nat -> [Seq(S) -> Seq(S)]]
  <2> SUFFICES ASSUME NEW i \in Nat, NEW q \in Seq(S)
               PROVE  (IF i \in 1 .. n THEN q \o seqs[i] ELSE q) \in Seq(S)
    OBVIOUS
  <2>1. CASE i \in 1 .. n
    <3>1. seqs[i] \in Seq(S)   BY <2>1
    <3> QED  BY <2>1, <3>1
  <2> QED  BY <2>1
<1> HIDE DEF next
<1>3. PICK f \in [0 .. n -> Seq(S)] : Stages(f, << >>, next, n)   BY <1>1, <1>2, StagesExist
<1>4. f[0] = << >> /\ \A i \in 1 .. n : f[i] = next[i][f[i - 1]]   BY <1>3 DEF Stages
<1>5. ASSUME NEW i \in 1 .. n   PROVE f[i] = f[i - 1] \o seqs[i]
  <2>1. i \in Nat /\ i - 1 \in 0 .. n   OBVIOUS
  <2>2. f[i - 1] \in Seq(S)   BY <1>3, <2>1
  <2>3. next[i][f[i - 1]] = f[i - 1] \o seqs[i]   BY <2>1, <2>2 DEF next
  <2> QED  BY <1>4, <2>3
<1>6. FlattenSeq(seqs) = f[n]
  <2>1. CASE n = 0
    <3>1. seqs = << >>   BY <1>1, <2>1
    <3>2. FlattenSeq(seqs) = seqs   BY <1>1, <2>1 DEF FlattenSeq
    <3> QED  BY <1>4, <2>1, <3>1, <3>2
  <2>2. CASE n # 0
    <3> DEFINE Is(g) == g = [i \in 1 .. n |-> IF i = 1 THEN seqs[i] ELSE g[i - 1] \o seqs[i]]
               r == CHOOSE g : Is(g)
               h == [i \in 1 .. n |-> f[i]]
    <3>1. FlattenSeq(seqs) = r[n]   BY <1>1, <2>2 DEF FlattenSeq
    <3>2. ASSUME NEW i \in 1 .. n
          PROVE  h[i] = IF i = 1 THEN seqs[i] ELSE h[i - 1] \o seqs[i]
      <4>1. h[i] = f[i - 1] \o seqs[i]   BY <1>5
      <4>2. CASE i = 1
        <5>1. f[i - 1] = << >> /\ seqs[i] \in Seq(S)   BY <1>4, <4>2
        <5>2. f[i - 1] \o seqs[i] = seqs[i]   BY <5>1
        <5> QED  BY <4>1, <4>2, <5>2
      <4>3. CASE i # 1
        <5>1. i - 1 \in 1 .. n   BY <4>3
        <5>2. h[i - 1] = f[i - 1]   BY <5>1
        <5> QED  BY <4>1, <4>3, <5>2
      <4> QED  BY <4>2, <4>3
    <3>3. h = [i \in 1 .. n |-> h[i]]   OBVIOUS
    <3>4. Is(h)
      <4> HIDE DEF h
      <4> QED  BY <3>2, <3>3
    <3>5. Is(r)
      <4> HIDE DEF Is, h
      <4> QED  BY <3>4
    <3> HIDE DEF r, h
    <3>6. \A i \in 1 .. n : r[i] = IF i = 1 THEN seqs[i] ELSE r[i - 1] \o seqs[i]   BY <3>5, Zenon
    <3> HIDE DEF Is
    <3> DEFINE N == {m \in Nat : m + 1 <= n => r[m + 1] = f[m + 1]}
    <3>7. 0 \in N
      <4>1. 1 \in 1 .. n /\ 1 - 1 = 0   BY <2>2
      <4>2. f[1] = << >> \o seqs[1] /\ seqs[1] \in Seq(S)   BY <1>4, <1>5, <4>1
      <4>3. f[1] = seqs[1]   BY <4>2
      <4> QED  BY <3>6, <4>1, <4>3
    <3>8. ASSUME NEW m \in Nat, m \in N   PROVE m + 1 \in N
      <4> SUFFICES ASSUME (m + 1) + 1 <= n   PROVE r[(m + 1) + 1] = f[(m + 1) + 1]
        OBVIOUS
      <4>1. (m + 1) + 1 \in 1 .. n /\ (m + 1) + 1 # 1 /\ ((m + 1) + 1) - 1 = m + 1 /\ m + 1 <= n   OBVIOUS
      <4>2. r[m + 1] = f[m + 1]   BY <3>8, <4>1
      <4>3. r[(m + 1) + 1] = r[m + 1] \o seqs[(m + 1) + 1]   BY <3>6, <4>1
      <4>4. f[(m + 1) + 1] = f[m + 1] \o seqs[(m + 1) + 1]   BY <1>5, <4>1
      <4> QED  BY <4>2, <4>3, <4>4
    <3> HIDE DEF N
    <3>9. Nat \subseteq N   BY <3>7, <3>8, Induction
    <3>10. n - 1 \in Nat /\ (n - 1) + 1 = n   BY <2>2
    <3>11. n - 1 \in N   BY <3>9, <3>10
    <3>12. r[n] = f[n]   BY <3>10, <3>11 DEF N
    <3> QED  BY <3>1, <3>12
  <2> QED  BY <2>1, <2>2
<1> QED  BY <1>3, <1>4, <1>5, <1>6 DEF Joins

\* So queues for the selectors of a sequence make one.
LEMMA QueueFlat ==
  ASSUME NEW hs, NEW way \in Seq(Nodes), Apart(way), NEW seqs,
         seqs = [i \in 1 .. Len(way) |-> seqs[i]],
         \A i \in 1 .. Len(way) : QueueOf(seqs[i], hs, {way[i]})
  PROVE  QueueOf(FlattenSeq(seqs), hs, Nodes)
<1> DEFINE n == Len(way)
           to(i) == {way[j] : j \in 1 .. i}
<1>1. n \in Nat /\ \A i \in 1 .. n : way[i] \in Nodes   OBVIOUS
<1>2. seqs \in [1 .. n -> Seq(Queued)]   BY DEF QueueOf
<1> HIDE DEF n
<1>10. PICK f \in [0 .. n -> Seq(Queued)] : Joins(f, seqs, n)   BY <1>1, <1>2, FlattenStages
<1>3. /\ f[0] = << >> /\ FlattenSeq(seqs) = f[n]
      /\ \A i \in 1 .. n : f[i] = f[i - 1] \o seqs[i]
  BY <1>10 DEF Joins
<1>11. \A i \in 1 .. n : QueueOf(seqs[i], hs, {way[i]})   BY DEF n
<1>12. \A i, j \in 1 .. n : way[i] = way[j] => i = j   BY DEF n, Apart
<1> DEFINE N == {i \in Nat : i <= n => QueueOf(f[i], hs, to(i))}
<1>4. 0 \in N
  <2>1. << >> \in Seq(Queued) /\ Len(<< >>) = 0   OBVIOUS
  <2>2. QueueOf(<< >>, hs, to(0))   BY <2>1 DEF QueueOf
  <2> HIDE DEF to
  <2> QED  BY <1>3, <2>2
<1>5. ASSUME NEW i \in Nat, i \in N   PROVE i + 1 \in N
  <2> SUFFICES ASSUME i + 1 <= n   PROVE QueueOf(f[i + 1], hs, to(i + 1))
    OBVIOUS
  <2>1. i + 1 \in 1 .. n /\ (i + 1) - 1 = i /\ i <= n /\ \A j \in 1 .. i : j \in 1 .. n /\ j # i + 1
    BY <1>1
  <2>2. QueueOf(f[i], hs, to(i))   BY <1>5, <2>1
  <2>3. QueueOf(seqs[i + 1], hs, {way[i + 1]})   BY <1>11, <2>1
  <2>4. to(i) \intersect {way[i + 1]} = {}   BY <1>12, <2>1
  <2>5. to(i + 1) = to(i) \union {way[i + 1]}
    <3>1. \A j \in 1 .. i + 1 : j \in 1 .. i \/ j = i + 1   OBVIOUS
    <3>2. \A j \in 1 .. i : j \in 1 .. i + 1   OBVIOUS
    <3>3. i + 1 \in 1 .. i + 1   OBVIOUS
    <3> QED  BY <3>1, <3>2, <3>3
  <2>6. f[i + 1] = f[i] \o seqs[i + 1]   BY <1>3, <2>1
  <2> HIDE DEF to
  <2>7. QueueOf(f[i] \o seqs[i + 1], hs, to(i) \union {way[i + 1]})
    BY <2>2, <2>3, <2>4, QueueJoined
  <2> QED  BY <2>5, <2>6, <2>7
<1> HIDE DEF N
<1>6. Nat \subseteq N   BY <1>4, <1>5, Induction
<1>7. QueueOf(f[n], hs, to(n))   BY <1>1, <1>6 DEF N
<1>8. to(n) \subseteq Nodes   BY <1>1
<1> HIDE DEF to
<1>9. QueueOf(f[n], hs, Nodes)   BY <1>7, <1>8 DEF QueueOf
<1> QED  BY <1>3, <1>9

\* The handlers of an element.
Of(b) == {b.list[j] : j \in 1 .. Len(b.list)}

\* Those with the places from i to j.
LEMMA SubSeqApart ==
  ASSUME NEW s \in Seq(Hs), Apart(s), NEW i \in 1 .. Len(s) + 1, NEW j \in i - 1 .. Len(s)
  PROVE  /\ SubSeq(s, i, j) \in Seq(Hs) /\ Apart(SubSeq(s, i, j))
         /\ Len(SubSeq(s, i, j)) = j - i + 1
         /\ \A k \in 1 .. j - i + 1 : SubSeq(s, i, j)[k] = s[i + k - 1]
<1> DEFINE u == SubSeq(s, i, j)
<1>1. u \in Seq(Hs) /\ Len(s) \in Nat   OBVIOUS
<1>2. Len(u) = j - i + 1   OBVIOUS
<1>3. \A k \in 1 .. j - i + 1 : u[k] = s[i + k - 1]   OBVIOUS
<1> HIDE DEF u
<1>4. ASSUME NEW k \in 1 .. Len(u), NEW l \in 1 .. Len(u), u[k] = u[l]   PROVE k = l
  <2>1. /\ i + k - 1 \in 1 .. Len(s) /\ i + l - 1 \in 1 .. Len(s)
        /\ k \in 1 .. j - i + 1 /\ l \in 1 .. j - i + 1
    BY <1>1, <1>2
  <2>2. s[i + k - 1] = s[i + l - 1]   BY <1>3, <1>4, <2>1
  <2>3. i + k - 1 = i + l - 1   BY <2>1, <2>2 DEF Apart
  <2> QED  BY <2>1, <2>3
<1>5. Apart(u)   BY <1>4 DEF Apart
<1> QED  BY <1>1, <1>2, <1>3, <1>5 DEF u

LEMMA QueueIs ==
  ASSUME NEW e \in Nodes, NEW target \in Nodes, NEW namespace,
         bound[e] \in Lists, ListSound(bound[e]), Apart(bound[e].list)
  PROVE  QueueOf(Queue(e, target, namespace), Of(bound[e]), Nodes \union {NoSelector})
<1> DEFINE b == bound[e]
           dc == b.delegateCount
           front == SubSeq(b.list, 1, dc)
           direct == SubSeq(b.list, dc + 1, Len(b.list))
           way == Among(Upward(target), Range(Below(e)))
           for(d) == Among(front, {h \in Range(b.list) : h.selector = d})
           at(d, s) == [i \in DOMAIN s |-> [at |-> d, h |-> s[i]]]
           seqs == [i \in DOMAIN way |-> at(way[i], for(way[i]))]
           all == FlattenSeq(seqs) \o at(e, direct)
           hs == Of(b)
<1>1. /\ b.list \in Seq(Hs) /\ dc \in 0 .. Len(b.list) /\ Len(b.list) \in Nat
      /\ \A i \in 1 .. Len(b.list) : b.list[i].selector # NoSelector <=> i <= dc
  BY DEF Lists, ListSound
<1>2. /\ front \in Seq(Hs) /\ Apart(front) /\ direct \in Seq(Hs) /\ Apart(direct)
      /\ Len(direct) = Len(b.list) - dc
      /\ \A k \in 1 .. Len(b.list) - dc : direct[k] = b.list[dc + k]
  <2>1. 1 \in 1 .. Len(b.list) + 1 /\ dc \in 1 - 1 .. Len(b.list)   BY <1>1
  <2>2. dc + 1 \in 1 .. Len(b.list) + 1 /\ Len(b.list) \in (dc + 1) - 1 .. Len(b.list)   BY <1>1
  <2>3. /\ Len(b.list) - (dc + 1) + 1 = Len(b.list) - dc
        /\ \A k \in 1 .. Len(b.list) - dc : dc + 1 + k - 1 = dc + k
    BY <1>1
  <2>4. front \in Seq(Hs) /\ Apart(front)   BY <1>1, <2>1, SubSeqApart
  <2>5. /\ direct \in Seq(Hs) /\ Apart(direct) /\ Len(direct) = Len(b.list) - (dc + 1) + 1
        /\ \A k \in 1 .. Len(b.list) - (dc + 1) + 1 : direct[k] = b.list[dc + 1 + k - 1]
    BY <1>1, <2>2, SubSeqApart
  <2> HIDE DEF front, direct, dc
  <2> QED  BY <2>3, <2>4, <2>5
<1>3. way \in Seq(Nodes) /\ Apart(way) /\ DOMAIN way = 1 .. Len(way)
  <2>1. Upward(target) \in Seq(Nodes) /\ Apart(Upward(target))   BY UpwardIs
  <2>2. way \in Seq(Nodes) /\ PartOf(way, Upward(target))   BY <2>1, AmongPart
  <2> HIDE DEF way
  <2> QED  BY <2>1, <2>2, PartApart
<1>4. Range(b.list) = hs
  <2>1. Range(b.list) = {b.list[i] : i \in 1 .. Len(b.list)}   BY <1>1, RangeEquality
  <2> QED  BY <2>1 DEF Of
<1> HIDE DEF front, direct, way, dc
<1>5. ASSUME NEW d \in Nodes PROVE QueueOf(at(d, for(d)), hs, {d})
  <2> DEFINE T == {h \in Range(b.list) : h.selector = d}
             s == Among(front, T)
  <2>1. s \in Seq(Hs) /\ PartOf(s, front) /\ \A i \in 1 .. Len(s) : s[i] \in T
    <3> HIDE DEF T
    <3> QED  BY <1>2, AmongPart
  <2>2. \A i \in 1 .. Len(s) : s[i] \in hs /\ s[i].selector \in {d}   BY <1>4, <2>1
  <2> HIDE DEF s, hs
  <2>3. Apart(s)   BY <1>2, <2>1, PartApart
  <2>4. QueueOf([i \in DOMAIN s |-> [at |-> d, h |-> s[i]]], hs, {d})   BY <2>1, <2>2, <2>3, QueueFor
  <2> QED  BY <2>4 DEF s
<1>6. QueueOf(at(e, direct), hs, {NoSelector})
  <2>1. \A i \in 1 .. Len(direct) : direct[i] \in hs /\ direct[i].selector \in {NoSelector}
    <3> TAKE i \in 1 .. Len(direct)
    <3>1. i \in 1 .. Len(b.list) - dc /\ dc + i \in 1 .. Len(b.list) /\ ~(dc + i <= dc)   BY <1>1, <1>2
    <3> QED  BY <1>1, <1>2, <3>1 DEF Of
  <2> HIDE DEF hs
  <2> QED  BY <1>2, <2>1, QueueFor
<1>7. QueueOf(FlattenSeq(seqs), hs, Nodes)
  <2>1. \A i \in 1 .. Len(way) : seqs[i] = at(way[i], for(way[i])) /\ way[i] \in Nodes   BY <1>3
  <2> HIDE DEF at, for
  <2>2. \A i \in 1 .. Len(way) : QueueOf(seqs[i], hs, {way[i]})   BY <1>5, <2>1
  <2>3. seqs = [i \in 1 .. Len(way) |-> seqs[i]]   BY <1>3
  <2> HIDE DEF hs, seqs
  <2> QED  BY <1>3, <2>2, <2>3, QueueFlat
<1>8. QueueOf(all, hs, Nodes \union {NoSelector})
  <2>1. Nodes \intersect {NoSelector} = {}   BY AncestryIs
  <2> HIDE DEF hs, seqs, at
  <2>2. QueueOf(FlattenSeq(seqs) \o at(e, direct), hs, Nodes \union {NoSelector})
    BY <1>6, <1>7, <2>1, QueueJoined
  <2> QED  BY <2>2
<1> DEFINE T == {q \in Range(all) : namespace \in {NoNamespace, q.h.namespace}}
<1>9. Queue(e, target, namespace) = Among(all, T)   BY DEF Queue, front, direct, way, dc
<1> HIDE DEF all, hs, T
<1>10. all \in Seq(Queued)   BY <1>8 DEF QueueOf
<1>11. Among(all, T) \in Seq(Queued) /\ PartOf(Among(all, T), all)   BY <1>10, AmongPart
<1>12. QueueOf(Among(all, T), hs, Nodes \union {NoSelector})   BY <1>8, <1>11, QueuePart
<1> QED  BY <1>9, <1>12 DEF hs

-----------------------------------------------------------------------------
(* What handlers coming and going change of what is running.                 *)

\* c has the handlers of b, and ones with the id n.
Descends(b, c, n) ==
  \A e \in Nodes : \A j \in 1 .. Len(c[e].list) :
    c[e].list[j].id = n \/ \E k \in 1 .. Len(b[e].list) : c[e].list[j] = b[e].list[k]

LEMMA WalkDescends ==
  ASSUME NEW b, NEW c, NEW now \in Nat, NEW later \in {now, now + 1}, Descends(b, c, now + 1),
         NEW done \in SUBSET ((0 .. now) \X (0 .. now)), NEW w \in Walks, WalkSound(w, b, done, now)
  PROVE  WalkSound(w, c, done, later)
<1>1. w.path \in Seq(Nodes) /\ w.event \in Nat   BY DEF Walks
<1>2. w.event <= later   BY <1>1 DEF WalkSound
<1>3. ASSUME w.by # "default", NEW i \in 1 .. Len(w.path), NEW j \in 1 .. Len(c[w.path[i]].list)
      PROVE  <<w.event, c[w.path[i]].list[j].id>> \notin done
  <2>1. w.path[i] \in Nodes   BY <1>1
  <2>2. CASE c[w.path[i]].list[j].id = now + 1
    <3>1. now + 1 \notin 0 .. now   OBVIOUS
    <3> QED  BY <2>2, <3>1
  <2>3. CASE \E k \in 1 .. Len(b[w.path[i]].list) : c[w.path[i]].list[j] = b[w.path[i]].list[k]
    BY <1>3, <2>3 DEF WalkSound
  <2> QED  BY <2>1, <2>2, <2>3 DEF Descends
<1> QED  BY <1>2, <1>3 DEF WalkSound

LEMMA DispatchDescends ==
  ASSUME NEW b, NEW c, NEW now \in Nat, NEW later \in {now, now + 1}, Descends(b, c, now + 1),
         NEW done, NEW d \in Dispatches, NEW w, DispatchSound(d, w, b, done, now)
  PROVE  DispatchSound(d, w, c, done, later)
<1>1. /\ d.queue \in Seq(Queued)
      /\ \A i \in 1 .. Len(d.queue) : d.queue[i] \in Queued /\ d.queue[i].h.id \in Nat /\ d.queue[i].h.id <= now
  <2>1. d.queue \in Seq(Queued)   BY DEF Dispatches
  <2>2. \A i \in 1 .. Len(d.queue) : d.queue[i] \in Queued   BY <2>1
  <2> QED  BY <2>1, <2>2 DEF Queued, Hs, DispatchSound
<1>2. \A i \in 1 .. Len(d.queue) : d.queue[i].h.id <= later   BY <1>1
<1>3. ASSUME NEW i \in 1 .. Len(d.queue), NEW e \in Nodes, NEW j \in 1 .. Len(c[e].list),
             c[e].list[j].id = d.queue[i].h.id
      PROVE  e = d.on /\ c[e].list[j] = d.queue[i].h
  <2>3. d.queue[i].h.id \in Nat /\ d.queue[i].h.id <= now   BY <1>1
  <2>4. d.queue[i].h.id # now + 1   BY <2>3
  <2>1. c[e].list[j].id # now + 1   BY <1>3, <2>4, Zenon
  <2>2. PICK k \in 1 .. Len(b[e].list) : c[e].list[j] = b[e].list[k]   BY <2>1 DEF Descends
  <2>5. b[e].list[k].id = d.queue[i].h.id   BY <1>3, <2>2, Zenon
  <2>6. e = d.on /\ b[e].list[k] = d.queue[i].h   BY <2>5 DEF DispatchSound
  <2> QED  BY <2>2, <2>6
<1> QED  BY <1>2, <1>3 DEF DispatchSound

LEMMA FrameKinds ==
  ASSUME NEW f \in Frames
  PROVE  /\ f.does = "walk" <=> f \in Walks
         /\ f.does = "dispatch" <=> f \in Dispatches
         /\ f.does = "handler" <=> f \in Running
         /\ f.does \in {"walk", "dispatch", "handler"}
<1>1. /\ f \in Walks => f.does = "walk"
      /\ f \in Dispatches => f.does = "dispatch"
      /\ f \in Running => f.does = "handler"
  BY DEF Walks, Dispatches, Running
<1>2. f \in Walks \/ f \in Dispatches \/ f \in Running   BY DEF Frames
<1> QED  BY <1>1, <1>2

LEMMA SoundDescends ==
  ASSUME NEW b, NEW c, NEW now \in Nat, NEW later \in {now, now + 1}, Descends(b, c, now + 1),
         NEW done \in SUBSET ((0 .. now) \X (0 .. now)), NEW st, Sound(st, b, done, now)
  PROVE  Sound(st, c, done, later)
<1>1. st \in Seq(Frames)   BY DEF Sound
<1>2. ASSUME NEW i \in 1 .. Len(st)   PROVE FrameSound(st, i, c, done, later)
  <2>1. st[i] \in Frames   BY <1>1
  <2>2. FrameSound(st, i, b, done, now)   BY DEF Sound
  <2>3. st[i].does = "walk" => WalkSound(st[i], c, done, later)
    <3> SUFFICES ASSUME st[i].does = "walk"   PROVE WalkSound(st[i], c, done, later)
      OBVIOUS
    <3>1. st[i] \in Walks   BY <2>1, FrameKinds
    <3>2. WalkSound(st[i], b, done, now)   BY <2>2 DEF FrameSound
    <3> QED  BY <3>1, <3>2, WalkDescends
  <2>4. st[i].does = "dispatch" => DispatchSound(st[i], st[i + 1], c, done, later)
    <3> SUFFICES ASSUME st[i].does = "dispatch"   PROVE DispatchSound(st[i], st[i + 1], c, done, later)
      OBVIOUS
    <3>1. st[i] \in Dispatches   BY <2>1, FrameKinds
    <3>2. DispatchSound(st[i], st[i + 1], b, done, now)   BY <2>2 DEF FrameSound
    <3> QED  BY <3>1, <3>2, DispatchDescends
  <2> QED  BY <2>2, <2>3, <2>4 DEF FrameSound
<1> QED  BY <1>1, <1>2 DEF Sound

LEMMA OnceDescends ==
  ASSUME NEW b, NEW c, NEW now \in Nat, Descends(b, c, now + 1),
         NEW done \in SUBSET ((0 .. now) \X (0 .. now)), OnceBound(b, done)
  PROVE  OnceBound(c, done)
<1>1. ASSUME NEW e \in Nodes, NEW i \in 1 .. Len(c[e].list), c[e].list[i].one = TRUE, NEW r \in done
      PROVE  r[2] # c[e].list[i].id
  <2>1. CASE c[e].list[i].id = now + 1
    <3>1. r[2] \in 0 .. now /\ now + 1 \notin 0 .. now   OBVIOUS
    <3> QED  BY <2>1, <3>1
  <2>2. CASE \E k \in 1 .. Len(b[e].list) : c[e].list[i] = b[e].list[k]
    BY <1>1, <2>2 DEF OnceBound
  <2> QED  BY <2>1, <2>2 DEF Descends
<1> QED  BY <1>1 DEF OnceBound

\* on().
LEMMA BoundAttached ==
  ASSUME NEW now \in Nat, NEW b, BoundSound(b, now), NEW e \in Nodes, NEW h \in Hs, h.id = now + 1,
         NEW c, c = [b EXCEPT ![e] = Attach(@, h)]
  PROVE  BoundSound(c, now + 1) /\ Descends(b, c, now + 1)
<1>1. b \in [Nodes -> Lists] /\ (\A f \in Nodes : ListSound(b[f])) /\ IdsApart(b, now)   BY DEF BoundSound
<1>2. c[e] = Attach(b[e], h) /\ \A f \in Nodes \ {e} : c[f] = b[f]   BY <1>1
<1>3. b[e] \in Lists /\ ListSound(b[e])   BY <1>1
<1>4. /\ Attach(b[e], h) \in Lists /\ ListSound(Attach(b[e], h))
      /\ \E at : Inserted(Attach(b[e], h).list, b[e].list, at, h)
  BY <1>3, AttachIs
<1>5. c[e] \in Lists /\ ListSound(c[e]) /\ \E at : Inserted(c[e].list, b[e].list, at, h)   BY <1>2, <1>4
<1>6. c \in [Nodes -> Lists]   BY <1>1, <1>5
<1>7. PICK at : Inserted(c[e].list, b[e].list, at, h)   BY <1>5
<1> DEFINE s == c[e].list
           t == b[e].list
<1>8. Len(s) \in Nat /\ Len(t) \in Nat
  <2>1. s \in Seq(Hs) /\ t \in Seq(Hs)   BY <1>1, <1>5 DEF Lists
  <2> QED  BY <2>1
<1>9. /\ at \in 1 .. Len(t) + 1 /\ Len(s) = Len(t) + 1 /\ s[at] = h
      /\ \A i \in 1 .. at - 1 : s[i] = t[i]
      /\ \A i \in at + 1 .. Len(s) : s[i] = t[i - 1]
  BY <1>7 DEF Inserted
<1> DEFINE New(f, j) == f = e /\ j = at
           old(f, j) == IF f = e /\ j > at THEN j - 1 ELSE j
<1>10. ASSUME NEW f \in Nodes, NEW j \in 1 .. Len(c[f].list)
       PROVE  \/ New(f, j) /\ c[f].list[j] = h
              \/ /\ ~New(f, j) /\ old(f, j) \in 1 .. Len(b[f].list)
                 /\ c[f].list[j] = b[f].list[old(f, j)]
  <2>1. CASE f # e
    <3>1. c[f] = b[f] /\ old(f, j) = j   BY <1>2, <2>1
    <3> QED  BY <2>1, <3>1
  <2>2. CASE f = e
    <3>1. j \in 1 .. Len(s)   BY <2>2
    <3> HIDE DEF s, t
    <3>2. CASE j < at
      <4>1. j \in 1 .. at - 1 /\ j \in 1 .. Len(t) /\ ~(j > at) /\ j # at   BY <1>8, <1>9, <3>1, <3>2
      <4> QED  BY <1>9, <2>2, <4>1 DEF s, t
    <3>3. CASE j = at   BY <1>9, <2>2, <3>3 DEF s
    <3>4. CASE j > at
      <4>1. j \in at + 1 .. Len(s) /\ j - 1 \in 1 .. Len(t) /\ j # at   BY <1>8, <1>9, <3>1, <3>4
      <4> QED  BY <1>9, <2>2, <3>4, <4>1 DEF s, t
    <3> QED  BY <1>8, <1>9, <3>1, <3>2, <3>3, <3>4
  <2> QED  BY <2>1, <2>2
<1>11. at \in Nat   BY <1>8, <1>9
<1>12. ASSUME NEW f \in Nodes, NEW j \in 1 .. Len(c[f].list), ~New(f, j)
       PROVE  /\ old(f, j) \in 1 .. Len(b[f].list) /\ c[f].list[j] = b[f].list[old(f, j)]
              /\ c[f].list[j].id \in Nat /\ c[f].list[j].id <= now
  <2>1. old(f, j) \in 1 .. Len(b[f].list) /\ c[f].list[j] = b[f].list[old(f, j)]   BY <1>10, <1>12
  <2> HIDE DEF old
  <2>2. b[f].list \in Seq(Hs)   BY <1>1 DEF Lists
  <2>3. b[f].list[old(f, j)] \in Hs   BY <2>1, <2>2
  <2>4. b[f].list[old(f, j)].id \in Nat   BY <2>3 DEF Hs
  <2>5. b[f].list[old(f, j)].id <= now   BY <1>1, <2>1 DEF IdsApart
  <2> QED  BY <2>1, <2>4, <2>5
<1> HIDE DEF s, t
<1>13. \A f \in Nodes : \A j \in 1 .. Len(c[f].list) : c[f].list[j].id <= now + 1
  <2> TAKE f \in Nodes
  <2> TAKE j \in 1 .. Len(c[f].list)
  <2>1. CASE New(f, j)
    <3>1. c[f].list[j].id = now + 1   BY <1>10, <2>1
    <3> QED  BY <3>1
  <2>2. CASE ~New(f, j)
    <3>1. c[f].list[j].id \in Nat /\ c[f].list[j].id <= now   BY <1>12, <2>2
    <3> QED  BY <3>1
  <2> QED  BY <2>1, <2>2
<1>14. ASSUME NEW f \in Nodes, NEW g \in Nodes, NEW i \in 1 .. Len(c[f].list), NEW j \in 1 .. Len(c[g].list),
              c[f].list[i].id = c[g].list[j].id
       PROVE  f = g /\ i = j
  <2>1. CASE New(f, i) /\ New(g, j)   BY <2>1
  <2>2. CASE New(f, i) /\ ~New(g, j)
    <3>1. c[f].list[i].id = now + 1   BY <1>10, <2>2
    <3>2. c[g].list[j].id \in Nat /\ c[g].list[j].id <= now   BY <1>12, <2>2
    <3> QED  BY <1>14, <3>1, <3>2
  <2>3. CASE ~New(f, i) /\ New(g, j)
    <3>1. c[g].list[j].id = now + 1   BY <1>10, <2>3
    <3>2. c[f].list[i].id \in Nat /\ c[f].list[i].id <= now   BY <1>12, <2>3
    <3> QED  BY <1>14, <3>1, <3>2
  <2>4. CASE ~New(f, i) /\ ~New(g, j)
    <3> DEFINE k == old(f, i)
               l == old(g, j)
    <3>1. /\ k \in 1 .. Len(b[f].list) /\ c[f].list[i] = b[f].list[k]
          /\ l \in 1 .. Len(b[g].list) /\ c[g].list[j] = b[g].list[l]
      BY <1>12, <2>4
    <3> HIDE DEF k, l
    <3>2. b[f].list[k].id = b[g].list[l].id   BY <1>14, <3>1, Zenon
    <3>3. f = g /\ k = l   BY <1>1, <3>1, <3>2 DEF IdsApart
    <3>4. old(f, i) = old(f, j)   BY <3>3 DEF k, l
    <3>5. i \in Nat /\ j \in Nat   OBVIOUS
    <3> QED  BY <1>11, <2>4, <3>3, <3>4, <3>5
  <2> QED  BY <2>1, <2>2, <2>3, <2>4
<1>15. IdsApart(c, now + 1)   BY <1>13, <1>14 DEF IdsApart
<1>16. \A f \in Nodes : ListSound(c[f])   BY <1>1, <1>2, <1>5
<1>17. Descends(b, c, now + 1)
  <2>1. ASSUME NEW f \in Nodes, NEW j \in 1 .. Len(c[f].list)
        PROVE  c[f].list[j].id = now + 1 \/ \E k \in 1 .. Len(b[f].list) : c[f].list[j] = b[f].list[k]
    <3>1. CASE New(f, j)   BY <1>10, <3>1
    <3>2. CASE ~New(f, j)   BY <1>12, <3>2
    <3> QED  BY <3>1, <3>2
  <2> QED  BY <2>1 DEF Descends
<1> QED  BY <1>6, <1>15, <1>16, <1>17 DEF BoundSound

LEMMA PartOfItself == ASSUME NEW s, Len(s) \in Nat PROVE PartOf(s, s)
<1> DEFINE p == [i \in 1 .. Len(s) |-> i]
<1>1. p \in [1 .. Len(s) -> 1 .. Len(s)] /\ \A i \in 1 .. Len(s) : p[i] = i   OBVIOUS
<1> HIDE DEF p
<1>2. \A i \in 1 .. Len(s) : s[i] = s[p[i]]   BY <1>1
<1>3. \A i, j \in 1 .. Len(s) : p[i] = p[j] => i = j   BY <1>1
<1> QED  BY <1>1, <1>2, <1>3 DEF PartOf

\* off().
LEMMA BoundDetached ==
  ASSUME NEW now \in Nat, NEW b, BoundSound(b, now), NEW e \in Nodes, NEW fn, NEW selector, NEW namespace,
         NEW c, c = [b EXCEPT ![e] = Detach(@, fn, selector, namespace)]
  PROVE  /\ BoundSound(c, now) /\ \A n : Descends(b, c, n)
         /\ \A i \in 1 .. Len(c[e].list) : ~Matches(c[e].list[i], fn, selector, namespace)
<1> DEFINE d == Detach(b[e], fn, selector, namespace)
<1>1. b \in [Nodes -> Lists] /\ (\A f \in Nodes : ListSound(b[f])) /\ IdsApart(b, now)   BY DEF BoundSound
<1>2. c[e] = d /\ \A f \in Nodes \ {e} : c[f] = b[f]   BY <1>1
<1>3. b[e] \in Lists /\ ListSound(b[e])   BY <1>1
<1>4. /\ d \in Lists /\ ListSound(d) /\ PartOf(d.list, b[e].list)
      /\ \A i \in 1 .. Len(d.list) : ~Matches(d.list[i], fn, selector, namespace)
  BY <1>3, DetachIs
<1> HIDE DEF d
<1>5. c \in [Nodes -> Lists] /\ \A f \in Nodes : ListSound(c[f])   BY <1>1, <1>2, <1>4
<1>6. ASSUME NEW f \in Nodes   PROVE PartOf(c[f].list, b[f].list)
  <2>1. CASE f = e   BY <1>2, <1>4, <2>1
  <2>2. CASE f # e
    <3>1. b[f].list \in Seq(Hs)   BY <1>1 DEF Lists
    <3>2. Len(b[f].list) \in Nat   BY <3>1
    <3> QED  BY <1>2, <2>2, <3>2, PartOfItself
  <2> QED  BY <2>1, <2>2
<1>7. ASSUME NEW f \in Nodes, NEW j \in 1 .. Len(c[f].list)
      PROVE  \E k \in 1 .. Len(b[f].list) : c[f].list[j] = b[f].list[k]
  <2>1. PICK p \in [1 .. Len(c[f].list) -> 1 .. Len(b[f].list)] :
           \A i \in 1 .. Len(c[f].list) : c[f].list[i] = b[f].list[p[i]]
    BY <1>6 DEF PartOf
  <2>2. p[j] \in 1 .. Len(b[f].list)   BY <2>1
  <2> QED  BY <2>1, <2>2
<1>8. \A f \in Nodes : \A j \in 1 .. Len(c[f].list) : c[f].list[j].id <= now
  <2> TAKE f \in Nodes
  <2> TAKE j \in 1 .. Len(c[f].list)
  <2>1. PICK k \in 1 .. Len(b[f].list) : c[f].list[j] = b[f].list[k]   BY <1>7
  <2>2. b[f].list[k].id <= now   BY <1>1 DEF IdsApart
  <2> QED  BY <2>1, <2>2
<1>9. ASSUME NEW f \in Nodes, NEW g \in Nodes, NEW i \in 1 .. Len(c[f].list), NEW j \in 1 .. Len(c[g].list),
             c[f].list[i].id = c[g].list[j].id
      PROVE  f = g /\ i = j
  <2>1. f = g
    <3>1. PICK k \in 1 .. Len(b[f].list) : c[f].list[i] = b[f].list[k]   BY <1>7
    <3>2. PICK l \in 1 .. Len(b[g].list) : c[g].list[j] = b[g].list[l]   BY <1>7
    <3>3. b[f].list[k].id = b[g].list[l].id   BY <1>9, <3>1, <3>2, Zenon
    <3> QED  BY <1>1, <3>3 DEF IdsApart
  <2>2. PICK p \in [1 .. Len(c[f].list) -> 1 .. Len(b[f].list)] :
           /\ \A m \in 1 .. Len(c[f].list) : c[f].list[m] = b[f].list[p[m]]
           /\ \A m, n \in 1 .. Len(c[f].list) : p[m] = p[n] => m = n
    BY <1>6 DEF PartOf
  <2>3. i \in 1 .. Len(c[f].list) /\ j \in 1 .. Len(c[f].list)   BY <2>1
  <2>4. p[i] \in 1 .. Len(b[f].list) /\ p[j] \in 1 .. Len(b[f].list)   BY <2>2, <2>3
  <2>5. c[f].list[i] = b[f].list[p[i]] /\ c[f].list[j] = b[f].list[p[j]]   BY <2>2, <2>3
  <2>6. b[f].list[p[i]].id = b[f].list[p[j]].id   BY <1>9, <2>1, <2>5, Zenon
  <2>7. p[i] = p[j]   BY <1>1, <2>4, <2>6 DEF IdsApart
  <2> QED  BY <2>1, <2>2, <2>3, <2>7
<1>10. IdsApart(c, now)   BY <1>8, <1>9 DEF IdsApart
<1>11. \A n : Descends(b, c, n)   BY <1>7 DEF Descends
<1> QED  BY <1>2, <1>4, <1>5, <1>10, <1>11 DEF BoundSound

-----------------------------------------------------------------------------
(* The stack of calls.                                                       *)

\* What w of a walk on top asks of the rest.
WalkOver(w, st, b, done, now) ==
  /\ WalkSound(w, b, done, now) /\ (st # << >> => st[1].does = "handler")
  /\ \A j \in 1 .. Len(st) : st[j].does = "walk" => st[j].event # w.event

\* A frame put on top of others.
Tops(f, st, u) ==
  /\ u \in Seq(Frames) /\ Len(u) = Len(st) + 1 /\ Len(st) \in Nat /\ u[1] = f /\ u # << >>
  /\ Head(u) = f /\ Tail(u) = st
  /\ \A i \in 1 .. Len(st) : u[i + 1] = st[i]
  /\ \A i \in 2 .. Len(u) : u[i] = st[i - 1]

LEMMA OnTop ==
  ASSUME NEW st \in Seq(Frames), NEW f \in Frames
  PROVE  Tops(f, st, <<f>> \o st)
<1> DEFINE u == <<f>> \o st
<1>1. <<f>> \in Seq(Frames) /\ Len(<<f>>) = 1 /\ <<f>>[1] = f /\ Len(st) \in Nat   OBVIOUS
<1>2. u \in Seq(Frames) /\ Len(u) = Len(st) + 1   BY <1>1
<1>3. \A i \in 1 .. Len(u) : u[i] = IF i <= 1 THEN <<f>>[i] ELSE st[i - 1]   BY <1>1
<1> HIDE DEF u
<1>4. u[1] = f   BY <1>1, <1>2, <1>3
<1>5. \A i \in 2 .. Len(u) : u[i] = st[i - 1]   BY <1>1, <1>2, <1>3
<1>6. \A i \in 1 .. Len(st) : u[i + 1] = st[i]
  <2> TAKE i \in 1 .. Len(st)
  <2>1. i + 1 \in 2 .. Len(u) /\ (i + 1) - 1 = i   BY <1>1, <1>2
  <2> QED  BY <1>5, <2>1
<1>7. u # << >>   BY <1>1, <1>2
<1>8. Head(u) = f   BY <1>2, <1>4, <1>7
<1>9. Tail(u) = st
  <2>1. Tail(u) \in Seq(Frames) /\ Len(Tail(u)) = Len(u) - 1 /\ \A i \in 1 .. Len(Tail(u)) : Tail(u)[i] = u[i + 1]
    BY <1>2, <1>7, HeadTailProperties
  <2>2. Len(Tail(u)) = Len(st)   BY <1>1, <1>2, <2>1
  <2>3. \A i \in 1 .. Len(st) : Tail(u)[i] = st[i]   BY <1>6, <2>1, <2>2
  <2> QED  BY <2>1, <2>2, <2>3, SeqEqual
<1> QED  BY <1>1, <1>2, <1>4, <1>5, <1>6, <1>7, <1>8, <1>9 DEF Tops, u

\* Those below the first k - 1.
LEMMA CutIs ==
  ASSUME NEW st \in Seq(Frames), NEW k \in 1 .. Len(st) + 1
  PROVE  LET u == SubSeq(st, k, Len(st))
         IN  /\ u \in Seq(Frames) /\ Len(u) = Len(st) - k + 1
             /\ \A i \in 1 .. Len(u) : u[i] = st[i + k - 1]
<1> DEFINE u == SubSeq(st, k, Len(st))
<1>1. u \in Seq(Frames) /\ Len(u) = Len(st) - k + 1   OBVIOUS
<1>2. \A i \in 1 .. Len(st) - k + 1 : u[i] = st[k + i - 1]   OBVIOUS
<1> HIDE DEF u
<1>3. \A i \in 1 .. Len(u) : u[i] = st[i + k - 1]
  <2> TAKE i \in 1 .. Len(u)
  <2>1. k + i - 1 = i + k - 1   OBVIOUS
  <2> QED  BY <1>1, <1>2, <2>1
<1> QED  BY <1>1, <1>3 DEF u

LEMMA CutSound ==
  ASSUME NEW b, NEW done, NEW now, NEW st, Sound(st, b, done, now), NEW k \in 1 .. Len(st) + 1
  PROVE  Sound(SubSeq(st, k, Len(st)), b, done, now)
<1> DEFINE u == SubSeq(st, k, Len(st))
<1>1. st \in Seq(Frames) /\ Len(st) \in Nat   BY DEF Sound
<1>2. u \in Seq(Frames) /\ Len(u) = Len(st) - k + 1 /\ \A i \in 1 .. Len(u) : u[i] = st[i + k - 1]
  BY <1>1, CutIs
<1> HIDE DEF u
<1>3. ASSUME NEW i \in 1 .. Len(u)   PROVE FrameSound(u, i, b, done, now)
  <2> DEFINE m == i + k - 1
  <2>1. m \in 1 .. Len(st) /\ m \in Nat /\ (m = 1 => i = 1)   BY <1>1, <1>2
  <2>2. i < Len(u) => i + 1 \in 1 .. Len(u) /\ (i + 1) + k - 1 = m + 1   BY <1>1, <1>2
  <2>3. i < Len(u) <=> m < Len(st)   BY <1>1, <1>2
  <2>4. \A j \in i + 1 .. Len(u) : j \in 1 .. Len(u) /\ j + k - 1 \in m + 1 .. Len(st)   BY <1>1, <1>2
  <2>5. u[i] = st[m]   BY <1>2
  <2> HIDE DEF m
  <2>6. i < Len(u) => u[i + 1] = st[m + 1]   BY <1>2, <2>2
  <2>7. FrameSound(st, m, b, done, now)   BY <2>1 DEF Sound
  <2>8. ASSUME u[i].does = "walk"
        PROVE  /\ WalkSound(u[i], b, done, now) /\ (i < Len(u) => u[i + 1].does = "handler")
               /\ u[i].by = "default" => i = 1
               /\ \A j \in i + 1 .. Len(u) : u[j].does = "walk" => u[j].event # u[i].event
    <3>1. /\ WalkSound(st[m], b, done, now) /\ (m < Len(st) => st[m + 1].does = "handler")
          /\ st[m].by = "default" => m = 1
          /\ \A j \in m + 1 .. Len(st) : st[j].does = "walk" => st[j].event # st[m].event
      BY <2>5, <2>7, <2>8 DEF FrameSound
    <3>2. \A j \in i + 1 .. Len(u) : u[j] = st[j + k - 1]   BY <1>2, <2>4
    <3>3. \A j \in i + 1 .. Len(u) : u[j].does = "walk" => u[j].event # u[i].event
      BY <2>4, <2>5, <3>1, <3>2
    <3> QED  BY <2>1, <2>3, <2>5, <2>6, <3>1, <3>3
  <2>9. ASSUME u[i].does = "dispatch"
        PROVE  i < Len(u) /\ u[i + 1].does = "walk" /\ DispatchSound(u[i], u[i + 1], b, done, now)
    <3>1. m < Len(st) /\ st[m + 1].does = "walk" /\ DispatchSound(st[m], st[m + 1], b, done, now)
      BY <2>5, <2>7, <2>9 DEF FrameSound
    <3> QED  BY <2>3, <2>5, <2>6, <3>1
  <2>10. u[i].does = "handler" => i < Len(u) /\ u[i + 1].does = "dispatch"
    BY <2>3, <2>5, <2>6, <2>7 DEF FrameSound
  <2> QED  BY <2>8, <2>9, <2>10 DEF FrameSound
<1> QED  BY <1>2, <1>3 DEF Sound, u

LEMMA PushSound ==
  ASSUME NEW b, NEW done, NEW now, NEW st, Sound(st, b, done, now), ~DefaultOnTop(st),
         NEW f \in Frames, FrameSound(<<f>> \o st, 1, b, done, now)
  PROVE  Sound(<<f>> \o st, b, done, now)
<1> DEFINE u == <<f>> \o st
<1>1. st \in Seq(Frames) /\ Len(st) \in Nat   BY DEF Sound
<1>3. FrameSound(u, 1, b, done, now)   OBVIOUS
<1>7. Tops(f, st, u)   BY <1>1, OnTop
<1> HIDE DEF u
<1>2. /\ u \in Seq(Frames) /\ Len(u) = Len(st) + 1
      /\ \A i \in 2 .. Len(u) : u[i] = st[i - 1]
  BY <1>7 DEF Tops
<1>4. ASSUME NEW i \in 2 .. Len(u)   PROVE FrameSound(u, i, b, done, now)
  <2> DEFINE m == i - 1
  <2>1. m \in 1 .. Len(st) /\ m \in Nat   BY <1>1, <1>2
  <2>2. i < Len(u) => i + 1 \in 2 .. Len(u) /\ (i + 1) - 1 = m + 1   BY <1>1, <1>2
  <2>3. i < Len(u) <=> m < Len(st)   BY <1>1, <1>2
  <2>4. \A j \in i + 1 .. Len(u) : j \in 2 .. Len(u) /\ j - 1 \in m + 1 .. Len(st)   BY <1>1, <1>2
  <2>5. u[i] = st[m]   BY <1>2
  <2> HIDE DEF m
  <2>6. i < Len(u) => u[i + 1] = st[m + 1]   BY <1>2, <2>2
  <2>7. FrameSound(st, m, b, done, now)   BY <2>1 DEF Sound
  <2>8. ASSUME u[i].does = "walk"
        PROVE  /\ WalkSound(u[i], b, done, now) /\ (i < Len(u) => u[i + 1].does = "handler")
               /\ u[i].by = "default" => i = 1
               /\ \A j \in i + 1 .. Len(u) : u[j].does = "walk" => u[j].event # u[i].event
    <3>1. /\ WalkSound(st[m], b, done, now) /\ (m < Len(st) => st[m + 1].does = "handler")
          /\ st[m].by = "default" => m = 1
          /\ \A j \in m + 1 .. Len(st) : st[j].does = "walk" => st[j].event # st[m].event
      BY <2>5, <2>7, <2>8 DEF FrameSound
    <3>2. \A j \in i + 1 .. Len(u) : u[j] = st[j - 1]   BY <1>2, <2>4
    <3>3. \A j \in i + 1 .. Len(u) : u[j].does = "walk" => u[j].event # u[i].event
      BY <2>4, <2>5, <3>1, <3>2
    <3>4. u[i].by # "default"
      <4> SUFFICES ASSUME st[m].by = "default"   PROVE FALSE
        BY <2>5
      <4>1. m = 1   BY <3>1
      <4>2. st # << >>   BY <1>1, <2>1
      <4> QED  BY <2>5, <2>8, <4>1, <4>2 DEF DefaultOnTop
    <3> QED  BY <2>3, <2>5, <2>6, <3>1, <3>3, <3>4
  <2>9. ASSUME u[i].does = "dispatch"
        PROVE  i < Len(u) /\ u[i + 1].does = "walk" /\ DispatchSound(u[i], u[i + 1], b, done, now)
    <3>1. m < Len(st) /\ st[m + 1].does = "walk" /\ DispatchSound(st[m], st[m + 1], b, done, now)
      BY <2>5, <2>7, <2>9 DEF FrameSound
    <3> QED  BY <2>3, <2>5, <2>6, <3>1
  <2>10. u[i].does = "handler" => i < Len(u) /\ u[i + 1].does = "dispatch"
    BY <2>3, <2>5, <2>6, <2>7 DEF FrameSound
  <2> QED  BY <2>8, <2>9, <2>10 DEF FrameSound
<1>5. \A i \in 1 .. Len(u) : i = 1 \/ i \in 2 .. Len(u)   BY <1>1, <1>2
<1>6. \A i \in 1 .. Len(u) : FrameSound(u, i, b, done, now)   BY <1>3, <1>4, <1>5
<1> QED  BY <1>2, <1>6 DEF Sound, u

LEMMA WalkPushed ==
  ASSUME NEW b, NEW done, NEW now, NEW st, Sound(st, b, done, now), ~DefaultOnTop(st),
         NEW w \in Walks, WalkOver(w, st, b, done, now)
  PROVE  Sound(<<w>> \o st, b, done, now)
<1> DEFINE u == <<w>> \o st
<1>1. st \in Seq(Frames) /\ Len(st) \in Nat /\ w \in Frames /\ w.does = "walk"
  BY DEF Sound, Frames, Walks
<1>9. Tops(w, st, u)   BY <1>1, OnTop
<1> HIDE DEF u
<1>2. /\ Len(u) = Len(st) + 1 /\ u[1] = w
      /\ (\A i \in 1 .. Len(st) : u[i + 1] = st[i]) /\ \A i \in 2 .. Len(u) : u[i] = st[i - 1]
  BY <1>9 DEF Tops
<1>3. 1 < Len(u) => u[1 + 1].does = "handler"
  <2> SUFFICES ASSUME 1 < Len(u)   PROVE u[1 + 1].does = "handler"
    OBVIOUS
  <2>1. 1 \in 1 .. Len(st) /\ st # << >>   BY <1>1, <1>2
  <2> QED  BY <1>2, <2>1 DEF WalkOver
<1>4. \A j \in 1 + 1 .. Len(u) : u[j].does = "walk" => u[j].event # w.event
  <2> TAKE j \in 1 + 1 .. Len(u)
  <2>1. j \in 2 .. Len(u) /\ j - 1 \in 1 .. Len(st)   BY <1>1, <1>2
  <2> QED  BY <1>2, <2>1 DEF WalkOver
<1>5. WalkSound(w, b, done, now)   BY DEF WalkOver
<1>6. FrameSound(u, 1, b, done, now)   BY <1>1, <1>2, <1>3, <1>4, <1>5 DEF FrameSound
<1> QED  BY <1>1, <1>6, PushSound DEF u

LEMMA DispatchPushed ==
  ASSUME NEW b, NEW done, NEW now, NEW st, Sound(st, b, done, now), ~DefaultOnTop(st), st # << >>,
         st[1].does = "walk", NEW d \in Dispatches, DispatchSound(d, st[1], b, done, now)
  PROVE  Sound(<<d>> \o st, b, done, now)
<1> DEFINE u == <<d>> \o st
<1>1. st \in Seq(Frames) /\ Len(st) \in Nat /\ d \in Frames /\ d.does = "dispatch"
  BY DEF Sound, Frames, Dispatches
<1>9. Tops(d, st, u)   BY <1>1, OnTop
<1> HIDE DEF u
<1>2. Len(u) = Len(st) + 1 /\ u[1] = d /\ \A i \in 1 .. Len(st) : u[i + 1] = st[i]
  BY <1>9 DEF Tops
<1>3. 1 < Len(u) /\ u[1 + 1] = st[1]   BY <1>1, <1>2
<1>4. FrameSound(u, 1, b, done, now)   BY <1>1, <1>2, <1>3 DEF FrameSound
<1> QED  BY <1>1, <1>4, PushSound DEF u

LEMMA HandlerPushed ==
  ASSUME NEW b, NEW done, NEW now, NEW st, Sound(st, b, done, now), ~DefaultOnTop(st), st # << >>,
         st[1].does = "dispatch", NEW h \in Running
  PROVE  Sound(<<h>> \o st, b, done, now)
<1> DEFINE u == <<h>> \o st
<1>1. st \in Seq(Frames) /\ Len(st) \in Nat /\ h \in Frames /\ h.does = "handler"
  BY DEF Sound, Frames, Running
<1>9. Tops(h, st, u)   BY <1>1, OnTop
<1> HIDE DEF u
<1>2. Len(u) = Len(st) + 1 /\ u[1] = h /\ \A i \in 1 .. Len(st) : u[i + 1] = st[i]
  BY <1>9 DEF Tops
<1>3. 1 < Len(u) /\ u[1 + 1] = st[1]   BY <1>1, <1>2
<1>4. FrameSound(u, 1, b, done, now)   BY <1>1, <1>2, <1>3 DEF FrameSound
<1> QED  BY <1>1, <1>4, PushSound DEF u

\* The top of a stack, and what is below it.
TopOver(st, t, b, done, now) ==
  /\ Head(st) = st[1] /\ st[1] \in Frames /\ st = <<st[1]>> \o t
  /\ t = SubSeq(st, 2, Len(st)) /\ Sound(t, b, done, now)
  /\ Len(t) = Len(st) - 1 /\ \A i \in 1 .. Len(t) : t[i] = st[i + 1]
  /\ FrameSound(st, 1, b, done, now)

LEMMA TopOff ==
  ASSUME NEW b, NEW done, NEW now, NEW st, Sound(st, b, done, now), st # << >>
  PROVE  TopOver(st, Tail(st), b, done, now)
<1>1. st \in Seq(Frames) /\ Len(st) \in Nat /\ Len(st) > 0   BY DEF Sound
<1>2. Head(st) = st[1] /\ st[1] \in Frames   BY <1>1
<1>3. /\ Tail(st) \in Seq(Frames) /\ Len(Tail(st)) = Len(st) - 1
      /\ \A i \in 1 .. Len(Tail(st)) : Tail(st)[i] = st[i + 1]
  BY <1>1, HeadTailProperties
<1>4. Tail(st) = SubSeq(st, 2, Len(st))   BY <1>1, TailIsSubSeq
<1>5. Sound(Tail(st), b, done, now)
  <2>1. 2 \in 1 .. Len(st) + 1   BY <1>1
  <2> QED  BY <1>4, <2>1, CutSound
<1>6. st = <<st[1]>> \o Tail(st)
  <2>1. 1 \in 1 .. Len(st) /\ Len(st) \in 1 .. Len(st)   BY <1>1
  <2>2. SubSeq(st, 1, Len(st)) = <<st[1]>> \o SubSeq(st, 1 + 1, Len(st))   BY <1>1, <2>1, SubSeqRecursiveFirst
  <2>3. SubSeq(st, 1, Len(st)) = st   BY <1>1, SubSeqFull
  <2> QED  BY <1>4, <2>2, <2>3
<1>7. FrameSound(st, 1, b, done, now)   BY <1>1 DEF Sound
<1> QED  BY <1>2, <1>3, <1>4, <1>5, <1>6, <1>7 DEF TopOver

LEMMA WalkBelow ==
  ASSUME NEW b, NEW done, NEW now, NEW st, Sound(st, b, done, now), st # << >>, st[1].does = "walk"
  PROVE  /\ st[1] \in Walks /\ WalkOver(st[1], Tail(st), b, done, now)
         /\ Sound(Tail(st), b, done, now) /\ ~DefaultOnTop(Tail(st))
<1> DEFINE t == Tail(st)
<1>8. TopOver(st, t, b, done, now)   BY TopOff
<1> HIDE DEF t
<1>1. /\ st[1] \in Frames /\ Sound(t, b, done, now) /\ Len(t) = Len(st) - 1
      /\ \A i \in 1 .. Len(t) : t[i] = st[i + 1]
      /\ FrameSound(st, 1, b, done, now)
  BY <1>8 DEF TopOver
<1>2. st \in Seq(Frames) /\ Len(st) \in Nat /\ Len(st) > 0 /\ t \in Seq(Frames) /\ Len(t) \in Nat
  BY <1>1 DEF Sound
<1>3. st[1] \in Walks   BY <1>1, FrameKinds
<1>4. /\ WalkSound(st[1], b, done, now) /\ (1 < Len(st) => st[1 + 1].does = "handler")
      /\ \A j \in 1 + 1 .. Len(st) : st[j].does = "walk" => st[j].event # st[1].event
  BY <1>1 DEF FrameSound
<1>5. t # << >> => t[1].does = "handler"
  <2> SUFFICES ASSUME t # << >>   PROVE t[1].does = "handler"
    OBVIOUS
  <2>1. 1 < Len(st) /\ 1 \in 1 .. Len(t)   BY <1>1, <1>2
  <2> QED  BY <1>1, <1>4, <2>1
<1>6. \A j \in 1 .. Len(t) : t[j].does = "walk" => t[j].event # st[1].event
  <2> TAKE j \in 1 .. Len(t)
  <2>1. j + 1 \in 1 + 1 .. Len(st)   BY <1>1, <1>2
  <2> QED  BY <1>1, <1>4, <2>1
<1>7. ~DefaultOnTop(t)   BY <1>5 DEF DefaultOnTop
<1> QED  BY <1>1, <1>3, <1>4, <1>5, <1>6, <1>7 DEF WalkOver, t

LEMMA DispatchBelow ==
  ASSUME NEW b, NEW done, NEW now, NEW st, Sound(st, b, done, now), st # << >>, st[1].does = "dispatch"
  PROVE  /\ st[1] \in Dispatches /\ Tail(st) # << >> /\ Tail(st)[1].does = "walk"
         /\ DispatchSound(st[1], Tail(st)[1], b, done, now)
         /\ Sound(Tail(st), b, done, now) /\ ~DefaultOnTop(Tail(st))
<1> DEFINE t == Tail(st)
<1>8. TopOver(st, t, b, done, now)   BY TopOff
<1> HIDE DEF t
<1>1. /\ st[1] \in Frames /\ Sound(t, b, done, now) /\ Len(t) = Len(st) - 1
      /\ \A i \in 1 .. Len(t) : t[i] = st[i + 1]
      /\ FrameSound(st, 1, b, done, now)
  BY <1>8 DEF TopOver
<1>2. st \in Seq(Frames) /\ Len(st) \in Nat /\ t \in Seq(Frames)
  BY <1>1 DEF Sound
<1>3. st[1] \in Dispatches   BY <1>1, FrameKinds
<1>4. 1 < Len(st) /\ st[1 + 1].does = "walk" /\ DispatchSound(st[1], st[1 + 1], b, done, now)
  BY <1>1 DEF FrameSound
<1>5. t # << >> /\ t[1] = st[1 + 1]   BY <1>1, <1>2, <1>4
<1>6. st[1 + 1].by # "default"   BY <1>4 DEF DispatchSound
<1>7. ~DefaultOnTop(t)   BY <1>5, <1>6 DEF DefaultOnTop
<1> QED  BY <1>1, <1>3, <1>4, <1>5, <1>7 DEF t

LEMMA HandlerBelow ==
  ASSUME NEW b, NEW done, NEW now, NEW st, Sound(st, b, done, now), st # << >>, st[1].does = "handler"
  PROVE  /\ st[1] \in Running /\ Tail(st) # << >> /\ Tail(st)[1].does = "dispatch"
         /\ Sound(Tail(st), b, done, now) /\ ~DefaultOnTop(Tail(st))
<1> DEFINE t == Tail(st)
<1>8. TopOver(st, t, b, done, now)   BY TopOff
<1> HIDE DEF t
<1>1. /\ st[1] \in Frames /\ Sound(t, b, done, now) /\ Len(t) = Len(st) - 1
      /\ \A i \in 1 .. Len(t) : t[i] = st[i + 1]
      /\ FrameSound(st, 1, b, done, now)
  BY <1>8 DEF TopOver
<1>2. st \in Seq(Frames) /\ Len(st) \in Nat /\ t \in Seq(Frames)
  BY <1>1 DEF Sound
<1>3. st[1] \in Running   BY <1>1, FrameKinds
<1>4. 1 < Len(st) /\ st[1 + 1].does = "dispatch"   BY <1>1 DEF FrameSound
<1>5. t # << >> /\ t[1] = st[1 + 1]   BY <1>1, <1>2, <1>4
<1>7. ~DefaultOnTop(t)   BY <1>4, <1>5 DEF DefaultOnTop
<1> QED  BY <1>1, <1>3, <1>4, <1>5, <1>7 DEF t

-----------------------------------------------------------------------------
(* The handlers of one().                                                    *)

LEMMA OncePushed ==
  ASSUME NEW done, NEW st \in Seq(Frames), NEW f \in Frames, OnceStack(st, done), OnceQueued(f, done),
         f.does = "walk" => \A j \in 1 .. Len(st) : st[j].does # "walk"
  PROVE  OnceStack(<<f>> \o st, done)
<1> DEFINE u == <<f>> \o st
<1>5. Tops(f, st, u)   BY OnTop
<1> HIDE DEF u
<1>1. Len(u) = Len(st) + 1 /\ Len(st) \in Nat /\ u[1] = f /\ \A i \in 2 .. Len(u) : u[i] = st[i - 1]
  BY <1>5 DEF Tops
<1>2. \A i \in 1 .. Len(u) : i = 1 \/ (i \in 2 .. Len(u) /\ i - 1 \in 1 .. Len(st))   BY <1>1
<1>3. ASSUME NEW i \in 1 .. Len(u), NEW j \in 1 .. Len(u), u[i].does = "walk", u[j].does = "walk"
      PROVE  i = j
  <2>1. CASE i = 1 /\ j = 1   BY <2>1
  <2>2. CASE i = 1 /\ j # 1   BY <1>1, <1>2, <1>3, <2>2
  <2>3. CASE i # 1 /\ j = 1   BY <1>1, <1>2, <1>3, <2>3
  <2>4. CASE i # 1 /\ j # 1
    <3>1. i - 1 \in 1 .. Len(st) /\ j - 1 \in 1 .. Len(st) /\ u[i] = st[i - 1] /\ u[j] = st[j - 1]
      BY <1>1, <1>2, <2>4
    <3>2. i - 1 = j - 1   BY <1>3, <3>1 DEF OnceStack, OneWalk
    <3> QED  BY <3>2
  <2> QED  BY <2>1, <2>2, <2>3, <2>4
<1>4. \A i \in 1 .. Len(u) : OnceQueued(u[i], done)
  <2> TAKE i \in 1 .. Len(u)
  <2>1. CASE i = 1   BY <1>1, <2>1
  <2>2. CASE i # 1   BY <1>1, <1>2, <2>2 DEF OnceStack
  <2> QED  BY <2>1, <2>2
<1> QED  BY <1>3, <1>4 DEF OnceStack, OneWalk, u

LEMMA OnceCut ==
  ASSUME NEW done, NEW st \in Seq(Frames), OnceStack(st, done), NEW k \in 1 .. Len(st) + 1
  PROVE  OnceStack(SubSeq(st, k, Len(st)), done)
<1> DEFINE u == SubSeq(st, k, Len(st))
<1>1. Len(u) = Len(st) - k + 1 /\ Len(st) \in Nat /\ \A i \in 1 .. Len(u) : u[i] = st[i + k - 1]
  BY CutIs
<1> HIDE DEF u
<1>2. \A i \in 1 .. Len(u) : i + k - 1 \in 1 .. Len(st)   BY <1>1
<1>3. ASSUME NEW i \in 1 .. Len(u), NEW j \in 1 .. Len(u), u[i].does = "walk", u[j].does = "walk"
      PROVE  i = j
  <2>1. i + k - 1 = j + k - 1   BY <1>1, <1>2, <1>3 DEF OnceStack, OneWalk
  <2> QED  BY <2>1
<1>4. \A i \in 1 .. Len(u) : OnceQueued(u[i], done)   BY <1>1, <1>2 DEF OnceStack
<1> QED  BY <1>3, <1>4 DEF OnceStack, OneWalk, u

LEMMA OnceBelow ==
  ASSUME NEW done, NEW st \in Seq(Frames), OnceStack(st, done), st # << >>
  PROVE  /\ OnceStack(Tail(st), done) /\ OnceQueued(st[1], done)
         /\ st[1].does = "walk" => \A j \in 1 .. Len(Tail(st)) : Tail(st)[j].does # "walk"
<1>1. /\ Tail(st) \in Seq(Frames) /\ Len(Tail(st)) = Len(st) - 1 /\ Len(st) \in Nat /\ Len(st) > 0
      /\ \A i \in 1 .. Len(Tail(st)) : Tail(st)[i] = st[i + 1]
  BY HeadTailProperties
<1>2. Tail(st) = SubSeq(st, 2, Len(st))   BY TailIsSubSeq
<1>3. 2 \in 1 .. Len(st) + 1 /\ 1 \in 1 .. Len(st)   BY <1>1
<1>4. OnceStack(Tail(st), done)   BY <1>2, <1>3, OnceCut
<1>5. OnceQueued(st[1], done)   BY <1>3 DEF OnceStack
<1>6. ASSUME st[1].does = "walk", NEW j \in 1 .. Len(Tail(st))   PROVE Tail(st)[j].does # "walk"
  <2>1. j + 1 \in 1 .. Len(st) /\ j + 1 # 1   BY <1>1
  <2>2. st[j + 1].does # "walk"   BY <1>3, <1>6, <2>1 DEF OnceStack, OneWalk
  <2> QED  BY <1>1, <2>2
<1> QED  BY <1>4, <1>5, <1>6

-----------------------------------------------------------------------------
(* The calls of the user.                                                    *)

LEMMA BelowIs == ASSUME NEW e \in Nodes PROVE Range(Below(e)) \subseteq Nodes
<1>1. Ancestry \in Seq(Nodes)   BY AncestryIs
<1>2. Below(e) \in Seq(Nodes)   BY <1>1, AmongPart DEF Below
<1>3. Range(Below(e)) = {Below(e)[i] : i \in 1 .. Len(Below(e))}   BY <1>2, RangeEquality
<1> QED  BY <1>2, <1>3

\* Ids that were apart stay so.
LEMMA BoundLater ==
  ASSUME NEW now \in Nat, NEW b, BoundSound(b, now)   PROVE BoundSound(b, now + 1)
<1>1. b \in [Nodes -> Lists] /\ IdsApart(b, now)   BY DEF BoundSound
<1>2. ASSUME NEW e \in Nodes, NEW i \in 1 .. Len(b[e].list)   PROVE b[e].list[i].id <= now + 1
  <2>1. b[e].list \in Seq(Hs)   BY <1>1 DEF Lists
  <2>2. b[e].list[i] \in Hs   BY <2>1
  <2>3. b[e].list[i].id \in Nat /\ b[e].list[i].id <= now   BY <1>1, <2>2 DEF Hs, IdsApart
  <2> QED  BY <2>3
<1>3. IdsApart(b, now + 1)   BY <1>1, <1>2 DEF IdsApart
<1> QED  BY <1>3 DEF BoundSound

LEMMA DescendsItself == \A b, n : Descends(b, b, n)
BY DEF Descends

\* While the user's code runs, a handler is on top or nothing.
LEMMA UsersTurn ==
  ASSUME EventsInv, EventTurn
  PROVE  /\ eventOps' = eventOps + 1 /\ eventOps' \in Nat /\ triggered = FALSE /\ ~DefaultOnTop(evStack)
         /\ evStack # << >> => evStack[1].does = "handler"
         /\ handled \subseteq (0 .. eventOps') \X (0 .. eventOps')
<1>1. eventOps \in Nat /\ eventOps' = eventOps + 1   BY DEF EventsInv, EventTurn
<1>2. evStack # << >> => evStack[1].does = "handler"
  <2> SUFFICES ASSUME evStack # << >>   PROVE evStack[1].does = "handler"
    OBVIOUS
  <2>1. Sound(evStack, bound, handled, eventOps)   BY DEF EventsInv
  <2>4. TopOver(evStack, Tail(evStack), bound, handled, eventOps)   BY <2>1, TopOff
  <2>2. Head(evStack) = evStack[1] /\ evStack[1] \in Frames   BY <2>4 DEF TopOver
  <2>3. evStack[1].does # "walk" /\ evStack[1].does # "dispatch"   BY <2>2 DEF EventTurn, Doing
  <2> QED  BY <2>2, <2>3, FrameKinds
<1>3. ~DefaultOnTop(evStack)   BY <1>2 DEF DefaultOnTop
<1>4. triggered = FALSE   BY <1>3 DEF EventsInv
<1>5. handled \subseteq (0 .. eventOps') \X (0 .. eventOps')
  <2>1. 0 .. eventOps \subseteq 0 .. eventOps'   BY <1>1
  <2>2. handled \subseteq (0 .. eventOps) \X (0 .. eventOps)   BY DEF EventsInv
  <2> QED  BY <2>1, <2>2
<1> QED  BY <1>1, <1>2, <1>3, <1>4, <1>5

\* Handlers come or go.
LEMMA BoundTurn ==
  ASSUME EventsInv, EventTurn, UNCHANGED <<triggered, evStack, handled, again, nested>>,
         BoundSound(bound', eventOps + 1), Descends(bound, bound', eventOps + 1)
  PROVE  EventsInv'
<1>1. /\ eventOps' = eventOps + 1 /\ eventOps' \in Nat
      /\ handled \subseteq (0 .. eventOps') \X (0 .. eventOps')
  BY UsersTurn
<1>2. /\ eventOps \in Nat /\ handled \in SUBSET ((0 .. eventOps) \X (0 .. eventOps))
      /\ Sound(evStack, bound, handled, eventOps)
  BY DEF EventsInv
<1>3. Sound(evStack, bound', handled, eventOps + 1)
  <2>1. eventOps + 1 \in {eventOps, eventOps + 1}   OBVIOUS
  <2> QED  BY <1>2, <2>1, SoundDescends
<1>4. nested = FALSE => OnceStack(evStack, handled) /\ OnceBound(bound', handled)
  <2> SUFFICES ASSUME nested = FALSE   PROVE OnceStack(evStack, handled) /\ OnceBound(bound', handled)
    OBVIOUS
  <2>1. OnceStack(evStack, handled) /\ OnceBound(bound, handled)   BY DEF EventsInv
  <2> QED  BY <1>2, <2>1, OnceDescends
<1>5. Sound(evStack', bound', handled', eventOps')   BY <1>1, <1>3
<1>6. nested' = FALSE => OnceStack(evStack', handled') /\ OnceBound(bound', handled')   BY <1>4
<1>7. triggered' \in BOOLEAN /\ again' = FALSE /\ nested' \in BOOLEAN
      /\ (triggered' = TRUE <=> DefaultOnTop(evStack'))
  BY DEF EventsInv
<1>8. BoundSound(bound', eventOps')   BY <1>1
<1> QED  BY <1>1, <1>5, <1>6, <1>7, <1>8 DEF EventsInv

LEMMA OnKeeps ==
  ASSUME EventsInv, NEW e \in Nodes, NEW fn \in Handlers, NEW ns \in Namespaces,
         NEW selector \in Range(Below(e)) \union {NoSelector}, NEW one \in BOOLEAN,
         On(e, fn, selector, ns, one)
  PROVE  EventsInv'
<1> DEFINE h == [id |-> eventOps', fn |-> fn, selector |-> selector, namespace |-> ns, one |-> one]
<1>1. eventOps' = eventOps + 1 /\ eventOps' \in Nat   BY UsersTurn DEF On
<1>2. h \in Hs /\ h.id = eventOps + 1
  <2>1. selector \in Nodes \union {NoSelector}   BY BelowIs
  <2> QED  BY <1>1, <2>1 DEF Hs
<1>3. bound' = [bound EXCEPT ![e] = Attach(@, h)]   BY DEF On
<1> HIDE DEF h
<1>4. eventOps \in Nat /\ BoundSound(bound, eventOps)   BY DEF EventsInv
<1>5. BoundSound(bound', eventOps + 1) /\ Descends(bound, bound', eventOps + 1)
  BY <1>2, <1>3, <1>4, BoundAttached
<1> QED  BY <1>5, BoundTurn DEF On

LEMMA OffKeeps ==
  ASSUME EventsInv, NEW e \in Nodes, NEW fn, NEW ns, NEW selector, Off(e, fn, selector, ns)
  PROVE  EventsInv'
<1>1. bound' = [bound EXCEPT ![e] = Detach(@, fn, selector, ns)]   BY DEF Off
<1>2. eventOps \in Nat /\ BoundSound(bound, eventOps)   BY DEF EventsInv
<1>3. BoundSound(bound', eventOps) /\ Descends(bound, bound', eventOps + 1)
  BY <1>1, <1>2, BoundDetached
<1>4. BoundSound(bound', eventOps + 1)   BY <1>2, <1>3, BoundLater
<1> QED  BY <1>3, <1>4, BoundTurn DEF Off

\* A new event.
LEMMA WalkBegins ==
  ASSUME EventsInv, EventTurn, NEW w \in Walks, w.event = eventOps + 1, w.by # "default", Apart(w.path),
         evStack' = <<w>> \o evStack, nested' = (nested \/ evStack # << >>),
         UNCHANGED <<bound, triggered, handled, again>>
  PROVE  EventsInv'
<1>1. /\ eventOps' = eventOps + 1 /\ eventOps' \in Nat /\ triggered = FALSE /\ ~DefaultOnTop(evStack)
      /\ evStack # << >> => evStack[1].does = "handler"
      /\ handled \subseteq (0 .. eventOps') \X (0 .. eventOps')
  BY UsersTurn
<1>2. /\ eventOps \in Nat /\ handled \in SUBSET ((0 .. eventOps) \X (0 .. eventOps))
      /\ Sound(evStack, bound, handled, eventOps) /\ BoundSound(bound, eventOps)
      /\ again = FALSE /\ nested \in BOOLEAN
  BY DEF EventsInv
<1>3. evStack \in Seq(Frames)   BY <1>2 DEF Sound
<1>4. Sound(evStack, bound, handled, eventOps + 1)
  <2>1. eventOps + 1 \in {eventOps, eventOps + 1} /\ Descends(bound, bound, eventOps + 1)
    BY DescendsItself
  <2> QED  BY <1>2, <2>1, SoundDescends
<1>5. \A x : <<w.event, x>> \notin handled
  <2>1. eventOps + 1 \notin 0 .. eventOps   BY <1>2
  <2>2. \A x : <<eventOps + 1, x>> \notin (0 .. eventOps) \X (0 .. eventOps)   BY <2>1
  <2> QED  BY <1>2, <2>2
<1>6. WalkSound(w, bound, handled, eventOps + 1)
  <2>1. w.event <= eventOps + 1   BY <1>2
  <2> QED  BY <1>5, <2>1 DEF WalkSound, Apart
<1>7. ASSUME NEW j \in 1 .. Len(evStack), evStack[j].does = "walk"   PROVE evStack[j].event # w.event
  <2>1. evStack[j] \in Walks   BY <1>3, <1>7, FrameKinds
  <2>2. FrameSound(evStack, j, bound, handled, eventOps)   BY <1>2 DEF Sound
  <2>3. evStack[j].event <= eventOps   BY <1>7, <2>2 DEF FrameSound, WalkSound
  <2>4. evStack[j].event \in Nat   BY <2>1 DEF Walks
  <2>5. evStack[j].event # eventOps + 1   BY <1>2, <2>3, <2>4
  <2> QED  BY <2>5
<1>8. WalkOver(w, evStack, bound, handled, eventOps + 1)   BY <1>1, <1>6, <1>7 DEF WalkOver
<1>9. Sound(<<w>> \o evStack, bound, handled, eventOps + 1)   BY <1>1, <1>4, <1>8, WalkPushed
<1>10. w \in Frames /\ w.does = "walk"   BY DEF Frames, Walks
<1>11. Tops(w, evStack, <<w>> \o evStack)   BY <1>3, <1>10, OnTop
<1>12. evStack'[1] = w   BY <1>11 DEF Tops
<1>13. ~DefaultOnTop(evStack')   BY <1>12 DEF DefaultOnTop
<1>14. ASSUME nested' = FALSE   PROVE OnceStack(evStack', handled') /\ OnceBound(bound', handled')
  <2>1. nested = FALSE /\ evStack = << >>   BY <1>2, <1>14
  <2>2. OnceStack(evStack, handled) /\ OnceBound(bound, handled)   BY <2>1 DEF EventsInv
  <2>3. OnceQueued(w, handled)   BY <1>10 DEF OnceQueued
  <2>4. \A j \in 1 .. Len(evStack) : evStack[j].does # "walk"   BY <2>1
  <2>5. OnceStack(<<w>> \o evStack, handled)   BY <1>3, <1>10, <2>2, <2>3, <2>4, OncePushed
  <2> QED  BY <2>2, <2>5
<1>15. BoundSound(bound', eventOps')   BY <1>1, <1>2, BoundLater
<1>16. Sound(evStack', bound', handled', eventOps')   BY <1>1, <1>9
<1>17. triggered' \in BOOLEAN /\ again' = FALSE /\ nested' \in BOOLEAN
       /\ (triggered' = TRUE <=> DefaultOnTop(evStack'))
  BY <1>1, <1>2, <1>13
<1> QED  BY <1>1, <1>14, <1>15, <1>16, <1>17 DEF EventsInv

LEMMA TriggerKeeps ==
  ASSUME EventsInv, NEW e \in Nodes, NEW ns \in Namespaces, NEW only \in BOOLEAN, Trigger(e, ns, only)
  PROVE  EventsInv'
<1> DEFINE path == IF only THEN <<e>> ELSE Upward(e)
           w == Walk("trigger", eventOps', e, path, ns, ~only /\ e \in Clickable)
<1>1. eventOps \in Nat /\ eventOps' = eventOps + 1   BY DEF EventsInv, Trigger, EventTurn
<1>2. path \in Seq(Nodes) /\ Apart(path)
  <2>1. Upward(e) \in Seq(Nodes) /\ Apart(Upward(e))   BY UpwardIs
  <2>2. <<e>> \in Seq(Nodes) /\ Len(<<e>>) = 1   OBVIOUS
  <2>3. Apart(<<e>>)   BY <2>2 DEF Apart
  <2> QED  BY <2>1, <2>2, <2>3
<1> HIDE DEF path
<1>3. w \in Walks /\ w.event = eventOps + 1 /\ w.by # "default" /\ w.path = path
  BY <1>1, <1>2 DEF Walk, Walks
<1>4. evStack' = <<w>> \o evStack   BY DEF Trigger, path
<1> HIDE DEF w
<1>5. Apart(w.path)   BY <1>2, <1>3
<1>6. EventTurn /\ nested' = (nested \/ evStack # << >>) /\ UNCHANGED <<bound, triggered, handled, again>>
  BY DEF Trigger
<1> QED  BY <1>3, <1>4, <1>5, <1>6, WalkBegins

LEMMA NativeEventKeeps ==
  ASSUME EventsInv, NEW e \in Nodes, NativeEvent(e)
  PROVE  EventsInv'
<1> DEFINE w == Walk("browser", eventOps', e, Upward(e), NoNamespace, FALSE)
<1>1. eventOps \in Nat /\ eventOps' = eventOps + 1   BY DEF EventsInv, NativeEvent, EventTurn
<1>2. Upward(e) \in Seq(Nodes) /\ Apart(Upward(e)) /\ NoNamespace \in Namespaces
  BY UpwardIs, EventsAssumption
<1>3. w \in Walks /\ w.event = eventOps + 1 /\ w.by # "default" /\ w.path = Upward(e)
  BY <1>1, <1>2 DEF Walk, Walks
<1>4. evStack' = <<w>> \o evStack   BY DEF NativeEvent
<1> HIDE DEF w
<1>5. Apart(w.path)   BY <1>2, <1>3
<1>6. EventTurn /\ nested' = (nested \/ evStack # << >>) /\ UNCHANGED <<bound, triggered, handled, again>>
  BY DEF NativeEvent
<1> QED  BY <1>3, <1>4, <1>5, <1>6, WalkBegins

-----------------------------------------------------------------------------
(* What jQuery and the browser do.                                           *)

\* A walk is on top.
LEMMA WalkOnTop ==
  ASSUME EventsInv, Doing("walk")
  PROVE  /\ Head(evStack) \in Walks
         /\ WalkOver(Head(evStack), Tail(evStack), bound, handled, eventOps)
         /\ Sound(Tail(evStack), bound, handled, eventOps) /\ ~DefaultOnTop(Tail(evStack))
         /\ Tail(evStack) \in Seq(Frames)
         /\ triggered = TRUE <=> Head(evStack).by = "default"
<1>1. Sound(evStack, bound, handled, eventOps) /\ (triggered = TRUE <=> DefaultOnTop(evStack))   BY DEF EventsInv
<1>2. evStack # << >> /\ Head(evStack).does = "walk"   BY DEF Doing
<1>3. TopOver(evStack, Tail(evStack), bound, handled, eventOps)   BY <1>1, <1>2, TopOff
<1>4. Head(evStack) = evStack[1]   BY <1>3 DEF TopOver
<1>5. evStack[1].does = "walk"   BY <1>2, <1>4
<1>6. /\ evStack[1] \in Walks /\ WalkOver(evStack[1], Tail(evStack), bound, handled, eventOps)
      /\ Sound(Tail(evStack), bound, handled, eventOps) /\ ~DefaultOnTop(Tail(evStack))
  BY <1>1, <1>2, <1>5, WalkBelow
<1>7. triggered = TRUE <=> evStack[1].by = "default"   BY <1>1, <1>2, <1>5 DEF DefaultOnTop
<1>8. Tail(evStack) \in Seq(Frames)   BY <1>6 DEF Sound
<1> QED  BY <1>4, <1>6, <1>7, <1>8

\* A queue for the event of w at n: handlers of n, none twice, that have not had the event.
QueueFresh(q, n, w, b, done, now) ==
  /\ q \in Seq(Queued) /\ \A i, j \in 1 .. Len(q) : q[i].h.id = q[j].h.id => i = j
  /\ \A i \in 1 .. Len(q) :
       /\ q[i].h.id <= now /\ <<w.event, q[i].h.id>> \notin done
       /\ \A e \in Nodes : \A j \in 1 .. Len(b[e].list) :
            b[e].list[j].id = q[i].h.id => e = n /\ b[e].list[j] = q[i].h
  /\ \A i \in 1 .. Len(q) : \E j \in 1 .. Len(b[n].list) : q[i].h = b[n].list[j]

LEMMA QueueSound ==
  ASSUME EventsInv, NEW w \in Walks, WalkSound(w, bound, handled, eventOps), w.by # "default",
         w.path # << >>, NEW q, q = Queue(Head(w.path), w.target, w.namespace)
  PROVE  QueueFresh(q, Head(w.path), w, bound, handled, eventOps)
<1> DEFINE n == Head(w.path)
<1>1. w.path \in Seq(Nodes) /\ w.target \in Nodes   BY DEF Walks
<1>2. n = w.path[1] /\ 1 \in 1 .. Len(w.path) /\ n \in Nodes   BY <1>1
<1> HIDE DEF n
<1>3. /\ bound \in [Nodes -> Lists] /\ (\A e \in Nodes : ListSound(bound[e])) /\ IdsApart(bound, eventOps)
  BY DEF EventsInv, BoundSound
<1>4. Apart(bound[n].list)
  <2>1. \A i, j \in 1 .. Len(bound[n].list) : bound[n].list[i] = bound[n].list[j] => i = j
    <3> TAKE i, j \in 1 .. Len(bound[n].list)
    <3>1. bound[n].list[i].id = bound[n].list[j].id => i = j   BY <1>2, <1>3 DEF IdsApart
    <3> QED  BY <3>1
  <2> QED  BY <2>1 DEF Apart
<1>5. bound[n] \in Lists /\ ListSound(bound[n])   BY <1>2, <1>3
<1>6. QueueOf(q, Of(bound[n]), Nodes \union {NoSelector})
  <2>1. q = Queue(n, w.target, w.namespace)   BY DEF n
  <2> QED  BY <1>1, <1>2, <1>4, <1>5, <2>1, QueueIs
<1>7. q \in Seq(Queued) /\ \A i, j \in 1 .. Len(q) : q[i].h = q[j].h => i = j   BY <1>6 DEF QueueOf
<1>8. ASSUME NEW i \in 1 .. Len(q)   PROVE \E j \in 1 .. Len(bound[n].list) : q[i].h = bound[n].list[j]
  <2>1. q[i].h \in Of(bound[n])   BY <1>6 DEF QueueOf
  <2> QED  BY <2>1 DEF Of
<1>9. ASSUME NEW i \in 1 .. Len(q), NEW j \in 1 .. Len(q), q[i].h.id = q[j].h.id   PROVE i = j
  <2>1. PICK k \in 1 .. Len(bound[n].list) : q[i].h = bound[n].list[k]   BY <1>8
  <2>2. PICK l \in 1 .. Len(bound[n].list) : q[j].h = bound[n].list[l]   BY <1>8
  <2>3. bound[n].list[k].id = bound[n].list[l].id   BY <1>9, <2>1, <2>2, Zenon
  <2>4. k = l   BY <1>2, <1>3, <2>3 DEF IdsApart
  <2>5. q[i].h = q[j].h   BY <2>1, <2>2, <2>4
  <2> QED  BY <1>7, <2>5
<1>10. ASSUME NEW i \in 1 .. Len(q)
       PROVE  /\ q[i].h.id <= eventOps /\ <<w.event, q[i].h.id>> \notin handled
              /\ \A e \in Nodes : \A j \in 1 .. Len(bound[e].list) :
                   bound[e].list[j].id = q[i].h.id => e = n /\ bound[e].list[j] = q[i].h
  <2>1. PICK k \in 1 .. Len(bound[n].list) : q[i].h = bound[n].list[k]   BY <1>8
  <2>2. bound[n].list[k].id <= eventOps   BY <1>2, <1>3 DEF IdsApart
  <2>3. <<w.event, bound[n].list[k].id>> \notin handled   BY <1>2 DEF WalkSound
  <2>4. ASSUME NEW e \in Nodes, NEW j \in 1 .. Len(bound[e].list), bound[e].list[j].id = q[i].h.id
        PROVE  e = n /\ bound[e].list[j] = q[i].h
    <3>1. bound[e].list[j].id = bound[n].list[k].id   BY <2>1, <2>4, Zenon
    <3>2. e = n /\ j = k   BY <1>2, <1>3, <3>1 DEF IdsApart
    <3> QED  BY <2>1, <3>2
  <2> QED  BY <2>1, <2>2, <2>3, <2>4
<1>11. QueueFresh(q, n, w, bound, handled, eventOps)   BY <1>7, <1>8, <1>9, <1>10 DEF QueueFresh
<1> QED  BY <1>11 DEF n

LEMMA WalkUpKeeps == ASSUME EventsInv, WalkUp PROVE EventsInv'
<1> DEFINE w == Head(evStack)
           t == Tail(evStack)
           n == Head(w.path)
           m == [w EXCEPT !.path = Tail(@)]
           moved == <<m>> \o t
           d == [does |-> "dispatch", event |-> w.event, on |-> n, queue |-> Queue(n, w.target, w.namespace)]
<1>1. /\ w \in Walks /\ WalkOver(w, t, bound, handled, eventOps)
      /\ Sound(t, bound, handled, eventOps) /\ ~DefaultOnTop(t) /\ t \in Seq(Frames)
      /\ triggered = TRUE <=> w.by = "default"
  BY WalkOnTop DEF WalkUp
<1>2. /\ w.path # << >> /\ UNCHANGED <<bound, triggered, eventOps, handled, again, nested>>
      /\ evStack' = IF bound[n].listener /\ ~triggered THEN <<d>> \o moved ELSE moved
  BY DEF WalkUp
<1>13. evStack # << >> /\ evStack \in Seq(Frames) /\ evStack[1] = w /\ w.does = "walk"
  <2>1. Sound(evStack, bound, handled, eventOps) /\ evStack # << >> /\ w.does = "walk"
    BY DEF EventsInv, WalkUp, Doing
  <2>2. TopOver(evStack, t, bound, handled, eventOps)   BY <2>1, TopOff
  <2> HIDE DEF w
  <2> QED  BY <2>1, <2>2 DEF TopOver, Sound, w
<1>14. /\ BoundSound(bound, eventOps) /\ again = FALSE /\ triggered \in BOOLEAN /\ nested \in BOOLEAN
       /\ eventOps \in Nat /\ handled \subseteq (0 .. eventOps) \X (0 .. eventOps)
  BY DEF EventsInv
<1>15. nested = FALSE =>
         /\ OnceBound(bound, handled) /\ OnceStack(t, handled)
         /\ \A j \in 1 .. Len(t) : t[j].does # "walk"
  <2> SUFFICES ASSUME nested = FALSE
               PROVE  /\ OnceBound(bound, handled) /\ OnceStack(t, handled)
                      /\ \A j \in 1 .. Len(t) : t[j].does # "walk"
    OBVIOUS
  <2>1. OnceStack(evStack, handled) /\ OnceBound(bound, handled)   BY DEF EventsInv
  <2> HIDE DEF w
  <2> QED  BY <1>13, <2>1, OnceBelow
<1> HIDE DEF w, t
<1>3. /\ w.path \in Seq(Nodes) /\ n = w.path[1] /\ n \in Nodes /\ Len(w.path) \in Nat /\ Len(w.path) > 0
      /\ Tail(w.path) \in Seq(Nodes) /\ Len(Tail(w.path)) = Len(w.path) - 1
      /\ \A i \in 1 .. Len(Tail(w.path)) : Tail(w.path)[i] = w.path[i + 1]
  <2>1. w.path \in Seq(Nodes)   BY <1>1 DEF Walks
  <2> QED  BY <1>2, <2>1, HeadTailProperties
<1> HIDE DEF n
<1>4. /\ m \in Walks /\ m.path = Tail(w.path) /\ m.event = w.event /\ m.by = w.by /\ m.does = "walk"
      /\ m \in Frames
  BY <1>1, <1>3 DEF Walks, Frames
<1> HIDE DEF m
<1>5. \A i \in 1 .. Len(m.path) : i + 1 \in 1 .. Len(w.path) /\ m.path[i] = w.path[i + 1] /\ i + 1 # 1
  BY <1>3, <1>4
<1>6. /\ WalkSound(w, bound, handled, eventOps) /\ (t # << >> => t[1].does = "handler")
      /\ \A j \in 1 .. Len(t) : t[j].does = "walk" => t[j].event # w.event
  BY <1>1 DEF WalkOver
<1>7. WalkSound(m, bound, handled, eventOps)
  <2>1. w.event <= eventOps /\ \A i, j \in 1 .. Len(w.path) : w.path[i] = w.path[j] => i = j
    BY <1>6 DEF WalkSound
  <2>2. ASSUME NEW i \in 1 .. Len(m.path), NEW j \in 1 .. Len(m.path), m.path[i] = m.path[j]   PROVE i = j
    <3>1. i + 1 = j + 1   BY <1>5, <2>1, <2>2
    <3> QED  BY <3>1
  <2>3. ASSUME m.by # "default", NEW i \in 1 .. Len(m.path), NEW j \in 1 .. Len(bound[m.path[i]].list)
        PROVE  <<m.event, bound[m.path[i]].list[j].id>> \notin handled
    BY <1>4, <1>5, <1>6, <2>3 DEF WalkSound
  <2> QED  BY <1>4, <2>1, <2>2, <2>3 DEF WalkSound
<1>8. WalkOver(m, t, bound, handled, eventOps)   BY <1>4, <1>6, <1>7 DEF WalkOver
<1>9. Sound(moved, bound, handled, eventOps)   BY <1>1, <1>4, <1>8, WalkPushed
<1>10. Tops(m, t, moved)   BY <1>1, <1>4, OnTop
<1>11. moved \in Seq(Frames) /\ moved # << >> /\ moved[1] = m   BY <1>10 DEF Tops
<1>16. nested = FALSE => OnceStack(moved, handled)
  <2>1. OnceQueued(m, handled)   BY <1>4 DEF OnceQueued
  <2> QED  BY <1>1, <1>4, <1>15, <2>1, OncePushed
<1> HIDE DEF moved
<1>17. DefaultOnTop(moved) <=> w.by = "default"   BY <1>4, <1>11 DEF DefaultOnTop
<1>18. CASE ~(bound[n].listener /\ ~triggered)
  <2>1. evStack' = moved   BY <1>2, <1>18
  <2>2. Sound(evStack', bound', handled', eventOps')   BY <1>2, <1>9, <2>1
  <2>3. triggered' = TRUE <=> DefaultOnTop(evStack')   BY <1>1, <1>2, <1>17, <2>1
  <2>4. nested' = FALSE => OnceStack(evStack', handled') /\ OnceBound(bound', handled')
    BY <1>2, <1>15, <1>16, <2>1
  <2>5. /\ BoundSound(bound', eventOps') /\ again' = FALSE /\ triggered' \in BOOLEAN /\ nested' \in BOOLEAN
        /\ eventOps' \in Nat /\ handled' \subseteq (0 .. eventOps') \X (0 .. eventOps')
    BY <1>2, <1>14
  <2> QED  BY <2>2, <2>3, <2>4, <2>5 DEF EventsInv
<1>19. CASE bound[n].listener /\ ~triggered
  <2> DEFINE q == Queue(n, w.target, w.namespace)
  <2>1. evStack' = <<d>> \o moved   BY <1>2, <1>19
  <2>2. triggered = FALSE /\ w.by # "default"   BY <1>1, <1>14, <1>19
  <2>3. /\ q \in Seq(Queued) /\ \A i, j \in 1 .. Len(q) : q[i].h.id = q[j].h.id => i = j
        /\ \A i \in 1 .. Len(q) :
             /\ q[i].h.id <= eventOps /\ <<w.event, q[i].h.id>> \notin handled
             /\ \A e \in Nodes : \A j \in 1 .. Len(bound[e].list) :
                  bound[e].list[j].id = q[i].h.id => e = n /\ bound[e].list[j] = q[i].h
        /\ \A i \in 1 .. Len(q) : \E j \in 1 .. Len(bound[n].list) : q[i].h = bound[n].list[j]
    <3> DEFINE p == q
    <3>1. p = Queue(Head(w.path), w.target, w.namespace)   BY DEF n
    <3> HIDE DEF p
    <3>2. QueueFresh(p, Head(w.path), w, bound, handled, eventOps)
      BY <1>1, <1>2, <1>6, <2>2, <3>1, QueueSound
    <3>3. QueueFresh(p, n, w, bound, handled, eventOps)   BY <3>2 DEF n
    <3> QED  BY <3>3 DEF p, QueueFresh
  <2> HIDE DEF q
  <2>4. d = [does |-> "dispatch", event |-> w.event, on |-> n, queue |-> q]   BY DEF q
  <2> HIDE DEF d
  <2>5. w.event \in Nat   BY <1>1 DEF Walks
  <2>6. /\ d \in Dispatches /\ d.event = w.event /\ d.on = n /\ d.queue = q /\ d.does = "dispatch"
        /\ d \in Frames
    BY <1>3, <2>3, <2>4, <2>5 DEF Dispatches, Frames
  <2>7. \A i \in 1 .. Len(m.path) : m.path[i] # d.on
    <3>1. \A i, j \in 1 .. Len(w.path) : w.path[i] = w.path[j] => i = j   BY <1>6 DEF WalkSound
    <3>2. 1 \in 1 .. Len(w.path)   BY <1>3
    <3>3. ASSUME NEW i \in 1 .. Len(m.path), m.path[i] = d.on   PROVE FALSE
      <4>1. i + 1 \in 1 .. Len(w.path) /\ m.path[i] = w.path[i + 1] /\ i + 1 # 1   BY <1>5
      <4>2. w.path[i + 1] = w.path[1]   BY <1>3, <2>6, <3>3, <4>1
      <4> QED  BY <3>1, <3>2, <4>1, <4>2
    <3> QED  BY <3>3
  <2>8. DispatchSound(d, m, bound, handled, eventOps)
    BY <1>4, <2>2, <2>3, <2>6, <2>7 DEF DispatchSound
  <2>9. ~DefaultOnTop(moved)   BY <1>17, <2>2
  <2>10. Sound(<<d>> \o moved, bound, handled, eventOps)
    BY <1>4, <1>9, <1>11, <2>6, <2>8, <2>9, DispatchPushed
  <2>11. Tops(d, moved, <<d>> \o moved)   BY <1>11, <2>6, OnTop
  <2>12. evStack'[1] = d   BY <2>1, <2>11 DEF Tops
  <2>13. ~DefaultOnTop(evStack')   BY <2>6, <2>12 DEF DefaultOnTop
  <2>14. ASSUME nested = FALSE   PROVE OnceStack(<<d>> \o moved, handled)
    <3>1. ASSUME NEW k \in 1 .. Len(d.queue), d.queue[k].h.one = TRUE, NEW r \in handled
          PROVE  r[2] # d.queue[k].h.id
      <4>1. PICK j \in 1 .. Len(bound[n].list) : d.queue[k].h = bound[n].list[j]   BY <2>3, <2>6
      <4>2. OnceBound(bound, handled)   BY <1>15, <2>14
      <4> QED  BY <1>3, <3>1, <4>1, <4>2 DEF OnceBound
    <3>2. OnceQueued(d, handled)   BY <3>1 DEF OnceQueued
    <3>3. d.does # "walk"   BY <2>6
    <3> QED  BY <1>11, <1>16, <2>6, <2>14, <3>2, <3>3, OncePushed
  <2>15. Sound(evStack', bound', handled', eventOps')   BY <1>2, <2>1, <2>10
  <2>16. triggered' = TRUE <=> DefaultOnTop(evStack')   BY <1>2, <2>2, <2>13
  <2>17. nested' = FALSE => OnceStack(evStack', handled') /\ OnceBound(bound', handled')
    BY <1>2, <1>15, <2>1, <2>14
  <2>18. /\ BoundSound(bound', eventOps') /\ again' = FALSE /\ triggered' \in BOOLEAN /\ nested' \in BOOLEAN
         /\ eventOps' \in Nat /\ handled' \subseteq (0 .. eventOps') \X (0 .. eventOps')
    BY <1>2, <1>14
  <2> QED  BY <2>15, <2>16, <2>17, <2>18 DEF EventsInv
<1> QED  BY <1>18, <1>19

LEMMA WalkEndsKeeps == ASSUME EventsInv, WalkEnds PROVE EventsInv'
<1> DEFINE w == Head(evStack)
           t == Tail(evStack)
           v == Walk("default", w.event, w.target, Upward(w.target), NoNamespace, FALSE)
<1>1. /\ w \in Walks /\ WalkOver(w, t, bound, handled, eventOps)
      /\ Sound(t, bound, handled, eventOps) /\ ~DefaultOnTop(t) /\ t \in Seq(Frames)
      /\ triggered = TRUE <=> w.by = "default"
  BY WalkOnTop DEF WalkEnds
<1>2. /\ UNCHANGED <<bound, eventOps, handled, again, nested>>
      /\ \/ evStack' = <<v>> \o t /\ triggered' = TRUE
         \/ evStack' = t /\ triggered' = (triggered /\ w.by # "default")
  BY DEF WalkEnds
<1>3. evStack # << >> /\ evStack \in Seq(Frames) /\ evStack[1] = w /\ w.does = "walk"
  <2>1. Sound(evStack, bound, handled, eventOps) /\ evStack # << >> /\ w.does = "walk"
    BY DEF EventsInv, WalkEnds, Doing
  <2>2. TopOver(evStack, t, bound, handled, eventOps)   BY <2>1, TopOff
  <2> HIDE DEF w
  <2> QED  BY <2>1, <2>2 DEF TopOver, Sound, w
<1>4. /\ BoundSound(bound, eventOps) /\ again = FALSE /\ triggered \in BOOLEAN /\ nested \in BOOLEAN
      /\ eventOps \in Nat /\ handled \subseteq (0 .. eventOps) \X (0 .. eventOps)
  BY DEF EventsInv
<1>5. nested = FALSE =>
        /\ OnceBound(bound, handled) /\ OnceStack(t, handled)
        /\ \A j \in 1 .. Len(t) : t[j].does # "walk"
  <2> SUFFICES ASSUME nested = FALSE
               PROVE  /\ OnceBound(bound, handled) /\ OnceStack(t, handled)
                      /\ \A j \in 1 .. Len(t) : t[j].does # "walk"
    OBVIOUS
  <2>1. OnceStack(evStack, handled) /\ OnceBound(bound, handled)   BY DEF EventsInv
  <2> HIDE DEF w
  <2> QED  BY <1>3, <2>1, OnceBelow
<1> HIDE DEF w, t
<1>6. w.target \in Nodes /\ w.event \in Nat   BY <1>1 DEF Walks
<1>7. Upward(w.target) \in Seq(Nodes) /\ Apart(Upward(w.target))   BY <1>6, UpwardIs
<1>8. NoNamespace \in Namespaces   BY EventsAssumption
<1>9. /\ v \in Walks /\ v.event = w.event /\ v.path = Upward(w.target) /\ v.by = "default" /\ v.does = "walk"
      /\ v \in Frames
  BY <1>6, <1>7, <1>8 DEF Walk, Walks, Frames
<1> HIDE DEF v
<1>10. WalkOver(v, t, bound, handled, eventOps)
  <2>1. w.event <= eventOps   BY <1>1 DEF WalkOver, WalkSound
  <2>2. WalkSound(v, bound, handled, eventOps)   BY <1>7, <1>9, <2>1 DEF WalkSound, Apart
  <2> QED  BY <1>1, <1>9, <2>2 DEF WalkOver
<1>11. Sound(<<v>> \o t, bound, handled, eventOps)   BY <1>1, <1>9, <1>10, WalkPushed
<1>12. Tops(v, t, <<v>> \o t)   BY <1>1, <1>9, OnTop
<1>13. DefaultOnTop(<<v>> \o t)   BY <1>9, <1>12 DEF Tops, DefaultOnTop
<1>14. nested = FALSE => OnceStack(<<v>> \o t, handled)
  <2>1. OnceQueued(v, handled)   BY <1>9 DEF OnceQueued
  <2> QED  BY <1>1, <1>5, <1>9, <2>1, OncePushed
<1>15. /\ BoundSound(bound', eventOps') /\ again' = FALSE /\ nested' \in BOOLEAN
       /\ eventOps' \in Nat /\ handled' \subseteq (0 .. eventOps') \X (0 .. eventOps')
  BY <1>2, <1>4
<1>16. CASE evStack' = <<v>> \o t /\ triggered' = TRUE
  <2>1. Sound(evStack', bound', handled', eventOps')   BY <1>2, <1>11, <1>16
  <2>2. triggered' \in BOOLEAN /\ (triggered' = TRUE <=> DefaultOnTop(evStack'))   BY <1>13, <1>16
  <2>3. nested' = FALSE => OnceStack(evStack', handled') /\ OnceBound(bound', handled')
    BY <1>2, <1>5, <1>14, <1>16
  <2> QED  BY <1>15, <2>1, <2>2, <2>3 DEF EventsInv
<1>17. CASE evStack' = t /\ triggered' = (triggered /\ w.by # "default")
  <2>1. Sound(evStack', bound', handled', eventOps')   BY <1>1, <1>2, <1>17
  <2>2. triggered' = FALSE   BY <1>1, <1>4, <1>17
  <2>3. triggered' \in BOOLEAN /\ (triggered' = TRUE <=> DefaultOnTop(evStack'))   BY <1>1, <1>17, <2>2
  <2>4. nested' = FALSE => OnceStack(evStack', handled') /\ OnceBound(bound', handled')
    BY <1>2, <1>5, <1>17
  <2> QED  BY <1>15, <2>1, <2>3, <2>4 DEF EventsInv
<1> QED  BY <1>2, <1>16, <1>17

\* A dispatch is on top of its walk.
LEMMA DispatchOnTop ==
  ASSUME EventsInv, Doing("dispatch")
  PROVE  /\ Head(evStack) \in Dispatches /\ triggered = FALSE
         /\ Tail(evStack) # << >> /\ Tail(evStack)[1].does = "walk"
         /\ DispatchSound(Head(evStack), Tail(evStack)[1], bound, handled, eventOps)
         /\ Sound(Tail(evStack), bound, handled, eventOps) /\ ~DefaultOnTop(Tail(evStack))
         /\ Tail(evStack) \in Seq(Frames)
<1>1. /\ Sound(evStack, bound, handled, eventOps) /\ (triggered = TRUE <=> DefaultOnTop(evStack))
      /\ triggered \in BOOLEAN
  BY DEF EventsInv
<1>2. evStack # << >> /\ Head(evStack).does = "dispatch"   BY DEF Doing
<1>3. TopOver(evStack, Tail(evStack), bound, handled, eventOps)   BY <1>1, <1>2, TopOff
<1>4. Head(evStack) = evStack[1]   BY <1>3 DEF TopOver
<1>5. evStack[1].does = "dispatch"   BY <1>2, <1>4
<1>6. /\ evStack[1] \in Dispatches /\ Tail(evStack) # << >> /\ Tail(evStack)[1].does = "walk"
      /\ DispatchSound(evStack[1], Tail(evStack)[1], bound, handled, eventOps)
      /\ Sound(Tail(evStack), bound, handled, eventOps) /\ ~DefaultOnTop(Tail(evStack))
  BY <1>1, <1>2, <1>5, DispatchBelow
<1>7. triggered = FALSE   BY <1>1, <1>5 DEF DefaultOnTop
<1>8. Tail(evStack) \in Seq(Frames)   BY <1>6 DEF Sound
<1> QED  BY <1>4, <1>6, <1>7, <1>8

\* What is below the top of the stack, of events made one at a time.
LEMMA OnceUnderTop ==
  ASSUME EventsInv, evStack # << >>, nested = FALSE
  PROVE  /\ OnceBound(bound, handled) /\ OnceStack(Tail(evStack), handled)
         /\ OnceQueued(Head(evStack), handled)
<1>1. Sound(evStack, bound, handled, eventOps) /\ OnceStack(evStack, handled) /\ OnceBound(bound, handled)
  BY DEF EventsInv
<1>2. evStack \in Seq(Frames)   BY <1>1 DEF Sound
<1>3. OnceStack(Tail(evStack), handled) /\ OnceQueued(evStack[1], handled)   BY <1>1, <1>2, OnceBelow
<1>4. Head(evStack) = evStack[1]   BY <1>2
<1> QED  BY <1>1, <1>3, <1>4

LEMMA DispatchEndsKeeps == ASSUME EventsInv, DispatchEnds PROVE EventsInv'
<1> DEFINE t == Tail(evStack)
<1>1. evStack' = t /\ UNCHANGED <<bound, triggered, eventOps, handled, again, nested>>
      /\ Doing("dispatch") /\ evStack # << >>
  BY DEF DispatchEnds, Doing
<1>2. triggered = FALSE /\ Sound(t, bound, handled, eventOps) /\ ~DefaultOnTop(t)
  BY <1>1, DispatchOnTop
<1>3. nested = FALSE => OnceStack(t, handled) /\ OnceBound(bound, handled)   BY <1>1, OnceUnderTop
<1> HIDE DEF t
<1>4. /\ BoundSound(bound', eventOps') /\ again' = FALSE /\ triggered' \in BOOLEAN /\ nested' \in BOOLEAN
      /\ eventOps' \in Nat /\ handled' \subseteq (0 .. eventOps') \X (0 .. eventOps')
  BY <1>1 DEF EventsInv
<1>5. Sound(evStack', bound', handled', eventOps')   BY <1>1, <1>2
<1>6. triggered' = TRUE <=> DefaultOnTop(evStack')   BY <1>1, <1>2
<1>7. nested' = FALSE => OnceStack(evStack', handled') /\ OnceBound(bound', handled')   BY <1>1, <1>3
<1> QED  BY <1>4, <1>5, <1>6, <1>7 DEF EventsInv

\* The event of the walk on top has reached x, which is not on the way it still goes.
LEMMA DoneAdded ==
  ASSUME NEW b, NEW done, NEW now, NEW t, Sound(t, b, done, now), t # << >>, t[1].does = "walk", NEW x,
         \A i \in 1 .. Len(t[1].path) : \A j \in 1 .. Len(b[t[1].path[i]].list) :
           b[t[1].path[i]].list[j].id # x
  PROVE  Sound(t, b, done \union {<<t[1].event, x>>}, now)
<1> DEFINE p == <<t[1].event, x>>
<1>1. t \in Seq(Frames) /\ \A i \in 1 .. Len(t) : FrameSound(t, i, b, done, now)   BY DEF Sound
<1>2. 1 \in 1 .. Len(t) /\ Len(t) \in Nat   BY <1>1
<1>3. ASSUME NEW i \in 1 .. Len(t), i # 1, t[i].does = "walk"   PROVE \A y : <<t[i].event, y>> # p
  <2>1. FrameSound(t, 1, b, done, now)   BY <1>1, <1>2
  <2>2. i \in 1 + 1 .. Len(t)   BY <1>2, <1>3
  <2>3. t[i].event # t[1].event   BY <1>3, <2>1, <2>2 DEF FrameSound
  <2> QED  BY <2>3
<1>4. ASSUME NEW i \in 1 .. Len(t), t[i].does = "walk"   PROVE WalkSound(t[i], b, done \union {p}, now)
  <2>1. WalkSound(t[i], b, done, now)
    <3>1. FrameSound(t, i, b, done, now)   BY <1>1
    <3> QED  BY <1>4, <3>1 DEF FrameSound
  <2>2. ASSUME t[i].by # "default", NEW k \in 1 .. Len(t[i].path), NEW j \in 1 .. Len(b[t[i].path[k]].list)
        PROVE  <<t[i].event, b[t[i].path[k]].list[j].id>> \notin done \union {p}
    <3>1. <<t[i].event, b[t[i].path[k]].list[j].id>> \notin done   BY <2>1, <2>2 DEF WalkSound
    <3>2. <<t[i].event, b[t[i].path[k]].list[j].id>> # p
      <4>1. CASE i = 1   BY <4>1
      <4>2. CASE i # 1   BY <1>3, <1>4, <4>2
      <4> QED  BY <4>1, <4>2
    <3> QED  BY <3>1, <3>2
  <2> QED  BY <2>1, <2>2 DEF WalkSound
<1>5. ASSUME NEW i \in 1 .. Len(t), t[i].does = "dispatch"
      PROVE  i < Len(t) /\ t[i + 1].does = "walk" /\ DispatchSound(t[i], t[i + 1], b, done \union {p}, now)
  <2>1. FrameSound(t, i, b, done, now)   BY <1>1
  <2>2. i < Len(t) /\ t[i + 1].does = "walk" /\ DispatchSound(t[i], t[i + 1], b, done, now)
    BY <1>5, <2>1 DEF FrameSound
  <2>3. i + 1 \in 1 .. Len(t) /\ i + 1 # 1   BY <1>2, <2>2
  <2>4. \A y : <<t[i + 1].event, y>> # p   BY <1>3, <2>2, <2>3
  <2>5. t[i].event = t[i + 1].event   BY <2>2 DEF DispatchSound
  <2>6. \A y : <<t[i].event, y>> # p   BY <2>4, <2>5
  <2> HIDE DEF p
  <2>7. DispatchSound(t[i], t[i + 1], b, done \union {p}, now)   BY <2>2, <2>6 DEF DispatchSound
  <2> QED  BY <2>2, <2>7
<1>6. ASSUME NEW i \in 1 .. Len(t)   PROVE FrameSound(t, i, b, done \union {p}, now)
  <2>1. FrameSound(t, i, b, done, now)   BY <1>1
  <2> HIDE DEF p
  <2> QED  BY <1>4, <1>5, <2>1 DEF FrameSound
<1> QED  BY <1>1, <1>6 DEF Sound

\* The next handler of a queue, and those after it.
LEMMA QueueMoves ==
  ASSUME NEW d \in Dispatches, d.queue # << >>
  PROVE  /\ d.queue[1] = Head(d.queue) /\ 1 \in 1 .. Len(d.queue) /\ Head(d.queue) \in Queued
         /\ [d EXCEPT !.queue = Tail(@)] \in Dispatches
         /\ [d EXCEPT !.queue = Tail(@)].event = d.event /\ [d EXCEPT !.queue = Tail(@)].on = d.on
         /\ [d EXCEPT !.queue = Tail(@)].does = "dispatch"
         /\ \A k \in 1 .. Len([d EXCEPT !.queue = Tail(@)].queue) :
              /\ k + 1 \in 1 .. Len(d.queue) /\ k + 1 # 1
              /\ [d EXCEPT !.queue = Tail(@)].queue[k] = d.queue[k + 1]
<1>1. d.queue \in Seq(Queued) /\ d.event \in Nat /\ d.on \in Nodes /\ d.does = "dispatch"   BY DEF Dispatches
<1>2. /\ Head(d.queue) = d.queue[1] /\ Head(d.queue) \in Queued /\ Len(d.queue) \in Nat /\ Len(d.queue) > 0
      /\ Tail(d.queue) \in Seq(Queued) /\ Len(Tail(d.queue)) = Len(d.queue) - 1
      /\ \A i \in 1 .. Len(Tail(d.queue)) : Tail(d.queue)[i] = d.queue[i + 1]
  BY <1>1, HeadTailProperties
<1> DEFINE d2 == [d EXCEPT !.queue = Tail(@)]
<1>3. /\ d2 \in Dispatches /\ d2.event = d.event /\ d2.on = d.on /\ d2.does = "dispatch"
      /\ d2.queue = Tail(d.queue)
  BY <1>1, <1>2 DEF Dispatches
<1> HIDE DEF d2
<1>4. \A k \in 1 .. Len(d2.queue) : k + 1 \in 1 .. Len(d.queue) /\ k + 1 # 1 /\ d2.queue[k] = d.queue[k + 1]
  BY <1>2, <1>3
<1> QED  BY <1>2, <1>3, <1>4 DEF d2

\* A dispatch goes on to the handlers after the first one, which has had the event.
LEMMA DispatchMoves ==
  ASSUME NEW b, NEW done, NEW now, NEW w, NEW d \in Dispatches, d.queue # << >>,
         DispatchSound(d, w, b, done, now)
  PROVE  DispatchSound([d EXCEPT !.queue = Tail(@)], w, b, done \union {<<d.event, Head(d.queue).h.id>>}, now)
<1> DEFINE d2 == [d EXCEPT !.queue = Tail(@)]
           x == Head(d.queue).h.id
<1>1. /\ d.queue[1] = Head(d.queue) /\ 1 \in 1 .. Len(d.queue) /\ d2.event = d.event /\ d2.on = d.on
      /\ \A k \in 1 .. Len(d2.queue) : k + 1 \in 1 .. Len(d.queue) /\ k + 1 # 1 /\ d2.queue[k] = d.queue[k + 1]
  BY QueueMoves
<1> HIDE DEF d2
<1>2. /\ d.event = w.event /\ w.by # "default" /\ \A i \in 1 .. Len(w.path) : w.path[i] # d.on
      /\ \A i, j \in 1 .. Len(d.queue) : d.queue[i].h.id = d.queue[j].h.id => i = j
  BY DEF DispatchSound
<1>3. ASSUME NEW i \in 1 .. Len(d2.queue), NEW j \in 1 .. Len(d2.queue), d2.queue[i].h.id = d2.queue[j].h.id
      PROVE  i = j
  <2>1. d.queue[i + 1].h.id = d.queue[j + 1].h.id   BY <1>1, <1>3
  <2>2. i + 1 = j + 1   BY <1>1, <1>2, <2>1
  <2> QED  BY <2>2
<1>4. ASSUME NEW k \in 1 .. Len(d2.queue)
      PROVE  /\ d2.queue[k].h.id <= now
             /\ <<d2.event, d2.queue[k].h.id>> \notin done \union {<<d.event, x>>}
             /\ \A e \in Nodes : \A j \in 1 .. Len(b[e].list) :
                  b[e].list[j].id = d2.queue[k].h.id => e = d2.on /\ b[e].list[j] = d2.queue[k].h
  <2>1. k + 1 \in 1 .. Len(d.queue) /\ k + 1 # 1 /\ d2.queue[k] = d.queue[k + 1]   BY <1>1
  <2>2. d.queue[k + 1].h.id <= now /\ <<d.event, d.queue[k + 1].h.id>> \notin done   BY <2>1 DEF DispatchSound
  <2>3. d.queue[k + 1].h.id # d.queue[1].h.id   BY <1>1, <1>2, <2>1
  <2>4. d2.queue[k].h.id # x   BY <1>1, <2>1, <2>3
  <2>5. \A e \in Nodes : \A j \in 1 .. Len(b[e].list) :
          b[e].list[j].id = d.queue[k + 1].h.id => e = d.on /\ b[e].list[j] = d.queue[k + 1].h
    BY <2>1 DEF DispatchSound
  <2> HIDE DEF x
  <2> QED  BY <1>1, <2>1, <2>2, <2>4, <2>5
<1>5. DispatchSound(d2, w, b, done \union {<<d.event, x>>}, now)
  BY <1>1, <1>2, <1>3, <1>4 DEF DispatchSound
<1> QED  BY <1>5 DEF d2

\* The handlers of one() left are not those that ran.
LEMMA OnceTaken ==
  ASSUME EventsInv, nested = FALSE, NEW d \in Dispatches, d.queue # << >>, NEW w,
         NEW c, DispatchSound(d, w, c, handled, eventOps), Descends(bound, c, eventOps + 1),
         NEW q, q = Head(d.queue), q.h.one = TRUE => \A i \in 1 .. Len(c[d.on].list) : c[d.on].list[i] # q.h
  PROVE  OnceBound(c, handled \union {<<d.event, q.h.id>>})
<1>1. eventOps \in Nat /\ handled \in SUBSET ((0 .. eventOps) \X (0 .. eventOps)) /\ OnceBound(bound, handled)
  BY DEF EventsInv
<1>2. OnceBound(c, handled)   BY <1>1, OnceDescends
<1>3. d.queue[1] = q /\ 1 \in 1 .. Len(d.queue)   BY QueueMoves
<1>4. ASSUME NEW e \in Nodes, NEW i \in 1 .. Len(c[e].list), c[e].list[i].one = TRUE,
             NEW r \in handled \union {<<d.event, q.h.id>>}
      PROVE  r[2] # c[e].list[i].id
  <2>1. CASE r \in handled   BY <1>2, <1>4, <2>1 DEF OnceBound
  <2>2. CASE r = <<d.event, q.h.id>>
    <3>1. ASSUME c[e].list[i].id = q.h.id   PROVE FALSE
      <4>0. \A f \in Nodes : \A j \in 1 .. Len(c[f].list) :
              c[f].list[j].id = d.queue[1].h.id => f = d.on /\ c[f].list[j] = d.queue[1].h
        BY <1>3 DEF DispatchSound
      <4>1. e = d.on /\ c[e].list[i] = q.h   BY <1>3, <3>1, <4>0
      <4>2. q.h.one = TRUE   BY <1>4, <4>1
      <4> QED  BY <4>1, <4>2
    <3> QED  BY <2>2, <3>1
  <2> QED  BY <2>1, <2>2
<1> QED  BY <1>4 DEF OnceBound

\* A walk on top is the only one, and no dispatch is below it.
LEMMA OnceBelowDone ==
  ASSUME NEW b, NEW done, NEW now, NEW t, Sound(t, b, done, now), t # << >>, t[1].does = "walk",
         OnceStack(t, done), NEW more
  PROVE  OnceStack(t, more)
<1>1. t \in Seq(Frames) /\ \A i \in 1 .. Len(t) : FrameSound(t, i, b, done, now)   BY DEF Sound
<1>2. 1 \in 1 .. Len(t) /\ Len(t) \in Nat   BY <1>1
<1>3. OneWalk(t)   BY DEF OnceStack
<1>4. ASSUME NEW i \in 1 .. Len(t)   PROVE OnceQueued(t[i], more)
  <2>1. ASSUME t[i].does = "dispatch"   PROVE FALSE
    <3>1. FrameSound(t, i, b, done, now)   BY <1>1
    <3>2. i < Len(t) /\ t[i + 1].does = "walk"   BY <2>1, <3>1 DEF FrameSound
    <3>3. i + 1 \in 1 .. Len(t) /\ i + 1 # 1   BY <1>2, <3>2
    <3> QED  BY <1>2, <1>3, <3>2, <3>3 DEF OneWalk
  <2> QED  BY <2>1 DEF OnceQueued
<1> QED  BY <1>3, <1>4 DEF OnceStack

\* What the queue of the rest has is not what has been taken from it.
LEMMA OnceMoves ==
  ASSUME NEW b, NEW done, NEW now, NEW w, NEW d \in Dispatches, d.queue # << >>,
         DispatchSound(d, w, b, done, now), OnceQueued(d, done)
  PROVE  OnceQueued([d EXCEPT !.queue = Tail(@)], done \union {<<d.event, Head(d.queue).h.id>>})
<1> DEFINE d2 == [d EXCEPT !.queue = Tail(@)]
           x == Head(d.queue).h.id
<1>1. /\ d.queue[1] = Head(d.queue) /\ 1 \in 1 .. Len(d.queue)
      /\ \A k \in 1 .. Len(d2.queue) : k + 1 \in 1 .. Len(d.queue) /\ k + 1 # 1 /\ d2.queue[k] = d.queue[k + 1]
  BY QueueMoves
<1>2. d.does = "dispatch"   BY DEF Dispatches
<1> HIDE DEF d2
<1>3. ASSUME NEW k \in 1 .. Len(d2.queue), d2.queue[k].h.one = TRUE, NEW r \in done \union {<<d.event, x>>}
      PROVE  r[2] # d2.queue[k].h.id
  <2>1. k + 1 \in 1 .. Len(d.queue) /\ k + 1 # 1 /\ d2.queue[k] = d.queue[k + 1]   BY <1>1
  <2>2. d.queue[k + 1].h.id # d.queue[1].h.id   BY <1>1, <2>1 DEF DispatchSound
  <2>3. x # d2.queue[k].h.id   BY <1>1, <2>1, <2>2
  <2>4. CASE r \in done   BY <1>2, <1>3, <2>1, <2>4 DEF OnceQueued
  <2>5. CASE r = <<d.event, x>>   BY <2>3, <2>5
  <2> QED  BY <2>4, <2>5
<1>4. OnceQueued(d2, done \union {<<d.event, x>>})   BY <1>3 DEF OnceQueued
<1> QED  BY <1>4 DEF d2

\* The handlers of one() are gone when they run.
LEMMA OneLeaves ==
  ASSUME EventsInv, NEW d \in Dispatches, NEW q, q \in Queued, NEW c,
         c = IF q.h.one THEN [bound EXCEPT ![d.on] = Detach(@, q.h.fn, q.h.selector, q.h.namespace)]
             ELSE bound
  PROVE  /\ BoundSound(c, eventOps) /\ Descends(bound, c, eventOps + 1)
         /\ q.h.one = TRUE => \A i \in 1 .. Len(c[d.on].list) : c[d.on].list[i] # q.h
<1>1. eventOps \in Nat /\ BoundSound(bound, eventOps)   BY DEF EventsInv
<1>2. d.on \in Nodes /\ q.h.one \in BOOLEAN   BY DEF Dispatches, Queued, Hs
<1>3. CASE q.h.one = TRUE
  <2>1. c = [bound EXCEPT ![d.on] = Detach(@, q.h.fn, q.h.selector, q.h.namespace)]   BY <1>3
  <2>2. /\ BoundSound(c, eventOps) /\ \A n : Descends(bound, c, n)
        /\ \A i \in 1 .. Len(c[d.on].list) :
             ~Matches(c[d.on].list[i], q.h.fn, q.h.selector, q.h.namespace)
    BY <1>1, <1>2, <2>1, BoundDetached
  <2>3. Matches(q.h, q.h.fn, q.h.selector, q.h.namespace)   BY DEF Matches
  <2>4. ASSUME NEW i \in 1 .. Len(c[d.on].list), c[d.on].list[i] = q.h   PROVE FALSE
    <3>1. ~Matches(c[d.on].list[i], q.h.fn, q.h.selector, q.h.namespace)   BY <2>2
    <3> QED  BY <2>3, <2>4, <3>1
  <2> QED  BY <2>2, <2>4
<1>4. CASE q.h.one = FALSE
  <2>1. c = bound   BY <1>4
  <2> QED  BY <1>1, <1>4, <2>1, DescendsItself
<1> QED  BY <1>2, <1>3, <1>4

LEMMA RunHandlerKeeps == ASSUME EventsInv, RunHandler PROVE EventsInv'
<1> DEFINE d == Head(evStack)
           t == Tail(evStack)
           q == Head(d.queue)
           p == <<d.event, q.h.id>>
           d2 == [d EXCEPT !.queue = Tail(@)]
           h == [does |-> "handler", at |-> q.at]
           c == IF q.h.one THEN [bound EXCEPT ![d.on] = Detach(@, q.h.fn, q.h.selector, q.h.namespace)]
                ELSE bound
           done == handled \union {p}
<1>1. Doing("dispatch") /\ evStack # << >> /\ d.queue # << >>   BY DEF RunHandler, Doing
<1>2. /\ d \in Dispatches /\ triggered = FALSE /\ t # << >> /\ t[1].does = "walk"
      /\ DispatchSound(d, t[1], bound, handled, eventOps)
      /\ Sound(t, bound, handled, eventOps) /\ ~DefaultOnTop(t) /\ t \in Seq(Frames)
  BY <1>1, DispatchOnTop
<1>3. /\ evStack' = <<h>> \o <<d2>> \o t /\ bound' = c /\ handled' = done
      /\ again' = (again \/ p \in handled \/ (q.h.one /\ ~nested /\ \E r \in handled : r[2] = q.h.id))
      /\ UNCHANGED <<triggered, eventOps, nested>>
  BY DEF RunHandler
<1>4. /\ BoundSound(bound, eventOps) /\ again = FALSE /\ triggered \in BOOLEAN /\ nested \in BOOLEAN
      /\ eventOps \in Nat /\ handled \in SUBSET ((0 .. eventOps) \X (0 .. eventOps))
  BY DEF EventsInv
<1>5. nested = FALSE => OnceBound(bound, handled) /\ OnceStack(t, handled) /\ OnceQueued(d, handled)
  BY <1>1, OnceUnderTop
<1> HIDE DEF d, t
<1>6. /\ d.queue[1] = q /\ 1 \in 1 .. Len(d.queue) /\ q \in Queued
      /\ d2 \in Dispatches /\ d2.event = d.event /\ d2.does = "dispatch"
  BY <1>1, <1>2, QueueMoves
<1>7. BoundSound(c, eventOps) /\ Descends(bound, c, eventOps + 1)
      /\ (q.h.one = TRUE => \A i \in 1 .. Len(c[d.on].list) : c[d.on].list[i] # q.h)
  <2> DEFINE r == q
             e == c
  <2>1. e = IF r.h.one THEN [bound EXCEPT ![d.on] = Detach(@, r.h.fn, r.h.selector, r.h.namespace)] ELSE bound
    OBVIOUS
  <2>2. r \in Queued   BY <1>6
  <2> HIDE DEF e, r
  <2>3. BoundSound(e, eventOps) /\ Descends(bound, e, eventOps + 1)
        /\ (r.h.one = TRUE => \A i \in 1 .. Len(e[d.on].list) : e[d.on].list[i] # r.h)
    BY <1>2, <2>1, <2>2, OneLeaves
  <2> QED  BY <2>3 DEF e, r
<1>8. Sound(t, c, handled, eventOps) /\ DispatchSound(d, t[1], c, handled, eventOps)
  <2> HIDE DEF c
  <2>1. eventOps \in {eventOps, eventOps + 1}   OBVIOUS
  <2>2. Sound(t, c, handled, eventOps)   BY <1>2, <1>4, <1>7, <2>1, SoundDescends
  <2>3. DispatchSound(d, t[1], c, handled, eventOps)   BY <1>2, <1>4, <1>7, <2>1, DispatchDescends
  <2> QED  BY <2>2, <2>3
<1> HIDE DEF c
<1>9. /\ \A i \in 1 .. Len(t[1].path) : t[1].path[i] # d.on
      /\ \A e \in Nodes : \A j \in 1 .. Len(c[e].list) : c[e].list[j].id = d.queue[1].h.id => e = d.on
      /\ d.event = t[1].event /\ d.queue[1].h.id <= eventOps /\ <<d.event, d.queue[1].h.id>> \notin handled
  BY <1>6, <1>8 DEF DispatchSound
<1>10. t[1] \in Walks /\ t[1].event <= eventOps
  <2>1. 1 \in 1 .. Len(t) /\ t[1] \in Frames   BY <1>2
  <2>2. t[1] \in Walks   BY <1>2, <2>1, FrameKinds
  <2>3. FrameSound(t, 1, bound, handled, eventOps)   BY <1>2, <2>1 DEF Sound
  <2>4. t[1].event <= eventOps   BY <1>2, <2>3 DEF FrameSound, WalkSound
  <2> QED  BY <2>2, <2>4
<1>11. p \notin handled   BY <1>6, <1>9
<1>12. \A i \in 1 .. Len(t[1].path) : \A j \in 1 .. Len(c[t[1].path[i]].list) :
         c[t[1].path[i]].list[j].id # q.h.id
  <2> TAKE i \in 1 .. Len(t[1].path)
  <2> TAKE j \in 1 .. Len(c[t[1].path[i]].list)
  <2>1. t[1].path[i] \in Nodes   BY <1>10 DEF Walks
  <2>2. t[1].path[i] # d.on   BY <1>9
  <2> QED  BY <1>6, <1>9, <2>1, <2>2
<1>13. Sound(t, c, done, eventOps)
  <2>1. p = <<t[1].event, q.h.id>>   BY <1>9
  <2> DEFINE x == q.h.id
  <2> HIDE DEF q
  <2>2. Sound(t, c, handled \union {<<t[1].event, x>>}, eventOps)   BY <1>2, <1>8, <1>12, DoneAdded
  <2> QED  BY <2>1, <2>2
<1>14. DispatchSound(d2, t[1], c, done, eventOps)   BY <1>1, <1>2, <1>8, DispatchMoves
<1>15. d2 \in Frames   BY <1>6 DEF Frames
<1>16. nested = FALSE => OnceBound(c, done)
  <2> DEFINE r == q
  <2>1. r = Head(d.queue)   OBVIOUS
  <2>2. r.h.one = TRUE => \A i \in 1 .. Len(c[d.on].list) : c[d.on].list[i] # r.h   BY <1>7
  <2> HIDE DEF r
  <2>3. nested = FALSE => OnceBound(c, handled \union {<<d.event, r.h.id>>})
    BY <1>1, <1>2, <1>7, <1>8, <2>1, <2>2, OnceTaken
  <2> QED  BY <2>3 DEF r
<1>17. nested = FALSE => OnceQueued(d2, done)   BY <1>1, <1>2, <1>5, <1>8, OnceMoves
<1>18. nested = FALSE => OnceStack(t, done)   BY <1>2, <1>5, OnceBelowDone
<1>19. h \in Running /\ h \in Frames /\ h.does = "handler"   BY <1>6 DEF Running, Frames, Queued
<1>20. again' = FALSE
  <2>1. ASSUME q.h.one, nested = FALSE, NEW r \in handled, r[2] = q.h.id   PROVE FALSE
    <3>1. OnceQueued(d, handled) /\ d.does = "dispatch"   BY <1>2, <1>5, <2>1 DEF Dispatches
    <3>2. q.h.one = TRUE   BY <1>6, <2>1 DEF Queued, Hs
    <3>3. d.queue[1].h.one = TRUE   BY <1>6, <3>2
    <3>4. r[2] # d.queue[1].h.id   BY <1>6, <3>1, <3>3 DEF OnceQueued
    <3> QED  BY <1>6, <2>1, <3>4
  <2> QED  BY <1>3, <1>4, <1>11, <2>1
<1>21. done \subseteq (0 .. eventOps) \X (0 .. eventOps)
  <2>1. q.h.id \in Nat /\ q.h.id <= eventOps   BY <1>6, <1>9 DEF Queued, Hs
  <2>2. d.event \in Nat /\ d.event <= eventOps   BY <1>9, <1>10 DEF Walks
  <2>3. p \in (0 .. eventOps) \X (0 .. eventOps)   BY <1>4, <2>1, <2>2
  <2> QED  BY <1>4, <2>3
<1> HIDE DEF d2, h, q, p, done
<1> DEFINE u == <<d2>> \o t
<1>22. Sound(u, c, done, eventOps)   BY <1>2, <1>6, <1>13, <1>14, DispatchPushed
<1>23. Tops(d2, t, u)   BY <1>2, <1>15, OnTop
<1>24. u \in Seq(Frames) /\ u # << >> /\ u[1] = d2   BY <1>23 DEF Tops
<1>25. nested = FALSE => OnceStack(u, done)
  <2>1. d2.does # "walk"   BY <1>6
  <2> QED  BY <1>2, <1>15, <1>17, <1>18, <2>1, OncePushed
<1>26. evStack' = <<h>> \o u
  <2>1. <<h>> \in Seq(Frames) /\ <<d2>> \in Seq(Frames) /\ t \in Seq(Frames)   BY <1>2, <1>15, <1>19
  <2> QED  BY <1>3, <2>1, ConcatAssociative
<1> HIDE DEF u
<1>27. ~DefaultOnTop(u)   BY <1>6, <1>24 DEF DefaultOnTop
<1>28. Sound(<<h>> \o u, c, done, eventOps)   BY <1>6, <1>19, <1>22, <1>24, <1>27, HandlerPushed
<1>29. Tops(h, u, <<h>> \o u)   BY <1>19, <1>24, OnTop
<1>30. ~DefaultOnTop(evStack')   BY <1>19, <1>26, <1>29 DEF Tops, DefaultOnTop
<1>31. nested = FALSE => OnceStack(<<h>> \o u, done)
  <2>1. h.does # "walk" /\ OnceQueued(h, done)   BY <1>19 DEF OnceQueued
  <2> QED  BY <1>19, <1>24, <1>25, <2>1, OncePushed
<1>32. Sound(evStack', bound', handled', eventOps')   BY <1>3, <1>26, <1>28
<1>33. nested' = FALSE => OnceStack(evStack', handled') /\ OnceBound(bound', handled')
  BY <1>3, <1>16, <1>26, <1>31
<1>34. /\ BoundSound(bound', eventOps') /\ triggered' \in BOOLEAN /\ nested' \in BOOLEAN
       /\ eventOps' \in Nat /\ handled' \subseteq (0 .. eventOps') \X (0 .. eventOps')
       /\ triggered' = TRUE <=> DefaultOnTop(evStack')
  BY <1>2, <1>3, <1>4, <1>7, <1>21, <1>30
<1> QED  BY <1>20, <1>32, <1>33, <1>34 DEF EventsInv

\* A dispatch with a part of the queue of another, for the walk that goes the same way.
Fewer(d2, d) == d2 \in Dispatches /\ d2.event = d.event /\ d2.on = d.on /\ PartOf(d2.queue, d.queue)
SameWay(w2, w) == w2 \in Walks /\ w2.event = w.event /\ w2.path = w.path /\ w2.by = w.by

LEMMA FewerSound ==
  ASSUME NEW b, NEW done, NEW now, NEW d \in Dispatches, NEW w, DispatchSound(d, w, b, done, now),
         NEW d2, Fewer(d2, d), NEW w2, SameWay(w2, w)
  PROVE  /\ DispatchSound(d2, w2, b, done, now)
         /\ OnceQueued(d, done) => OnceQueued(d2, done)
<1>1. d2.event = d.event /\ d2.on = d.on /\ w2.event = w.event /\ w2.path = w.path /\ w2.by = w.by
      /\ d.does = "dispatch"
  BY DEF Fewer, SameWay, Dispatches
<1>2. PICK p \in [1 .. Len(d2.queue) -> 1 .. Len(d.queue)] :
        /\ \A i \in 1 .. Len(d2.queue) : d2.queue[i] = d.queue[p[i]]
        /\ \A i, j \in 1 .. Len(d2.queue) : p[i] = p[j] => i = j
  BY DEF Fewer, PartOf
<1>3. /\ d.event = w.event /\ w.by # "default" /\ \A i \in 1 .. Len(w.path) : w.path[i] # d.on
      /\ \A i, j \in 1 .. Len(d.queue) : d.queue[i].h.id = d.queue[j].h.id => i = j
  BY DEF DispatchSound
<1>4. ASSUME NEW i \in 1 .. Len(d2.queue), NEW j \in 1 .. Len(d2.queue), d2.queue[i].h.id = d2.queue[j].h.id
      PROVE  i = j
  <2>1. d.queue[p[i]].h.id = d.queue[p[j]].h.id   BY <1>2, <1>4
  <2>2. p[i] \in 1 .. Len(d.queue) /\ p[j] \in 1 .. Len(d.queue)   BY <1>2
  <2>3. p[i] = p[j]   BY <1>3, <2>1, <2>2
  <2> QED  BY <1>2, <2>3
<1>5. ASSUME NEW i \in 1 .. Len(d2.queue)
      PROVE  /\ d2.queue[i].h.id <= now /\ <<d2.event, d2.queue[i].h.id>> \notin done
             /\ \A e \in Nodes : \A j \in 1 .. Len(b[e].list) :
                  b[e].list[j].id = d2.queue[i].h.id => e = d2.on /\ b[e].list[j] = d2.queue[i].h
  <2>1. p[i] \in 1 .. Len(d.queue) /\ d2.queue[i] = d.queue[p[i]]   BY <1>2
  <2>2. /\ d.queue[p[i]].h.id <= now /\ <<d.event, d.queue[p[i]].h.id>> \notin done
        /\ \A e \in Nodes : \A j \in 1 .. Len(b[e].list) :
             b[e].list[j].id = d.queue[p[i]].h.id => e = d.on /\ b[e].list[j] = d.queue[p[i]].h
    BY <2>1 DEF DispatchSound
  <2> QED  BY <1>1, <2>1, <2>2
<1>6. DispatchSound(d2, w2, b, done, now)   BY <1>1, <1>3, <1>4, <1>5 DEF DispatchSound
<1>7. ASSUME OnceQueued(d, done)   PROVE OnceQueued(d2, done)
  <2>1. ASSUME NEW k \in 1 .. Len(d2.queue), d2.queue[k].h.one = TRUE, NEW r \in done
        PROVE  r[2] # d2.queue[k].h.id
    <3>1. p[k] \in 1 .. Len(d.queue) /\ d2.queue[k] = d.queue[p[k]]   BY <1>2
    <3> QED  BY <1>1, <1>7, <2>1, <3>1 DEF OnceQueued
  <2> QED  BY <2>1 DEF OnceQueued
<1> QED  BY <1>6, <1>7

LEMMA FewerIs ==
  ASSUME NEW d \in Dispatches
  PROVE  /\ Fewer(d, d) /\ Fewer(StopImmediatePropagation(d), d)
         /\ \A T : Fewer([d EXCEPT !.queue = Among(@, T)], d)
<1>1. d.queue \in Seq(Queued)   BY DEF Dispatches
<1>2. Fewer(d, d)
  <2>1. Len(d.queue) \in Nat   BY <1>1
  <2>2. PartOf(d.queue, d.queue)   BY <2>1, PartOfItself
  <2> QED  BY <2>2 DEF Fewer
<1>3. Fewer(StopImmediatePropagation(d), d)
  <2> DEFINE x == StopImmediatePropagation(d)
  <2>1. x \in Dispatches /\ x.event = d.event /\ x.on = d.on /\ x.queue = << >>
    <3>1. << >> \in Seq(Queued)   OBVIOUS
    <3>2. x = [d EXCEPT !.queue = << >>]   BY DEF StopImmediatePropagation
    <3> QED  BY <3>1, <3>2 DEF Dispatches
  <2> HIDE DEF x
  <2>2. 1 .. Len(x.queue) = {}   BY <2>1
  <2>3. \E p : p \in [{} -> 1 .. Len(d.queue)]
    <3>1. [i \in {} |-> i] \in [{} -> 1 .. Len(d.queue)]   OBVIOUS
    <3> QED  BY <3>1
  <2>4. PICK p : p \in [{} -> 1 .. Len(d.queue)]   BY <2>3
  <2>5. p \in [1 .. Len(x.queue) -> 1 .. Len(d.queue)]   BY <2>2, <2>4, Zenon
  <2>6. \A i \in 1 .. Len(x.queue) : FALSE   BY <2>2
  <2>7. PartOf(x.queue, d.queue)   BY <2>5, <2>6 DEF PartOf
  <2>8. Fewer(x, d)   BY <2>1, <2>7 DEF Fewer
  <2> QED  BY <2>8 DEF x
<1>4. ASSUME NEW T   PROVE Fewer([d EXCEPT !.queue = Among(@, T)], d)
  <2> DEFINE x == [d EXCEPT !.queue = Among(@, T)]
  <2>1. Among(d.queue, T) \in Seq(Queued) /\ PartOf(Among(d.queue, T), d.queue)   BY <1>1, AmongPart
  <2>2. x \in Dispatches /\ x.event = d.event /\ x.on = d.on /\ x.queue = Among(d.queue, T)
    BY <2>1 DEF Dispatches
  <2> HIDE DEF x
  <2>3. Fewer(x, d)   BY <2>1, <2>2 DEF Fewer
  <2> QED  BY <2>3 DEF x
<1> QED  BY <1>2, <1>3, <1>4

LEMMA SameWayIs ==
  ASSUME NEW w \in Walks
  PROVE  SameWay(w, w) /\ SameWay(StopPropagation(w), w) /\ SameWay(PreventDefault(StopPropagation(w)), w)
<1>1. StopPropagation(w) \in Walks /\ SameWay(StopPropagation(w), w)   BY DEF StopPropagation, SameWay, Walks
<1>2. ASSUME NEW v \in Walks   PROVE SameWay(PreventDefault(v), v)   BY DEF PreventDefault, SameWay, Walks
<1> HIDE DEF StopPropagation
<1>3. SameWay(PreventDefault(StopPropagation(w)), StopPropagation(w))   BY <1>1, <1>2
<1> QED  BY <1>1, <1>3 DEF SameWay

\* A handler is on top of its dispatch, that of its walk.
HandlerOver(st, b, done, now) ==
  /\ st \in Seq(Frames) /\ Len(st) >= 3 /\ st[2] \in Dispatches /\ st[3] \in Walks
  /\ DispatchSound(st[2], st[3], b, done, now) /\ WalkOver(st[3], SubSeq(st, 4, Len(st)), b, done, now)
  /\ Sound(SubSeq(st, 4, Len(st)), b, done, now) /\ ~DefaultOnTop(SubSeq(st, 4, Len(st)))

LEMMA HandlerOnTop ==
  ASSUME NEW st, NEW b, NEW done, NEW now, Sound(st, b, done, now), st # << >>, Head(st).does = "handler"
  PROVE  HandlerOver(st, b, done, now)
<1> DEFINE t == Tail(st)
           u == Tail(t)
           v == Tail(u)
<1>1. TopOver(st, t, b, done, now)   BY TopOff
<1>2. st[1].does = "handler" /\ Len(t) = Len(st) - 1 /\ \A i \in 1 .. Len(t) : t[i] = st[i + 1]
  <2>1. Head(st) = st[1] /\ Len(t) = Len(st) - 1 /\ \A i \in 1 .. Len(t) : t[i] = st[i + 1]
    BY <1>1 DEF TopOver
  <2> QED  BY <2>1
<1>3. t # << >> /\ t[1].does = "dispatch" /\ Sound(t, b, done, now)   BY <1>2, HandlerBelow
<1> HIDE DEF t
<1>4. TopOver(t, u, b, done, now)   BY <1>3, TopOff
<1>5. Len(u) = Len(t) - 1 /\ \A i \in 1 .. Len(u) : u[i] = t[i + 1]   BY <1>4 DEF TopOver
<1>6. /\ t[1] \in Dispatches /\ u # << >> /\ u[1].does = "walk" /\ Sound(u, b, done, now)
      /\ DispatchSound(t[1], u[1], b, done, now)
  BY <1>3, DispatchBelow
<1> HIDE DEF u
<1>7. TopOver(u, v, b, done, now)   BY <1>6, TopOff
<1>8. Len(v) = Len(u) - 1 /\ \A i \in 1 .. Len(v) : v[i] = u[i + 1]   BY <1>7 DEF TopOver
<1>9. u[1] \in Walks /\ WalkOver(u[1], v, b, done, now) /\ Sound(v, b, done, now) /\ ~DefaultOnTop(v)
  BY <1>6, WalkBelow
<1> HIDE DEF v
<1>10. /\ st \in Seq(Frames) /\ t \in Seq(Frames) /\ u \in Seq(Frames) /\ v \in Seq(Frames)
       /\ Len(st) \in Nat /\ Len(t) \in Nat /\ Len(u) \in Nat /\ Len(v) \in Nat
       /\ Len(t) # 0 /\ Len(u) # 0
  <2>1. st \in Seq(Frames) /\ t \in Seq(Frames) /\ u \in Seq(Frames) /\ v \in Seq(Frames)
    BY <1>3, <1>6, <1>9 DEF Sound
  <2> QED  BY <1>3, <1>6, <2>1
<1>11. Len(st) >= 3 /\ 1 \in 1 .. Len(t) /\ 2 \in 1 .. Len(t) /\ 1 \in 1 .. Len(u)   BY <1>2, <1>5, <1>10
<1>12. st[2] = t[1] /\ st[3] = u[1]   BY <1>2, <1>5, <1>11
<1>13. SubSeq(st, 4, Len(st)) = v
  <2> DEFINE s == SubSeq(st, 4, Len(st))
  <2>1. 4 \in 1 .. Len(st) + 1   BY <1>10, <1>11
  <2>2. s \in Seq(Frames) /\ Len(s) = Len(st) - 4 + 1 /\ \A i \in 1 .. Len(s) : s[i] = st[i + 4 - 1]
    BY <1>10, <2>1, CutIs
  <2> HIDE DEF s
  <2>3. Len(s) = Len(v)   BY <1>2, <1>5, <1>8, <1>10, <2>2
  <2>4. ASSUME NEW i \in 1 .. Len(s)   PROVE s[i] = v[i]
    <3>1. s[i] = st[i + 3]   BY <2>2
    <3>2. i \in 1 .. Len(v) /\ i + 1 \in 1 .. Len(u) /\ i + 2 \in 1 .. Len(t)
      BY <1>2, <1>5, <1>8, <1>10, <2>3
    <3>3. v[i] = u[i + 1] /\ u[i + 1] = t[(i + 1) + 1] /\ t[i + 2] = st[(i + 2) + 1]   BY <1>2, <1>5, <1>8, <3>2
    <3>4. (i + 1) + 1 = i + 2 /\ (i + 2) + 1 = i + 3   OBVIOUS
    <3> QED  BY <3>1, <3>3, <3>4
  <2>5. s = v   BY <1>10, <2>2, <2>3, <2>4, SeqEqual
  <2> QED  BY <2>5 DEF s
<1> QED  BY <1>6, <1>9, <1>10, <1>11, <1>12, <1>13 DEF HandlerOver

\* What is left of the dispatch and the walk when its handler returns.
LEMMA LeftIs ==
  ASSUME NEW d \in Dispatches, NEW w \in Walks, NEW at, NEW result \in {"go", "false", "halt"}, NEW left,
         left = CASE result = "go"    -> <<d, w>>
                  [] result = "false" -> << [d EXCEPT !.queue = Among(@, {q \in Range(@) : q.at = at})],
                                            PreventDefault(StopPropagation(w)) >>
                  [] result = "halt"  -> << StopImmediatePropagation(d), StopPropagation(w) >>
  PROVE  \E d2, w2 : Fewer(d2, d) /\ SameWay(w2, w) /\ left = <<d2, w2>>
<1>1. SameWay(w, w) /\ SameWay(StopPropagation(w), w) /\ SameWay(PreventDefault(StopPropagation(w)), w)
  BY SameWayIs
<1>2. Fewer(d, d) /\ Fewer(StopImmediatePropagation(d), d)
      /\ \A T : Fewer([d EXCEPT !.queue = Among(@, T)], d)
  BY FewerIs
<1>3. CASE result = "go"
  <2>1. left = <<d, w>>   BY <1>3
  <2> QED  BY <1>1, <1>2, <2>1
<1>4. CASE result = "false"
  <2> DEFINE T == {q \in Range(d.queue) : q.at = at}
             d2 == [d EXCEPT !.queue = Among(@, T)]
             w2 == PreventDefault(StopPropagation(w))
  <2>1. left = <<d2, w2>>   BY <1>4
  <2> HIDE DEF T
  <2>2. Fewer(d2, d) /\ SameWay(w2, w)   BY <1>1, <1>2
  <2> HIDE DEF d2, w2
  <2> QED  BY <2>1, <2>2
<1>5. CASE result = "halt"
  <2> DEFINE d2 == StopImmediatePropagation(d)
             w2 == StopPropagation(w)
  <2>1. left = <<d2, w2>>   BY <1>5
  <2>2. Fewer(d2, d) /\ SameWay(w2, w)   BY <1>1, <1>2
  <2> HIDE DEF d2, w2
  <2> QED  BY <2>1, <2>2
<1> QED  BY <1>3, <1>4, <1>5

LEMMA HandlerReturnsKeeps ==
  ASSUME EventsInv, NEW result \in {"go", "false", "halt"}, HandlerReturns(result)
  PROVE  EventsInv'
<1> DEFINE d == evStack[2]
           w == evStack[3]
           v == SubSeq(evStack, 4, Len(evStack))
           left == CASE result = "go"    -> <<d, w>>
                     [] result = "false" -> << [d EXCEPT !.queue =
                                                  Among(@, {q \in Range(@) : q.at = Head(evStack).at})],
                                               PreventDefault(StopPropagation(w)) >>
                     [] result = "halt"  -> << StopImmediatePropagation(d), StopPropagation(w) >>
<1>1. /\ evStack # << >> /\ Head(evStack).does = "handler" /\ evStack' = left \o v
      /\ UNCHANGED <<bound, triggered, eventOps, handled, again, nested>>
  BY DEF HandlerReturns, Doing
<1>2. /\ BoundSound(bound, eventOps) /\ again = FALSE /\ triggered \in BOOLEAN /\ nested \in BOOLEAN
      /\ eventOps \in Nat /\ handled \subseteq (0 .. eventOps) \X (0 .. eventOps)
      /\ Sound(evStack, bound, handled, eventOps) /\ (triggered = TRUE <=> DefaultOnTop(evStack))
  BY DEF EventsInv
<1>3. HandlerOver(evStack, bound, handled, eventOps)   BY <1>1, <1>2, HandlerOnTop
<1>4. /\ evStack \in Seq(Frames) /\ Len(evStack) >= 3 /\ d \in Dispatches /\ w \in Walks
      /\ DispatchSound(d, w, bound, handled, eventOps) /\ WalkOver(w, v, bound, handled, eventOps)
      /\ Sound(v, bound, handled, eventOps) /\ ~DefaultOnTop(v)
  BY <1>3 DEF HandlerOver
<1>5. triggered = FALSE
  <2>1. Head(evStack) = evStack[1]   BY <1>1, <1>4
  <2>2. evStack[1].does = "handler"   BY <1>1, <2>1
  <2> QED  BY <1>2, <2>2 DEF DefaultOnTop
<1>6. PICK d2, w2 : Fewer(d2, d) /\ SameWay(w2, w) /\ left = <<d2, w2>>
  <2> DEFINE l == left
             at == Head(evStack).at
             D == d
             W == w
  <2>1. l = CASE result = "go"    -> <<D, W>>
              [] result = "false" -> << [D EXCEPT !.queue = Among(@, {q \in Range(@) : q.at = at})],
                                        PreventDefault(StopPropagation(W)) >>
              [] result = "halt"  -> << StopImmediatePropagation(D), StopPropagation(W) >>
    OBVIOUS
  <2>2. D \in Dispatches /\ W \in Walks   BY <1>4
  <2> HIDE DEF l, at, D, W
  <2>3. \E d2, w2 : Fewer(d2, D) /\ SameWay(w2, W) /\ l = <<d2, w2>>   BY <2>1, <2>2, LeftIs
  <2> QED  BY <2>3 DEF l, D, W
<1>7. nested = FALSE =>
        /\ OnceBound(bound, handled) /\ OnceStack(v, handled) /\ OnceQueued(d, handled)
        /\ \A j \in 1 .. Len(v) : v[j].does # "walk"
  <2> SUFFICES ASSUME nested = FALSE
               PROVE  /\ OnceBound(bound, handled) /\ OnceStack(v, handled) /\ OnceQueued(d, handled)
                      /\ \A j \in 1 .. Len(v) : v[j].does # "walk"
    OBVIOUS
  <2>1. OnceStack(evStack, handled) /\ OnceBound(bound, handled)   BY DEF EventsInv
  <2>2. Len(evStack) \in Nat /\ 4 \in 1 .. Len(evStack) + 1 /\ 2 \in 1 .. Len(evStack) /\ 3 \in 1 .. Len(evStack)
    BY <1>4
  <2>3. OnceStack(v, handled)   BY <1>4, <2>1, <2>2, OnceCut
  <2>4. Len(v) = Len(evStack) - 4 + 1 /\ \A j \in 1 .. Len(v) : v[j] = evStack[j + 4 - 1]
    BY <1>4, <2>2, CutIs
  <2>5. OneWalk(evStack) /\ OnceQueued(d, handled)   BY <2>1, <2>2 DEF OnceStack
  <2>6. w.does = "walk"   BY <1>4 DEF Walks
  <2> HIDE DEF v
  <2>7. ASSUME NEW j \in 1 .. Len(v), v[j].does = "walk"   PROVE FALSE
    <3>1. j + 3 \in 1 .. Len(evStack) /\ v[j] = evStack[j + 3] /\ j + 3 # 3   BY <2>2, <2>4
    <3> QED  BY <2>2, <2>5, <2>6, <2>7, <3>1 DEF OneWalk
  <2> QED  BY <2>1, <2>3, <2>5, <2>7
<1> HIDE DEF d, w, v, left
<1>8. /\ DispatchSound(d2, w2, bound, handled, eventOps)
      /\ OnceQueued(d, handled) => OnceQueued(d2, handled)
  BY <1>4, <1>6, FewerSound
<1>9. /\ d2 \in Dispatches /\ d2 \in Frames /\ d2.does = "dispatch"
      /\ w2 \in Walks /\ w2 \in Frames /\ w2.does = "walk"
      /\ w2.event = w.event /\ w2.path = w.path /\ w2.by = w.by
  BY <1>6 DEF Fewer, SameWay, Dispatches, Walks, Frames
<1>10. WalkOver(w2, v, bound, handled, eventOps)
  <2>1. WalkSound(w2, bound, handled, eventOps)   BY <1>4, <1>9 DEF WalkOver, WalkSound
  <2> QED  BY <1>4, <1>9, <2>1 DEF WalkOver
<1> DEFINE u == <<w2>> \o v
<1>11. v \in Seq(Frames)   BY <1>4 DEF Sound
<1>12. Sound(u, bound, handled, eventOps)   BY <1>4, <1>9, <1>10, WalkPushed
<1>13. Tops(w2, v, u)   BY <1>9, <1>11, OnTop
<1>14. u \in Seq(Frames) /\ u # << >> /\ u[1] = w2   BY <1>13 DEF Tops
<1>15. nested = FALSE => OnceStack(u, handled)
  <2>1. OnceQueued(w2, handled)   BY <1>9 DEF OnceQueued
  <2> QED  BY <1>7, <1>9, <1>11, <2>1, OncePushed
<1>16. evStack' = <<d2>> \o u
  <2>1. <<d2>> \in Seq(Frames) /\ <<w2>> \in Seq(Frames)   BY <1>9
  <2>2. <<d2, w2>> = <<d2>> \o <<w2>>
    <3> DEFINE a == <<d2>>
               b == <<w2>>
               s == a \o b
               r == <<d2, w2>>
    <3>1. a \in Seq(Frames) /\ Len(a) = 1 /\ a[1] = d2 /\ b \in Seq(Frames) /\ Len(b) = 1 /\ b[1] = w2
      BY <1>9
    <3>2. r \in Seq(Frames) /\ Len(r) = 2 /\ r[1] = d2 /\ r[2] = w2   BY <1>9
    <3> HIDE DEF a, b, r
    <3>3. s \in Seq(Frames) /\ Len(s) = 2 /\ s[1] = a[1] /\ s[2] = b[1]   BY <3>1, ConcatProperties
    <3> HIDE DEF s
    <3>4. r = s   BY <3>1, <3>2, <3>3, SeqEqual
    <3> QED  BY <3>4 DEF a, b, r, s
  <2>3. evStack' = (<<d2>> \o <<w2>>) \o v   BY <1>1, <1>6, <2>2
  <2> QED  BY <1>11, <2>1, <2>3, ConcatAssociative
<1> HIDE DEF u
<1>17. w2.by # "default"   BY <1>8 DEF DispatchSound
<1>18. ~DefaultOnTop(u)   BY <1>14, <1>17 DEF DefaultOnTop
<1>19. Sound(<<d2>> \o u, bound, handled, eventOps)   BY <1>8, <1>9, <1>12, <1>14, <1>18, DispatchPushed
<1>20. Tops(d2, u, <<d2>> \o u)   BY <1>9, <1>14, OnTop
<1>21. ~DefaultOnTop(evStack')   BY <1>9, <1>16, <1>20 DEF Tops, DefaultOnTop
<1>22. nested = FALSE => OnceStack(<<d2>> \o u, handled)
  <2>1. d2.does # "walk"   BY <1>9
  <2> QED  BY <1>7, <1>8, <1>9, <1>14, <1>15, <2>1, OncePushed
<1>23. Sound(evStack', bound', handled', eventOps')   BY <1>1, <1>16, <1>19
<1>24. nested' = FALSE => OnceStack(evStack', handled') /\ OnceBound(bound', handled')
  BY <1>1, <1>7, <1>16, <1>22
<1>25. /\ BoundSound(bound', eventOps') /\ again' = FALSE /\ triggered' \in BOOLEAN /\ nested' \in BOOLEAN
       /\ eventOps' \in Nat /\ handled' \subseteq (0 .. eventOps') \X (0 .. eventOps')
       /\ triggered' = TRUE <=> DefaultOnTop(evStack')
  BY <1>1, <1>2, <1>5, <1>21
<1> QED  BY <1>23, <1>24, <1>25 DEF EventsInv

LEMMA HandlerThrowsKeeps == ASSUME EventsInv, HandlerThrows PROVE EventsInv'
<1> DEFINE catching == {i \in DOMAIN evStack : evStack[i].does = "walk" /\ evStack[i].by # "trigger"}
           k == CHOOSE i \in catching : \A j \in catching : i <= j
<1>1. /\ EventTurn /\ evStack # << >> /\ UNCHANGED <<bound, triggered, handled, again, nested>>
      /\ evStack' = IF catching = {} THEN << >> ELSE SubSeq(evStack, k, Len(evStack))
  BY DEF HandlerThrows
<1>2. /\ eventOps' = eventOps + 1 /\ eventOps' \in Nat /\ triggered = FALSE
      /\ evStack # << >> => evStack[1].does = "handler"
      /\ handled \subseteq (0 .. eventOps') \X (0 .. eventOps')
  BY <1>1, UsersTurn
<1>3. /\ eventOps \in Nat /\ handled \in SUBSET ((0 .. eventOps) \X (0 .. eventOps))
      /\ Sound(evStack, bound, handled, eventOps) /\ BoundSound(bound, eventOps)
      /\ again = FALSE /\ nested \in BOOLEAN
  BY DEF EventsInv
<1>4. evStack \in Seq(Frames)   BY <1>3 DEF Sound
<1>5. nested = FALSE => OnceStack(evStack, handled) /\ OnceBound(bound, handled)   BY DEF EventsInv
<1>6. Sound(evStack', bound, handled, eventOps) /\ ~DefaultOnTop(evStack')
      /\ (nested = FALSE => OnceStack(evStack', handled))
  <2>1. CASE catching = {}
    <3>1. evStack' = << >> /\ Len(<< >>) = 0   BY <1>1, <2>1
    <3>2. << >> \in Seq(Frames)   OBVIOUS
    <3>3. Sound(<< >>, bound, handled, eventOps)   BY <3>1, <3>2 DEF Sound
    <3>4. OnceStack(<< >>, handled)   BY <3>1 DEF OnceStack, OneWalk
    <3>5. ~DefaultOnTop(<< >>)   BY DEF DefaultOnTop
    <3> QED  BY <3>1, <3>3, <3>4, <3>5
  <2>2. CASE catching # {}
    <3>1. catching \subseteq 1 .. Len(evStack) /\ Len(evStack) \in Nat   BY <1>4
    <3>2. catching \subseteq Nat   BY <3>1
    <3> HIDE DEF catching
    <3>3. \E i \in catching : \A j \in catching : i <= j   BY <2>2, <3>2, LeastNumber
    <3>4. k \in catching   BY <3>3
    <3>5. evStack[k].does = "walk" /\ k \in 1 .. Len(evStack)   BY <3>1, <3>4 DEF catching
    <3>6. evStack' = SubSeq(evStack, k, Len(evStack))   BY <1>1, <2>2
    <3> HIDE DEF k
    <3>7. k \in 1 .. Len(evStack) + 1   BY <3>1, <3>5
    <3>8. Sound(evStack', bound, handled, eventOps)   BY <1>3, <3>6, <3>7, CutSound
    <3>9. nested = FALSE => OnceStack(evStack', handled)   BY <1>4, <1>5, <3>6, <3>7, OnceCut
    <3>10. ASSUME DefaultOnTop(evStack')   PROVE FALSE
      <4>1. Len(evStack') = Len(evStack) - k + 1 /\ \A i \in 1 .. Len(evStack') : evStack'[i] = evStack[i + k - 1]
        BY <1>4, <3>6, <3>7, CutIs
      <4>2. 1 \in 1 .. Len(evStack') /\ 1 + k - 1 = k   BY <3>1, <3>5, <4>1
      <4>3. evStack'[1] = evStack[k]   BY <4>1, <4>2
      <4>4. evStack[k].by = "default"   BY <3>10, <4>3 DEF DefaultOnTop
      <4>5. FrameSound(evStack, k, bound, handled, eventOps)   BY <1>3, <3>5 DEF Sound
      <4>6. k = 1   BY <3>5, <4>4, <4>5 DEF FrameSound
      <4> QED  BY <1>1, <1>2, <3>5, <4>6
    <3> QED  BY <3>8, <3>9, <3>10
  <2> QED  BY <2>1, <2>2
<1>7. Sound(evStack', bound, handled, eventOps + 1)
  <2> DEFINE st == evStack'
  <2>1. Sound(st, bound, handled, eventOps)   BY <1>6
  <2>2. eventOps + 1 \in {eventOps, eventOps + 1} /\ Descends(bound, bound, eventOps + 1)
    BY DescendsItself
  <2> HIDE DEF st
  <2>3. Sound(st, bound, handled, eventOps + 1)   BY <1>3, <2>1, <2>2, SoundDescends
  <2> QED  BY <2>3 DEF st
<1>8. BoundSound(bound', eventOps')   BY <1>1, <1>2, <1>3, BoundLater
<1>9. Sound(evStack', bound', handled', eventOps')   BY <1>1, <1>2, <1>7
<1>10. nested' = FALSE => OnceStack(evStack', handled') /\ OnceBound(bound', handled')
  BY <1>1, <1>5, <1>6
<1>11. /\ again' = FALSE /\ triggered' \in BOOLEAN /\ nested' \in BOOLEAN
       /\ eventOps' \in Nat /\ handled' \subseteq (0 .. eventOps') \X (0 .. eventOps')
       /\ triggered' = TRUE <=> DefaultOnTop(evStack')
  BY <1>1, <1>2, <1>3, <1>6
<1> QED  BY <1>8, <1>9, <1>10, <1>11 DEF EventsInv

-----------------------------------------------------------------------------
(* The theorems.                                                             *)

LEMMA EventsStart == EventsInit => EventsInv
<1> SUFFICES ASSUME EventsInit   PROVE EventsInv
  OBVIOUS
<1>1. /\ bound = [e \in Nodes |-> [list |-> << >>, delegateCount |-> 0, listener |-> FALSE]]
      /\ triggered = FALSE /\ evStack = << >> /\ eventOps = 0 /\ handled = {} /\ again = FALSE /\ nested = FALSE
  BY DEF EventsInit
<1>2. \A e \in Nodes : /\ bound[e].list = << >> /\ Len(bound[e].list) = 0
                       /\ bound[e].delegateCount = 0 /\ bound[e].listener = FALSE
  BY <1>1
<1>3. bound \in [Nodes -> Lists]
  <2>1. << >> \in Seq(Hs)   OBVIOUS
  <2>2. [list |-> << >>, delegateCount |-> 0, listener |-> FALSE] \in Lists   BY <2>1 DEF Lists
  <2> QED  BY <1>1, <2>2
<1>4. \A e \in Nodes : ListSound(bound[e])   BY <1>2 DEF ListSound
<1>5. IdsApart(bound, eventOps) /\ OnceBound(bound, handled)   BY <1>1, <1>2 DEF IdsApart, OnceBound
<1>6. evStack \in Seq(Frames) /\ Len(evStack) = 0   BY <1>1
<1>7. Sound(evStack, bound, handled, eventOps) /\ OnceStack(evStack, handled)
  BY <1>6 DEF Sound, OnceStack, OneWalk
<1>8. ~DefaultOnTop(evStack)   BY <1>1 DEF DefaultOnTop
<1> QED  BY <1>1, <1>3, <1>4, <1>5, <1>7, <1>8 DEF EventsInv, BoundSound

LEMMA EventsStep == EventsInv /\ [EventsNext]_eventVars => EventsInv'
<1> SUFFICES ASSUME EventsInv, [EventsNext]_eventVars   PROVE EventsInv'
  OBVIOUS
<1>1. ASSUME NEW e \in Nodes, NEW fn \in Handlers, NEW ns \in Namespaces,
             NEW selector \in Range(Below(e)) \union {NoSelector}, NEW one \in BOOLEAN,
             On(e, fn, selector, ns, one)
      PROVE  EventsInv'
  BY <1>1, OnKeeps
<1>2. ASSUME NEW e \in Nodes, NEW fn \in Handlers, NEW ns \in Namespaces,
             NEW selector \in Range(Below(e)) \union {NoSelector}, Off(e, fn, selector, ns)
      PROVE  EventsInv'
  BY <1>2, OffKeeps
<1>3. ASSUME NEW e \in Nodes, NEW ns \in Namespaces, NEW only \in BOOLEAN, Trigger(e, ns, only)
      PROVE  EventsInv'
  BY <1>3, TriggerKeeps
<1>4. ASSUME NEW e \in Nodes, NativeEvent(e)   PROVE EventsInv'
  BY <1>4, NativeEventKeeps
<1>5. ASSUME WalkUp   PROVE EventsInv'   BY <1>5, WalkUpKeeps
<1>6. ASSUME WalkEnds   PROVE EventsInv'   BY <1>6, WalkEndsKeeps
<1>7. ASSUME RunHandler   PROVE EventsInv'   BY <1>7, RunHandlerKeeps
<1>8. ASSUME DispatchEnds   PROVE EventsInv'   BY <1>8, DispatchEndsKeeps
<1>9. ASSUME NEW result \in {"go", "false", "halt"}, HandlerReturns(result)   PROVE EventsInv'
  BY <1>9, HandlerReturnsKeeps
<1>10. ASSUME HandlerThrows   PROVE EventsInv'   BY <1>10, HandlerThrowsKeeps
<1>11. CASE UNCHANGED eventVars   BY <1>11 DEF EventsInv, eventVars
<1> QED  BY <1>1, <1>2, <1>3, <1>4, <1>5, <1>6, <1>7, <1>8, <1>9, <1>10, <1>11 DEF EventsNext

\* What the call stack is still going to do for an event is for handlers the event has
\* not reached, whatever the handlers that run do.
THEOREM EventsInvariance == EventsSpec => []EventsInv
<1>1. EventsInit => EventsInv   BY EventsStart
<1>2. EventsInv /\ [EventsNext]_eventVars => EventsInv'   BY EventsStep
<1> QED  BY <1>1, <1>2, PTL DEF EventsSpec

LEMMA InvHandledOnce == EventsInv => HandledOnce
<1> SUFFICES ASSUME EventsInv   PROVE HandledOnce
  OBVIOUS
<1>1. /\ again = FALSE /\ triggered \in BOOLEAN /\ BoundSound(bound, eventOps)
      /\ Sound(evStack, bound, handled, eventOps) /\ (triggered = TRUE <=> DefaultOnTop(evStack))
  BY DEF EventsInv
<1>2. evStack \in Seq(Frames) /\ DOMAIN evStack = 1 .. Len(evStack) /\ Len(evStack) \in Nat
  BY <1>1 DEF Sound
<1>3. triggered <=> \E i \in DOMAIN evStack : evStack[i].does = "walk" /\ evStack[i].by = "default"
  <2>1. ASSUME triggered
        PROVE  \E i \in DOMAIN evStack : evStack[i].does = "walk" /\ evStack[i].by = "default"
    <3>1. evStack # << >> /\ evStack[1].does = "walk" /\ evStack[1].by = "default"
      BY <1>1, <2>1 DEF DefaultOnTop
    <3>2. 1 \in DOMAIN evStack   BY <1>2, <3>1
    <3> QED  BY <3>1, <3>2
  <2>2. ASSUME NEW i \in DOMAIN evStack, evStack[i].does = "walk", evStack[i].by = "default"
        PROVE  triggered
    <3>1. FrameSound(evStack, i, bound, handled, eventOps)   BY <1>1, <1>2 DEF Sound
    <3>2. i = 1   BY <2>2, <3>1 DEF FrameSound
    <3>3. evStack # << >>   BY <1>2
    <3> QED  BY <1>1, <2>2, <3>2, <3>3 DEF DefaultOnTop
  <2> QED  BY <2>1, <2>2
<1>4. ASSUME NEW e \in Nodes
      PROVE  /\ bound[e].listener <=> bound[e].list # << >>
             /\ \A i \in DOMAIN bound[e].list :
                  bound[e].list[i].selector # NoSelector <=> i <= bound[e].delegateCount
  <2>1. bound[e] \in Lists /\ ListSound(bound[e])   BY <1>1 DEF BoundSound
  <2>2. bound[e].listener \in BOOLEAN /\ DOMAIN bound[e].list = 1 .. Len(bound[e].list)   BY <2>1 DEF Lists
  <2>3. bound[e].listener <=> bound[e].list # << >>   BY <2>1, <2>2 DEF ListSound
  <2>4. \A i \in 1 .. Len(bound[e].list) :
          bound[e].list[i].selector # NoSelector <=> i <= bound[e].delegateCount
    BY <2>1 DEF ListSound
  <2> QED  BY <2>2, <2>3, <2>4
<1> QED  BY <1>1, <1>3, <1>4 DEF HandledOnce

\* An event reaches a handler at most once, that of one() but one event unless events are made
\* in handlers; the flag, the counts and the native listeners agree with the rest.
THEOREM EventsHandledOnce == EventsSpec => []HandledOnce
<1>1. EventsSpec => []EventsInv   BY EventsInvariance
<1>2. EventsInv => HandledOnce   BY InvHandledOnce
<1> QED  BY <1>1, <1>2, PTL

=============================================================================
