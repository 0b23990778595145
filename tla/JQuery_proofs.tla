---------------------------- MODULE JQuery_proofs -----------------------------
(* Theorems about the parts of jQuery that the console uses, for every value  *)
(* of their constants: that a request is over once, and whom a callback list  *)
(* calls.                                                                      *)
EXTENDS Callbacks, Ajax, SequenceTheorems, FiniteSetTheorems, TLAPS

-----------------------------------------------------------------------------
(* Numbers and sequences.                                                    *)

\* Every set of natural numbers has a least one: no interval 0 .. n is smaller than all
\* that are given.
LEMMA LeastNumber ==
  ASSUME NEW T, T \subseteq Nat, T # {}
  PROVE  \E x \in T : \A y \in T : x <= y
<1> DEFINE Up == {0 .. n : n \in T}
<1>1. \A n \in Nat : 0 .. n \in SUBSET Nat
  OBVIOUS
<1>2. Up \subseteq FiniteSubsetsOf(Nat) /\ Up # {}
  <2>1. \A n \in Nat : 0 .. n \in SUBSET Nat /\ IsFiniteSet(0 .. n)
    BY FS_Interval
  <2>2. \A n \in Nat : 0 .. n \in FiniteSubsetsOf(Nat)
    BY <2>1, Zenon DEF FiniteSubsetsOf
  <2> QED  BY <2>2
<1>3. PICK U \in Up : \A V \in Up : ~ (<<V, U>> \in StrictSubsetOrdering(Nat))
  <2> HIDE DEF Up
  <2> QED  BY <1>2, WFMin, FS_StrictSubsetOrderingWellFounded
<1>4. PICK x \in T : U = 0 .. x
  OBVIOUS
<1>5. ASSUME NEW y \in T, y < x
      PROVE  FALSE
  <2>1. 0 .. y \subseteq 0 .. x /\ x \in 0 .. x /\ x \notin 0 .. y
    BY <1>5
  <2>2. <<0 .. y, 0 .. x>> \in StrictSubsetOrdering(Nat)
    BY <1>1, <2>1 DEF StrictSubsetOrdering
  <2> QED  BY <1>3, <1>4, <2>2
<1> QED BY <1>5

\* What holds of 0 and of the successor of each number it holds of holds of all.
LEMMA Induction ==
  ASSUME NEW S, 0 \in S, \A n \in Nat : n \in S => n + 1 \in S
  PROVE  Nat \subseteq S
<1> DEFINE T == Nat \ S
<1>1. ASSUME T # {}
      PROVE  FALSE
  <2>1. PICK x \in T : \A y \in T : x <= y
    <3> HIDE DEF T
    <3>1. T \subseteq Nat   BY DEF T
    <3> QED  BY <1>1, <3>1, LeastNumber
  <2>2. x # 0 /\ x - 1 \in Nat   OBVIOUS
  <2>3. x - 1 \in S   BY <2>1, <2>2
  <2>4. (x - 1) + 1 = x   BY <2>2
  <2> QED  BY <2>2, <2>3, <2>4
<1> QED  BY <1>1

\* The less of two numbers.
LEMMA LessOfTwo == ASSUME NEW a \in Int, NEW b \in Int PROVE Min({a, b}) = IF a <= b THEN a ELSE b
<1>1. \A x \in {a, b} : x = a \/ x = b   OBVIOUS
<1>2. CASE a <= b
  <2>1. a \in {a, b} /\ \A y \in {a, b} : a <= y   BY <1>2
  <2>2. \A x \in {a, b} : (\A y \in {a, b} : x <= y) => x = a   BY <1>2
  <2> QED  BY <1>2, <2>1, <2>2 DEF Min
<1>3. CASE ~(a <= b)
  <2>1. b \in {a, b} /\ \A y \in {a, b} : b <= y   BY <1>3
  <2>2. \A x \in {a, b} : (\A y \in {a, b} : x <= y) => x = b   BY <1>3
  <2> QED  BY <1>3, <2>1, <2>2 DEF Min
<1> QED  BY <1>2, <1>3

\* The elements of a sequence, by their positions.
LEMMA RangeElements == ASSUME NEW S, NEW s \in Seq(S), NEW x
                 PROVE  x \in Range(s) <=> \E i \in 1 .. Len(s) : s[i] = x
<1>1. Range(s) = {s[i] : i \in 1 .. Len(s)}   BY RangeEquality
<1> QED  BY <1>1

\* An element appended is one more element.
LEMMA AppendedRange == ASSUME NEW S, NEW s \in Seq(S), NEW x \in S
                       PROVE  Range(Append(s, x)) = Range(s) \union {x}
<1>1. <<x>> \in Seq(S) /\ Append(s, x) = s \o <<x>>   BY AppendIsConcat
<1>2. Range(<<x>>) = {x}
  <2>1. Range(<<x>>) = {<<x>>[i] : i \in 1 .. Len(<<x>>)}   BY <1>1, RangeEquality
  <2> QED  BY <2>1
<1>3. Range(s \o <<x>>) = Range(s) \union Range(<<x>>)   BY <1>1, RangeConcatenation
<1> QED  BY <1>1, <1>2, <1>3

-----------------------------------------------------------------------------
(* Requests.                                                                 *)

Flow      == {"open", "sendable", "send", "done"}
Finishing == {"settle", "codes", "complete", "uncount"}
Codes     == {AjaxUser}
             \union ({"open", "ajaxSend", "send", "codes", "complete", "uncount"} \X Requests)
             \union ({"sendable", "done", "settle"} \X Requests \X BOOLEAN)

\* The running functions have still to do this for r; and with this result.
HasOp(name, r)         == \E i \in 1 .. Len(ajaxCode) : ajaxCode[i][1] = name /\ ajaxCode[i][2] = r
HasWith(name, r, ok) == \E i \in 1 .. Len(ajaxCode) :
                           ajaxCode[i][1] = name /\ ajaxCode[i][2] = r /\ ajaxCode[i][3] = ok
HasFlow(r)           == \E name \in Flow : HasOp(name, r)

HasFinishing(r)      == \E name \in Finishing : HasOp(name, r)

AjaxTypes ==
    /\ options \in [Requests -> [global : BOOLEAN, timeout : BOOLEAN]]
    /\ xstate \in [Requests -> -1 .. 2]
    /\ transport \in [Requests -> BOOLEAN] /\ timeout \in [Requests -> BOOLEAN]
    /\ xhr \in [Requests -> {"unset", "open", "called"}]
    /\ globals \in [Requests -> BOOLEAN] /\ collects \in [Requests -> BOOLEAN]
    /\ active \in Int /\ begun \in Int
    /\ outcome \in [Requests -> {"pending", "success", "error"}]
    /\ coded \in [Requests -> {"none", "held", "run"}]
    /\ completed \in [Requests -> {0, 1}]
    /\ ajaxCode \in Seq(Codes)
    /\ refused \subseteq Requests /\ revived \subseteq Requests

\* ajax() goes through a request once, and what it has still to do says how far it is;
\* what is left of done() is run before it goes on.
FlowPlaces(r) ==
    /\ \A i, j \in 1 .. Len(ajaxCode) :
         /\ ajaxCode[i][1] \in Flow /\ ajaxCode[i][2] = r
         /\ ajaxCode[j][1] \in Flow /\ ajaxCode[j][2] = r
         => i = j
    /\ \A i, j \in 1 .. Len(ajaxCode) :
         /\ ajaxCode[i][1] \in Finishing /\ ajaxCode[i][2] = r
         /\ ajaxCode[j][1] \in Flow /\ ajaxCode[j][2] = r
         => i < j
    /\ \A i \in 1 .. Len(ajaxCode) :
         /\ ajaxCode[i][1] = "done" /\ ajaxCode[i][2] = r => i = 1
         /\ ajaxCode[i][1] = "send" /\ ajaxCode[i][2] = r =>
              i = 1 \/ (ajaxCode[i - 1][1] = "ajaxSend" /\ ajaxCode[i - 1][2] = r)

FlowStates(r) ==
    /\ HasOp("open", r) \/ HasOp("sendable", r) \/ HasOp("send", r) => xstate[r] \in {0, 2}
    /\ HasOp("done", r) => xstate[r] = 1
    /\ xstate[r] = 0 => HasOp("open", r) \/ HasOp("sendable", r) \/ HasOp("send", r)
    /\ HasFlow(r) => xstate[r] # -1
    /\ HasFinishing(r) => xstate[r] = 2

\* What done() does in the end: it settles, completes and uncounts.
SettledFirst(r) ==
    \A i \in 1 .. Len(ajaxCode) :
       ajaxCode[i][1] = "complete" /\ ajaxCode[i][2] = r =>
         \/ outcome[r] # "pending"
         \/ \E j \in 1 .. i - 1 : ajaxCode[j][1] = "settle" /\ ajaxCode[j][2] = r

\* Over, or sent after it was.
OverOrRevived(r) == xstate[r] = 2 \/ (xstate[r] = 1 /\ r \in revived)

Finishes(r) ==
    /\ xstate[r] = 2 => completed[r] = 1 \/ HasOp("complete", r)
    /\ completed[r] = 1 => outcome[r] # "pending" /\ OverOrRevived(r)

Holding(r) ==
    /\ coded[r] = "held" => collects[r] /\ (xstate[r] = 2 => HasOp("codes", r))
    /\ xstate[r] \in {-1, 0} => collects[r]

\* The transport and the timer are of a request under way.
UnderWay(r) ==
    /\ transport[r] => xstate[r] \in {0, 1} \/ HasOp("send", r)
    /\ xhr[r] = "open" => transport[r] /\ xstate[r] = 1 /\ ~HasOp("done", r)
    /\ timeout[r] => xstate[r] = 1

\* A request that was refused is settled as an error before anything else.
Refusals(r) ==
    /\ r \in refused => /\ OverOrRevived(r)
                        /\ outcome[r] = "error" \/ HasWith("settle", r, FALSE)
    /\ outcome[r] = "success" \/ HasWith("settle", r, TRUE) => xstate[r] = 2 /\ ~HasFlow(r)
    /\ HasWith("done", r, TRUE) \/ HasWith("settle", r, TRUE) => r \notin refused \/ outcome[r] = "error"
    /\ outcome[r] = "success" => r \notin refused

\* jQuery.active counts the requests that fire global events and were opened, until
\* they are uncounted.
UncountedOnce(r) ==
    \A i, j \in 1 .. Len(ajaxCode) :
       /\ ajaxCode[i][1] = "uncount" /\ ajaxCode[i][2] = r
       /\ ajaxCode[j][1] = "uncount" /\ ajaxCode[j][2] = r
       => i = j

Opens(r) ==
    /\ globals[r] => xstate[r] # -1 /\ ~HasOp("open", r)
    /\ UncountedOnce(r)

AjaxInvFor(r) == /\ FlowPlaces(r) /\ FlowStates(r) /\ SettledFirst(r) /\ Finishes(r)
                 /\ Holding(r) /\ UnderWay(r) /\ Refusals(r) /\ Opens(r)

Counts(r) == globals[r] /\ (xstate[r] \in {0, 1} \/ HasOp("uncount", r))
Counting  == {r \in Requests : Counts(r)}

Activity == revived = {} => /\ IsFiniteSet(Counting) /\ active = Cardinality(Counting)
                           /\ begun = IF active = 0 THEN 0 ELSE 1

AjaxInv == AjaxTypes /\ Activity /\ \A r \in Requests : AjaxInvFor(r)

LEMMA CodeFields ==
    ASSUME NEW op \in Codes
    PROVE  /\ op[1] # "user" => op[2] \in Requests
           /\ op[1] \in {"sendable", "done", "settle"} => op[3] \in BOOLEAN
BY DEF Codes, AjaxUser

LEMMA CodesFor ==
    ASSUME NEW r \in Requests
    PROVE  /\ AjaxUser \in Codes
           /\ \A name \in {"open", "ajaxSend", "send", "codes", "complete", "uncount"} :
                <<name, r>> \in Codes
           /\ \A name \in {"sendable", "done", "settle"}, ok \in BOOLEAN : <<name, r, ok>> \in Codes
BY DEF Codes, AjaxUser

\* What the code is after some of it was put before what was left.
LEMMA CodeStep ==
    ASSUME NEW S, NEW code \in Seq(S), NEW next \in Seq(S), NEW gone \in {0, 1}, NEW code2,
           gone <= Len(code),
           code2 = next \o (IF gone = 1 THEN Tail(code) ELSE code)
    PROVE  /\ code2 \in Seq(S)
           /\ Len(code2) = Len(next) + Len(code) - gone
           /\ \A i \in 1 .. Len(next) : i \in 1 .. Len(code2) /\ code2[i] = next[i]
           /\ \A i \in 1 .. Len(code2) : i > Len(next) =>
                 /\ i - Len(next) + gone \in 1 + gone .. Len(code)
                 /\ code2[i] = code[i - Len(next) + gone]
           /\ \A j \in 1 + gone .. Len(code) :
                 /\ j + Len(next) - gone \in Len(next) + 1 .. Len(code2)
                 /\ code2[j + Len(next) - gone] = code[j]
<1> DEFINE rest == IF gone = 1 THEN Tail(code) ELSE code
<1>1. /\ rest \in Seq(S) /\ Len(rest) = Len(code) - gone
      /\ \A i \in 1 .. Len(rest) : rest[i] = code[i + gone]
  OBVIOUS
<1> HIDE DEF rest
<1>2. code2 = next \o rest
  BY DEF rest
<1>2a. /\ next \o rest \in Seq(S) /\ Len(next \o rest) = Len(next) + Len(rest)
      /\ \A i \in 1 .. Len(next) + Len(rest) :
           (next \o rest)[i] = IF i <= Len(next) THEN next[i] ELSE rest[i - Len(next)]
  <2>1. rest \in Seq(S)   BY <1>1
  <2> QED  BY <2>1, ConcatProperties
<1>3. /\ code2 \in Seq(S) /\ Len(code2) = Len(next) + Len(rest)
      /\ \A i \in 1 .. Len(code2) : code2[i] = IF i <= Len(next) THEN next[i] ELSE rest[i - Len(next)]
  BY <1>2a, <1>2
<1>4. Len(next) \in Nat /\ Len(code) \in Nat /\ Len(rest) \in Nat
  BY <1>1
<1>5. \A i \in 1 .. Len(next) : i \in 1 .. Len(code2) /\ code2[i] = next[i]
  BY <1>3, <1>4
<1>6. ASSUME NEW i \in 1 .. Len(code2), i > Len(next)
      PROVE  /\ i - Len(next) + gone \in 1 + gone .. Len(code)
             /\ code2[i] = code[i - Len(next) + gone]
  <2>1. i - Len(next) \in 1 .. Len(rest)   BY <1>3, <1>4, <1>6
  <2>2. code2[i] = rest[i - Len(next)]   BY <1>3, <1>4, <1>6
  <2> QED  BY <1>1, <1>4, <2>1, <2>2
<1>7. ASSUME NEW j \in 1 + gone .. Len(code)
      PROVE  /\ j + Len(next) - gone \in Len(next) + 1 .. Len(code2)
             /\ code2[j + Len(next) - gone] = code[j]
  <2>1. j + Len(next) - gone \in 1 .. Len(code2) /\ j + Len(next) - gone > Len(next)
    BY <1>1, <1>3, <1>4
  <2>2. (j + Len(next) - gone) - Len(next) + gone = j   BY <1>4
  <2>3. code2[j + Len(next) - gone] = code[(j + Len(next) - gone) - Len(next) + gone]
    BY <1>6, <2>1
  <2> QED  BY <2>1, <2>2, <2>3, <1>4
<1> QED  BY <1>1, <1>3, <1>5, <1>6, <1>7

\* The same for ajaxCode, and for what it holds of a request.
CodeBecomes(next, gone) == ajaxCode' = next \o (IF gone = 1 THEN Tail(ajaxCode) ELSE ajaxCode)

LEMMA CodeStepOf ==
    ASSUME ajaxCode \in Seq(Codes), NEW next \in Seq(Codes), NEW gone \in {0, 1},
           gone <= Len(ajaxCode), CodeBecomes(next, gone)
    PROVE  /\ ajaxCode' \in Seq(Codes)
           /\ Len(ajaxCode') = Len(next) + Len(ajaxCode) - gone
           /\ \A i \in 1 .. Len(next) : i \in 1 .. Len(ajaxCode') /\ ajaxCode'[i] = next[i]
           /\ \A i \in 1 .. Len(ajaxCode') : i > Len(next) =>
                 /\ i - Len(next) + gone \in 1 + gone .. Len(ajaxCode)
                 /\ ajaxCode'[i] = ajaxCode[i - Len(next) + gone]
           /\ \A j \in 1 + gone .. Len(ajaxCode) :
                 /\ j + Len(next) - gone \in Len(next) + 1 .. Len(ajaxCode')
                 /\ ajaxCode'[j + Len(next) - gone] = ajaxCode[j]
BY CodeStep DEF CodeBecomes

LEMMA HeldAfter ==
    ASSUME ajaxCode \in Seq(Codes), NEW next \in Seq(Codes), NEW gone \in {0, 1},
           gone <= Len(ajaxCode), CodeBecomes(next, gone)
    PROVE  /\ \A i \in 1 .. Len(ajaxCode') :
                \/ \E k \in 1 .. Len(next) : ajaxCode'[i] = next[k]
                \/ \E j \in 1 + gone .. Len(ajaxCode) : ajaxCode'[i] = ajaxCode[j]
           /\ \A k \in 1 .. Len(next) : \E i \in 1 .. Len(ajaxCode') : ajaxCode'[i] = next[k]
           /\ \A j \in 1 + gone .. Len(ajaxCode) :
                \E i \in 1 .. Len(ajaxCode') : ajaxCode'[i] = ajaxCode[j]
<1> DEFINE c2 == ajaxCode'
<1>1. Len(next) \in Nat /\ Len(ajaxCode) \in Nat
  OBVIOUS
<1>2. /\ \A i \in 1 .. Len(next) : i \in 1 .. Len(c2) /\ c2[i] = next[i]
      /\ \A i \in 1 .. Len(c2) : i > Len(next) =>
            i - Len(next) + gone \in 1 + gone .. Len(ajaxCode) /\ c2[i] = ajaxCode[i - Len(next) + gone]
      /\ \A j \in 1 + gone .. Len(ajaxCode) :
            j + Len(next) - gone \in Len(next) + 1 .. Len(c2) /\ c2[j + Len(next) - gone] = ajaxCode[j]
      /\ Len(c2) \in Nat
  <2>1. c2 \in Seq(Codes)   BY CodeStepOf
  <2>2. Len(c2) \in Nat   BY <2>1
  <2> QED  BY <2>2, CodeStepOf
<1> HIDE DEF c2
<1>4. ASSUME NEW i \in 1 .. Len(c2)
      PROVE  \/ \E k \in 1 .. Len(next) : c2[i] = next[k]
             \/ \E j \in 1 + gone .. Len(ajaxCode) : c2[i] = ajaxCode[j]
  <2>1. CASE i > Len(next)   BY <1>2, <2>1
  <2>2. CASE ~(i > Len(next))
    <3>1. i \in 1 .. Len(next)   BY <1>1, <1>2, <2>2
    <3> QED  BY <1>2, <3>1
  <2> QED  BY <2>1, <2>2
<1>5. \A k \in 1 .. Len(next) : \E i \in 1 .. Len(c2) : c2[i] = next[k]
  BY <1>2
<1>6. \A j \in 1 + gone .. Len(ajaxCode) : \E i \in 1 .. Len(c2) : c2[i] = ajaxCode[j]
  <2> TAKE j \in 1 + gone .. Len(ajaxCode)
  <2>1. j + Len(next) - gone \in 1 .. Len(c2)   BY <1>1, <1>2
  <2> QED  BY <1>2, <2>1
<1> QED  BY <1>4, <1>5, <1>6 DEF c2

LEMMA HasAfter ==
    ASSUME ajaxCode \in Seq(Codes), NEW next \in Seq(Codes), NEW gone \in {0, 1},
           gone <= Len(ajaxCode), CodeBecomes(next, gone), NEW n, NEW q
    PROVE  HasOp(n, q)' <=> \/ \E k \in 1 .. Len(next) : next[k][1] = n /\ next[k][2] = q
                          \/ \E j \in 1 + gone .. Len(ajaxCode) :
                                ajaxCode[j][1] = n /\ ajaxCode[j][2] = q
<1> DEFINE c2 == ajaxCode'
           Holds(op) == op[1] = n /\ op[2] = q
<1>1. /\ \A i \in 1 .. Len(c2) : \/ \E k \in 1 .. Len(next) : c2[i] = next[k]
                                 \/ \E j \in 1 + gone .. Len(ajaxCode) : c2[i] = ajaxCode[j]
      /\ \A k \in 1 .. Len(next) : \E i \in 1 .. Len(c2) : c2[i] = next[k]
      /\ \A j \in 1 + gone .. Len(ajaxCode) : \E i \in 1 .. Len(c2) : c2[i] = ajaxCode[j]
  BY HeldAfter
<1>2. HasOp(n, q)' <=> \E i \in 1 .. Len(c2) : Holds(c2[i])
  BY DEF HasOp
<1> HIDE DEF c2, Holds
<1>3. (\E i \in 1 .. Len(c2) : Holds(c2[i])) <=>
         \/ \E k \in 1 .. Len(next) : Holds(next[k])
         \/ \E j \in 1 + gone .. Len(ajaxCode) : Holds(ajaxCode[j])
  BY <1>1, Zenon
<1> QED  BY <1>2, <1>3 DEF Holds

LEMMA HasWithAfter ==
    ASSUME ajaxCode \in Seq(Codes), NEW next \in Seq(Codes), NEW gone \in {0, 1},
           gone <= Len(ajaxCode), CodeBecomes(next, gone), NEW n, NEW q, NEW ok
    PROVE  HasWith(n, q, ok)' <=>
              \/ \E k \in 1 .. Len(next) : next[k][1] = n /\ next[k][2] = q /\ next[k][3] = ok
              \/ \E j \in 1 + gone .. Len(ajaxCode) :
                    ajaxCode[j][1] = n /\ ajaxCode[j][2] = q /\ ajaxCode[j][3] = ok
<1> DEFINE c2 == ajaxCode'
           Holds(op) == op[1] = n /\ op[2] = q /\ op[3] = ok
<1>1. /\ \A i \in 1 .. Len(c2) : \/ \E k \in 1 .. Len(next) : c2[i] = next[k]
                                 \/ \E j \in 1 + gone .. Len(ajaxCode) : c2[i] = ajaxCode[j]
      /\ \A k \in 1 .. Len(next) : \E i \in 1 .. Len(c2) : c2[i] = next[k]
      /\ \A j \in 1 + gone .. Len(ajaxCode) : \E i \in 1 .. Len(c2) : c2[i] = ajaxCode[j]
  BY HeldAfter
<1>2. HasWith(n, q, ok)' <=> \E i \in 1 .. Len(c2) : Holds(c2[i])
  BY DEF HasWith
<1> HIDE DEF c2, Holds
<1>3. (\E i \in 1 .. Len(c2) : Holds(c2[i])) <=>
         \/ \E k \in 1 .. Len(next) : Holds(next[k])
         \/ \E j \in 1 + gone .. Len(ajaxCode) : Holds(ajaxCode[j])
  BY <1>1, Zenon
<1> QED  BY <1>2, <1>3 DEF Holds

\* What the running functions have to do for r after such a step.
LEMMA MineAfter ==
    ASSUME ajaxCode \in Seq(Codes), NEW next \in Seq(Codes), NEW gone \in {0, 1},
           gone <= Len(ajaxCode), CodeBecomes(next, gone), NEW r, NEW n
    PROVE  /\ HasOp(n, r)' => HasOp(n, r) \/ \E k \in 1 .. Len(next) : next[k][1] = n /\ next[k][2] = r
           /\ (\E k \in 1 .. Len(next) : next[k][1] = n /\ next[k][2] = r) => HasOp(n, r)'
           /\ HasOp(n, r) /\ (gone = 1 => ajaxCode[1][1] # n \/ ajaxCode[1][2] # r) => HasOp(n, r)'
           /\ FlowPlaces(r) /\ gone = 1 /\ ajaxCode[1][1] \in Flow /\ ajaxCode[1][2] = r /\ n \in Flow =>
                (HasOp(n, r)' => \E k \in 1 .. Len(next) : next[k][1] = n /\ next[k][2] = r)
<1>0. Len(ajaxCode) \in Nat /\ gone \in Nat
  OBVIOUS
<1>1. HasOp(n, r)' <=> \/ \E k \in 1 .. Len(next) : next[k][1] = n /\ next[k][2] = r
                     \/ \E j \in 1 + gone .. Len(ajaxCode) : ajaxCode[j][1] = n /\ ajaxCode[j][2] = r
  BY HasAfter
<1>2. (\E j \in 1 + gone .. Len(ajaxCode) : ajaxCode[j][1] = n /\ ajaxCode[j][2] = r) => HasOp(n, r)
  BY <1>0 DEF HasOp
<1>3. HasOp(n, r) /\ (gone = 1 => ajaxCode[1][1] # n \/ ajaxCode[1][2] # r)
        => \E j \in 1 + gone .. Len(ajaxCode) : ajaxCode[j][1] = n /\ ajaxCode[j][2] = r
  BY <1>0 DEF HasOp
<1>4. ASSUME FlowPlaces(r), gone = 1, ajaxCode[1][1] \in Flow, ajaxCode[1][2] = r, n \in Flow,
             NEW j \in 1 + gone .. Len(ajaxCode), ajaxCode[j][1] = n, ajaxCode[j][2] = r
      PROVE  FALSE
  <2>1. j \in 1 .. Len(ajaxCode) /\ 1 \in 1 .. Len(ajaxCode) /\ j # 1   BY <1>0, <1>4
  <2> QED  BY <1>4, <2>1 DEF FlowPlaces
<1> QED  BY <1>1, <1>2, <1>3, <1>4

LEMMA MineWithAfter ==
    ASSUME ajaxCode \in Seq(Codes), NEW next \in Seq(Codes), NEW gone \in {0, 1},
           gone <= Len(ajaxCode), CodeBecomes(next, gone), NEW r, NEW n, NEW ok
    PROVE  /\ HasWith(n, r, ok)' =>
                \/ HasWith(n, r, ok)
                \/ \E k \in 1 .. Len(next) : next[k][1] = n /\ next[k][2] = r /\ next[k][3] = ok
           /\ (\E k \in 1 .. Len(next) : next[k][1] = n /\ next[k][2] = r /\ next[k][3] = ok)
                => HasWith(n, r, ok)'
           /\ HasWith(n, r, ok) /\ (gone = 1 => ajaxCode[1][1] # n \/ ajaxCode[1][2] # r)
                => HasWith(n, r, ok)'
<1>0. Len(ajaxCode) \in Nat /\ gone \in Nat
  OBVIOUS
<1>1. HasWith(n, r, ok)' <=>
         \/ \E k \in 1 .. Len(next) : next[k][1] = n /\ next[k][2] = r /\ next[k][3] = ok
         \/ \E j \in 1 + gone .. Len(ajaxCode) :
               ajaxCode[j][1] = n /\ ajaxCode[j][2] = r /\ ajaxCode[j][3] = ok
  BY HasWithAfter
<1>2. (\E j \in 1 + gone .. Len(ajaxCode) : ajaxCode[j][1] = n /\ ajaxCode[j][2] = r /\ ajaxCode[j][3] = ok)
         => HasWith(n, r, ok)
  BY <1>0 DEF HasWith
<1>3. HasWith(n, r, ok) /\ (gone = 1 => ajaxCode[1][1] # n \/ ajaxCode[1][2] # r)
        => \E j \in 1 + gone .. Len(ajaxCode) :
              ajaxCode[j][1] = n /\ ajaxCode[j][2] = r /\ ajaxCode[j][3] = ok
  BY <1>0 DEF HasWith
<1> QED  BY <1>1, <1>2, <1>3

\* One piece of code of ajax(), still, where it may be; nothing of it was run or added.
LEMMA OldPlaces ==
    ASSUME ajaxCode \in Seq(Codes), NEW next \in Seq(Codes), NEW gone \in {0, 1},
           gone <= Len(ajaxCode), CodeBecomes(next, gone), NEW r, FlowPlaces(r),
           \A k \in 1 .. Len(next) : next[k][1] \in Flow => next[k][2] # r,
           gone = 1 => /\ ajaxCode[1][1] \in Flow => ajaxCode[1][2] # r
                       /\ Len(next) = 0 \/ ajaxCode[1][1] # "ajaxSend",
           gone = 0 => Len(ajaxCode) = 0 \/ ajaxCode[1][1] \in {"user", "ajaxSend"}
    PROVE  FlowPlaces(r)'
<1> DEFINE c2 == ajaxCode'
<1>0. Len(next) \in Nat /\ Len(ajaxCode) \in Nat /\ gone \in Nat
  OBVIOUS
<1>4. /\ \A i \in 1 .. Len(next) : i \in 1 .. Len(c2) /\ c2[i] = next[i]
      /\ \A i \in 1 .. Len(c2) : i > Len(next) =>
            i - Len(next) + gone \in 1 + gone .. Len(ajaxCode) /\ c2[i] = ajaxCode[i - Len(next) + gone]
      /\ Len(c2) \in Nat
  <2>1. c2 \in Seq(Codes)   BY CodeStepOf
  <2>2. Len(c2) \in Nat   BY <2>1
  <2> QED  BY <2>2, CodeStepOf
<1> HIDE DEF c2
<1>5. \A i \in 1 .. Len(c2) : c2[i][1] \in Flow /\ c2[i][2] = r =>
         /\ i > Len(next) /\ i - Len(next) + gone \in 1 .. Len(ajaxCode)
         /\ c2[i] = ajaxCode[i - Len(next) + gone]
  <2> TAKE i \in 1 .. Len(c2)
  <2> HAVE c2[i][1] \in Flow /\ c2[i][2] = r
  <2>1. ~(i \in 1 .. Len(next))   BY <1>4
  <2>2. i > Len(next)   BY <1>0, <2>1
  <2> QED  BY <1>0, <1>4, <2>2
<1>6. \A i \in 1 .. Len(c2) : c2[i][1] \in Flow /\ c2[i][2] = r => i - Len(next) + gone # 1
  <2> SUFFICES ASSUME NEW i \in 1 .. Len(c2), c2[i][1] \in Flow, c2[i][2] = r,
                      i - Len(next) + gone = 1
               PROVE  FALSE
    OBVIOUS
  <2>1. i > Len(next) /\ c2[i] = ajaxCode[1] /\ 1 \in 1 .. Len(ajaxCode)   BY <1>5
  <2>2. gone = 0   BY <1>0, <2>1
  <2> QED  BY <1>0, <2>1, <2>2 DEF Flow
<1>7. ASSUME NEW i \in 1 .. Len(c2), NEW j \in 1 .. Len(c2),
             c2[i][1] \in Flow, c2[i][2] = r, c2[j][1] \in Flow, c2[j][2] = r
      PROVE  i = j
  <2>1. PICK x \in 1 .. Len(ajaxCode) : x = i - Len(next) + gone /\ c2[i] = ajaxCode[x]
    BY <1>5, <1>7
  <2>2. PICK y \in 1 .. Len(ajaxCode) : y = j - Len(next) + gone /\ c2[j] = ajaxCode[y]
    BY <1>5, <1>7
  <2>3. x = y   BY <1>7, <2>1, <2>2 DEF FlowPlaces
  <2> QED  BY <1>0, <2>1, <2>2, <2>3
<1>8. ASSUME NEW i \in 1 .. Len(c2), c2[i][1] = "done", c2[i][2] = r
      PROVE  FALSE
  <2>1. c2[i][1] \in Flow   BY <1>8 DEF Flow
  <2> DEFINE j == i - Len(next) + gone
  <2>2. j \in 1 .. Len(ajaxCode) /\ c2[i] = ajaxCode[j] /\ j # 1
    BY <1>5, <1>6, <1>8, <2>1
  <2> HIDE DEF j
  <2> QED  BY <1>8, <2>2 DEF FlowPlaces
<1>9. ASSUME NEW i \in 1 .. Len(c2), c2[i][1] = "send", c2[i][2] = r
      PROVE  i = 1 \/ (c2[i - 1][1] = "ajaxSend" /\ c2[i - 1][2] = r)
  <2> DEFINE j == i - Len(next) + gone
  <2>1. c2[i][1] \in Flow   BY <1>9 DEF Flow
  <2>2. i > Len(next) /\ j \in 1 .. Len(ajaxCode) /\ c2[i] = ajaxCode[j] /\ j # 1
    BY <1>5, <1>6, <1>9, <2>1
  <2>3. ajaxCode[j - 1][1] = "ajaxSend" /\ ajaxCode[j - 1][2] = r
    BY <1>9, <2>2 DEF FlowPlaces
  <2>4. CASE gone = 1 /\ j - 1 = 1
    <3>1. Len(next) = 0   BY <2>3, <2>4
    <3> QED  BY <1>0, <2>2, <2>4, <3>1
  <2>5. CASE ~(gone = 1 /\ j - 1 = 1)
    <3>1. i \in Nat /\ i <= Len(c2)   BY <1>4
    <3>2. j - 1 >= 1 + gone   BY <1>0, <2>2, <2>5, <3>1
    <3>3. i - 1 > Len(next) /\ i - 1 \in 1 .. Len(c2) /\ (i - 1) - Len(next) + gone = j - 1
      BY <1>0, <1>4, <3>1, <3>2
    <3>4. c2[i - 1] = ajaxCode[j - 1]   BY <1>4, <3>3
    <3> QED  BY <2>3, <3>4
  <2> QED  BY <2>4, <2>5
<1>10. ASSUME NEW i \in 1 .. Len(c2), NEW j \in 1 .. Len(c2),
              c2[i][1] \in Finishing, c2[i][2] = r, c2[j][1] \in Flow, c2[j][2] = r
       PROVE  i < j
  <2>1. /\ j > Len(next) /\ j - Len(next) + gone \in 1 .. Len(ajaxCode)
        /\ c2[j] = ajaxCode[j - Len(next) + gone]
    BY <1>5, <1>10
  <2>2. CASE i > Len(next)
    <3>1. i - Len(next) + gone \in 1 .. Len(ajaxCode) /\ c2[i] = ajaxCode[i - Len(next) + gone]
      BY <1>0, <1>4, <2>2
    <3>2. i - Len(next) + gone < j - Len(next) + gone
      BY <1>10, <2>1, <3>1 DEF FlowPlaces
    <3> QED  BY <1>0, <3>2
  <2>3. CASE ~(i > Len(next))   BY <1>0, <2>1, <2>3
  <2> QED  BY <2>2, <2>3
<1> QED  BY <1>7, <1>8, <1>9, <1>10 DEF FlowPlaces, c2

\* A new piece of it, when what there was of it was run or there was none.
LEMMA NewPlaces ==
    ASSUME ajaxCode \in Seq(Codes), NEW next \in Seq(Codes), NEW gone \in {0, 1},
           gone <= Len(ajaxCode), CodeBecomes(next, gone), NEW r, FlowPlaces(r),
           \/ gone = 1 /\ ajaxCode[1][1] \in Flow /\ ajaxCode[1][2] = r
           \/ ~HasFlow(r) /\ ~HasFinishing(r),
           \A i, j \in 1 .. Len(next) :
              next[i][1] \in Flow /\ next[i][2] = r /\ next[j][1] \in Flow /\ next[j][2] = r => i = j,
           \A i, j \in 1 .. Len(next) :
              next[i][1] \in Finishing /\ next[j][1] \in Flow => i < j,
           \A k \in 1 .. Len(next) :
              /\ next[k][1] = "done" => k = 1
              /\ next[k][1] = "send" => k = 1 \/ (next[k - 1][1] = "ajaxSend" /\ next[k - 1][2] = r)
    PROVE  FlowPlaces(r)'
<1> DEFINE c2 == ajaxCode'
<1>0. Len(next) \in Nat /\ Len(ajaxCode) \in Nat /\ gone \in Nat
  OBVIOUS
<1>4. /\ \A i \in 1 .. Len(next) : i \in 1 .. Len(c2) /\ c2[i] = next[i]
      /\ \A i \in 1 .. Len(c2) : i > Len(next) =>
            i - Len(next) + gone \in 1 + gone .. Len(ajaxCode) /\ c2[i] = ajaxCode[i - Len(next) + gone]
      /\ Len(c2) \in Nat
  <2>1. c2 \in Seq(Codes)   BY CodeStepOf
  <2>2. Len(c2) \in Nat   BY <2>1
  <2> QED  BY <2>2, CodeStepOf
<1> HIDE DEF c2
<1>5. ASSUME NEW i \in 1 .. Len(c2), c2[i][1] \in Flow, c2[i][2] = r
      PROVE  i \in 1 .. Len(next) /\ c2[i] = next[i]
  <2>1. CASE i > Len(next)
    <3> DEFINE j == i - Len(next) + gone
    <3>1. j \in 1 + gone .. Len(ajaxCode) /\ c2[i] = ajaxCode[j]   BY <1>4, <2>1
    <3> HIDE DEF j
    <3>2. j \in 1 .. Len(ajaxCode) /\ ajaxCode[j][1] \in Flow /\ ajaxCode[j][2] = r
      BY <1>0, <1>5, <3>1
    <3>3. HasFlow(r)   BY <3>2 DEF HasFlow, HasOp
    <3>4. gone = 1 /\ ajaxCode[1][1] \in Flow /\ ajaxCode[1][2] = r   BY <3>3
    <3>5. j = 1
      <4>1. 1 \in 1 .. Len(ajaxCode)   BY <1>0, <3>4
      <4> QED  BY <3>2, <3>4, <4>1 DEF FlowPlaces
    <3> QED  BY <1>0, <3>1, <3>4, <3>5
  <2>2. CASE ~(i > Len(next))
    <3>1. i \in 1 .. Len(next)   BY <1>0, <1>4, <2>2
    <3> QED  BY <1>4, <3>1
  <2> QED  BY <2>1, <2>2
<1>6. \A i, j \in 1 .. Len(c2) :
         c2[i][1] \in Flow /\ c2[i][2] = r /\ c2[j][1] \in Flow /\ c2[j][2] = r => i = j
  BY <1>5
<1>7. ASSUME NEW i \in 1 .. Len(c2)
      PROVE  /\ c2[i][1] = "done" /\ c2[i][2] = r => i = 1
             /\ c2[i][1] = "send" /\ c2[i][2] = r =>
                  i = 1 \/ (c2[i - 1][1] = "ajaxSend" /\ c2[i - 1][2] = r)
  <2>1. CASE c2[i][1] = "done" /\ c2[i][2] = r
    <3>1. c2[i][1] \in Flow   BY <2>1 DEF Flow
    <3>2. i \in 1 .. Len(next) /\ c2[i] = next[i]   BY <1>5, <2>1, <3>1
    <3> QED  BY <2>1, <3>2
  <2>2. CASE c2[i][1] = "send" /\ c2[i][2] = r
    <3>1. c2[i][1] \in Flow   BY <2>2 DEF Flow
    <3>2. i \in 1 .. Len(next) /\ c2[i] = next[i]   BY <1>5, <2>2, <3>1
    <3>3. i # 1 => i - 1 \in 1 .. Len(next)   BY <1>0, <3>2
    <3>4. i # 1 => c2[i - 1] = next[i - 1]   BY <1>4, <3>3
    <3> QED  BY <2>2, <3>2, <3>4
  <2> QED  BY <2>1, <2>2
<1>8. ASSUME NEW i \in 1 .. Len(c2), NEW j \in 1 .. Len(c2),
             c2[i][1] \in Finishing, c2[i][2] = r, c2[j][1] \in Flow, c2[j][2] = r
      PROVE  i < j
  <2>1. j \in 1 .. Len(next) /\ c2[j] = next[j]   BY <1>5, <1>8
  <2>2. CASE i > Len(next)
    <3> DEFINE k == i - Len(next) + gone
    <3>1. k \in 1 + gone .. Len(ajaxCode) /\ c2[i] = ajaxCode[k]   BY <1>4, <2>2
    <3> HIDE DEF k
    <3>2. k \in 1 .. Len(ajaxCode) /\ ajaxCode[k][1] \in Finishing /\ ajaxCode[k][2] = r
      BY <1>0, <1>8, <3>1
    <3>3. HasFinishing(r)   BY <3>2 DEF HasFinishing, HasOp
    <3>4. gone = 1 /\ ajaxCode[1][1] \in Flow /\ ajaxCode[1][2] = r   BY <3>3
    <3>5. k < 1
      <4>1. 1 \in 1 .. Len(ajaxCode)   BY <1>0, <3>4
      <4> QED  BY <3>2, <3>4, <4>1 DEF FlowPlaces
    <3> QED  BY <1>0, <3>1, <3>4, <3>5
  <2>3. CASE ~(i > Len(next))
    <3>1. i \in 1 .. Len(next)   BY <1>0, <1>4, <2>3
    <3> QED  BY <1>4, <1>8, <2>1, <3>1
  <2> QED  BY <2>2, <2>3
<1> QED  BY <1>6, <1>7, <1>8 DEF FlowPlaces, c2

\* A request is settled before its complete callbacks are run.
LEMMA SettledFirstAfter ==
    ASSUME ajaxCode \in Seq(Codes), NEW next \in Seq(Codes), NEW gone \in {0, 1},
           gone <= Len(ajaxCode), CodeBecomes(next, gone), NEW r, SettledFirst(r),
           \A k \in 1 .. Len(next) : next[k][1] = "complete" /\ next[k][2] = r =>
              \E m \in 1 .. k - 1 : next[m][1] = "settle" /\ next[m][2] = r,
           outcome[r] # "pending" => outcome'[r] # "pending",
           gone = 1 /\ ajaxCode[1][1] = "settle" /\ ajaxCode[1][2] = r => outcome'[r] # "pending"
    PROVE  SettledFirst(r)'
<1> DEFINE c2 == ajaxCode'
<1>0. Len(next) \in Nat /\ Len(ajaxCode) \in Nat /\ gone \in Nat
  OBVIOUS
<1>4. /\ \A i \in 1 .. Len(next) : i \in 1 .. Len(c2) /\ c2[i] = next[i]
      /\ \A i \in 1 .. Len(c2) : i > Len(next) =>
            i - Len(next) + gone \in 1 + gone .. Len(ajaxCode) /\ c2[i] = ajaxCode[i - Len(next) + gone]
      /\ \A j \in 1 + gone .. Len(ajaxCode) :
            j + Len(next) - gone \in Len(next) + 1 .. Len(c2) /\ c2[j + Len(next) - gone] = ajaxCode[j]
      /\ Len(c2) \in Nat
  <2>1. c2 \in Seq(Codes)   BY CodeStepOf
  <2>2. Len(c2) \in Nat   BY <2>1
  <2> QED  BY <2>2, CodeStepOf
<1> HIDE DEF c2
<1>5. SUFFICES ASSUME NEW i \in 1 .. Len(c2), c2[i][1] = "complete", c2[i][2] = r,
                      outcome'[r] = "pending"
               PROVE  \E j \in 1 .. i - 1 : c2[j][1] = "settle" /\ c2[j][2] = r
  BY DEF SettledFirst, c2
<1>6. CASE i > Len(next)
  <2> DEFINE k == i - Len(next) + gone
  <2>1. k \in 1 + gone .. Len(ajaxCode) /\ c2[i] = ajaxCode[k]   BY <1>4, <1>6
  <2>2. k \in 1 .. Len(ajaxCode)   BY <1>0, <2>1
  <2>3. PICK j \in 1 .. k - 1 : ajaxCode[j][1] = "settle" /\ ajaxCode[j][2] = r
    <3> HIDE DEF k
    <3> QED  BY <1>5, <2>1, <2>2 DEF SettledFirst
  <2>4. j \in 1 + gone .. Len(ajaxCode)
    <3>1. j \in Nat /\ 1 <= j /\ j <= Len(ajaxCode)   BY <1>0, <2>2, <2>3
    <3>2. gone = 1 => j # 1   BY <1>5, <2>3
    <3> QED  BY <1>0, <3>1, <3>2
  <2>5. c2[j + Len(next) - gone] = ajaxCode[j] /\ j + Len(next) - gone \in Len(next) + 1 .. Len(c2)
    BY <1>4, <2>4
  <2>6. j + Len(next) - gone \in 1 .. i - 1
    <3>1. i \in Nat /\ j \in Nat /\ gone \in Nat   BY <1>0, <1>4, <2>3, <1>5
    <3>2. j + Len(next) - gone >= 1   BY <1>0, <2>5, <3>1
    <3>3. j <= i - Len(next) + gone - 1   BY <1>0, <2>3, <3>1
    <3>4. j + Len(next) - gone <= i - 1   BY <1>0, <3>1, <3>3
    <3> QED  BY <1>0, <3>1, <3>2, <3>4
  <2> QED  BY <2>3, <2>5, <2>6
<1>7. CASE ~(i > Len(next))
  <2>1. i \in 1 .. Len(next) /\ c2[i] = next[i]   BY <1>0, <1>4, <1>7
  <2>2. PICK m \in 1 .. i - 1 : next[m][1] = "settle" /\ next[m][2] = r   BY <1>5, <2>1
  <2>3. m \in 1 .. Len(next)   BY <1>0, <2>1, <2>2
  <2> QED  BY <1>4, <2>2, <2>3
<1> QED  BY <1>6, <1>7

\* It is uncounted once.
LEMMA UncountedOnceAfter ==
    ASSUME ajaxCode \in Seq(Codes), NEW next \in Seq(Codes), NEW gone \in {0, 1},
           gone <= Len(ajaxCode), CodeBecomes(next, gone), NEW r, UncountedOnce(r),
           \/ \A k \in 1 .. Len(next) : next[k][1] # "uncount" \/ next[k][2] # r
           \/ /\ ~HasOp("uncount", r)
              /\ \A i, j \in 1 .. Len(next) :
                    next[i][1] = "uncount" /\ next[j][1] = "uncount" => i = j
    PROVE  UncountedOnce(r)'
<1> DEFINE c2 == ajaxCode'
<1>0. Len(next) \in Nat /\ Len(ajaxCode) \in Nat /\ gone \in Nat
  OBVIOUS
<1>4. /\ \A i \in 1 .. Len(next) : i \in 1 .. Len(c2) /\ c2[i] = next[i]
      /\ \A i \in 1 .. Len(c2) : i > Len(next) =>
            i - Len(next) + gone \in 1 + gone .. Len(ajaxCode) /\ c2[i] = ajaxCode[i - Len(next) + gone]
      /\ Len(c2) \in Nat
  <2>1. c2 \in Seq(Codes)   BY CodeStepOf
  <2>2. Len(c2) \in Nat   BY <2>1
  <2> QED  BY <2>2, CodeStepOf
<1> HIDE DEF c2
<1>5. ASSUME NEW i \in 1 .. Len(c2), c2[i][1] = "uncount", c2[i][2] = r
      PROVE  \/ i \in 1 .. Len(next) /\ c2[i] = next[i]
             \/ /\ HasOp("uncount", r) /\ i - Len(next) + gone \in 1 .. Len(ajaxCode)
                /\ c2[i] = ajaxCode[i - Len(next) + gone]
  <2>1. CASE i > Len(next)
    <3>1. i - Len(next) + gone \in 1 .. Len(ajaxCode) /\ c2[i] = ajaxCode[i - Len(next) + gone]
      BY <1>0, <1>4, <2>1
    <3> QED  BY <1>5, <3>1 DEF HasOp
  <2>2. CASE ~(i > Len(next))
    <3>1. i \in 1 .. Len(next)   BY <1>0, <1>4, <2>2
    <3> QED  BY <1>4, <3>1
  <2> QED  BY <2>1, <2>2
<1>6. ASSUME NEW i \in 1 .. Len(c2), NEW j \in 1 .. Len(c2),
             c2[i][1] = "uncount", c2[i][2] = r, c2[j][1] = "uncount", c2[j][2] = r
      PROVE  i = j
  <2>1. CASE \A k \in 1 .. Len(next) : next[k][1] # "uncount" \/ next[k][2] # r
    <3>1. /\ i - Len(next) + gone \in 1 .. Len(ajaxCode) /\ c2[i] = ajaxCode[i - Len(next) + gone]
          /\ j - Len(next) + gone \in 1 .. Len(ajaxCode) /\ c2[j] = ajaxCode[j - Len(next) + gone]
      BY <1>5, <1>6, <2>1
    <3>2. i - Len(next) + gone = j - Len(next) + gone   BY <1>6, <3>1 DEF UncountedOnce
    <3> QED  BY <1>0, <3>2
  <2>2. CASE /\ ~HasOp("uncount", r)
             /\ \A k, m \in 1 .. Len(next) :
                   next[k][1] = "uncount" /\ next[m][1] = "uncount" => k = m
    <3>1. i \in 1 .. Len(next) /\ c2[i] = next[i] /\ j \in 1 .. Len(next) /\ c2[j] = next[j]
      BY <1>5, <1>6, <2>2
    <3> QED  BY <1>6, <2>2, <3>1
  <2> QED  BY <2>1, <2>2
<1> QED  BY <1>6 DEF UncountedOnce, c2

\* A turn that is r's: what is run and what is put before the rest is r's.
TurnOf(r, next, gone) ==
    /\ next \in Seq(Codes) /\ gone \in {0, 1} /\ gone <= Len(ajaxCode)
    /\ CodeBecomes(next, gone)
    /\ \A k \in 1 .. Len(next) : next[k][1] = "user" \/ next[k][2] = r
    /\ gone = 1 => /\ ajaxCode[1][1] = "user" \/ ajaxCode[1][2] = r
                   /\ Len(next) = 0 \/ ajaxCode[1][1] # "ajaxSend"
    /\ gone = 0 => Len(ajaxCode) = 0 \/ ajaxCode[1][1] \in {"user", "ajaxSend"}

Untouched(q) ==
    /\ xstate'[q] = xstate[q] /\ transport'[q] = transport[q] /\ xhr'[q] = xhr[q]
    /\ timeout'[q] = timeout[q] /\ globals'[q] = globals[q] /\ outcome'[q] = outcome[q]
    /\ coded'[q] = coded[q] /\ collects'[q] = collects[q] /\ completed'[q] = completed[q]
    /\ (q \in refused' <=> q \in refused) /\ (q \in revived => q \in revived')

\* A step of r leaves alone what is known of every other request.
LEMMA OthersKeep ==
    ASSUME ajaxCode \in Seq(Codes), NEW next, NEW gone, NEW r, TurnOf(r, next, gone),
           NEW q, q # r, Untouched(q), AjaxInvFor(q)
    PROVE  AjaxInvFor(q)' /\ (Counts(q)' <=> Counts(q))
<1> /\ next \in Seq(Codes) /\ gone \in {0, 1} /\ gone <= Len(ajaxCode) /\ CodeBecomes(next, gone)
  BY DEF TurnOf
<1>0. Len(next) \in Nat /\ Len(ajaxCode) \in Nat
  OBVIOUS
<1>1. \A n : n # "user" => (HasOp(n, q)' <=> HasOp(n, q)) /\ \A ok : HasWith(n, q, ok)' <=> HasWith(n, q, ok)
  <2> SUFFICES ASSUME NEW n, n # "user"
               PROVE  (HasOp(n, q)' <=> HasOp(n, q)) /\ \A ok : HasWith(n, q, ok)' <=> HasWith(n, q, ok)
    OBVIOUS
  <2>1. ~\E k \in 1 .. Len(next) : next[k][1] = n /\ next[k][2] = q
    BY DEF TurnOf
  <2>2. \A j \in 1 .. Len(ajaxCode) : ajaxCode[j][1] = n /\ ajaxCode[j][2] = q => j \in 1 + gone .. Len(ajaxCode)
    BY <1>0 DEF TurnOf
  <2>3. \A j \in 1 + gone .. Len(ajaxCode) : j \in 1 .. Len(ajaxCode)
    BY <1>0
  <2>4. HasOp(n, q)' <=> \E j \in 1 + gone .. Len(ajaxCode) : ajaxCode[j][1] = n /\ ajaxCode[j][2] = q
    <3>1. HasOp(n, q)' <=>
             \/ \E k \in 1 .. Len(next) : next[k][1] = n /\ next[k][2] = q
             \/ \E j \in 1 + gone .. Len(ajaxCode) : ajaxCode[j][1] = n /\ ajaxCode[j][2] = q
      BY HasAfter
    <3> QED  BY <2>1, <3>1
  <2>5. HasOp(n, q)' <=> HasOp(n, q)
    BY <2>2, <2>3, <2>4 DEF HasOp
  <2>6. ASSUME NEW ok PROVE HasWith(n, q, ok)' <=> HasWith(n, q, ok)
    <3>1. HasWith(n, q, ok)' <=> \E j \in 1 + gone .. Len(ajaxCode) :
                                    ajaxCode[j][1] = n /\ ajaxCode[j][2] = q /\ ajaxCode[j][3] = ok
      <4>1. ~\E k \in 1 .. Len(next) : next[k][1] = n /\ next[k][2] = q /\ next[k][3] = ok
        BY <2>1
      <4>2. HasWith(n, q, ok)' <=>
              \/ \E k \in 1 .. Len(next) : next[k][1] = n /\ next[k][2] = q /\ next[k][3] = ok
              \/ \E j \in 1 + gone .. Len(ajaxCode) :
                    ajaxCode[j][1] = n /\ ajaxCode[j][2] = q /\ ajaxCode[j][3] = ok
        BY HasWithAfter
      <4> QED  BY <4>1, <4>2
    <3> QED  BY <2>2, <2>3, <3>1 DEF HasWith
  <2> QED  BY <2>5, <2>6
<1>2. /\ \A name \in Flow \union Finishing : HasOp(name, q)' <=> HasOp(name, q)
      /\ HasFlow(q)' <=> HasFlow(q)
      /\ HasFinishing(q)' <=> HasFinishing(q)
      /\ \A ok : HasWith("done", q, ok)' <=> HasWith("done", q, ok)
      /\ \A ok : HasWith("settle", q, ok)' <=> HasWith("settle", q, ok)
  <2>1. \A name \in Flow \union Finishing : name # "user"
    BY DEF Flow, Finishing
  <2>2. \A name \in Flow \union Finishing : HasOp(name, q)' <=> HasOp(name, q)
    BY <1>1, <2>1
  <2>3. (HasFlow(q)' <=> HasFlow(q)) /\ (HasFinishing(q)' <=> HasFinishing(q))
    BY <2>2 DEF HasFlow, HasFinishing
  <2> QED  BY <1>1, <2>2, <2>3
<1>3. /\ HasOp("open", q)' <=> HasOp("open", q)
      /\ HasOp("sendable", q)' <=> HasOp("sendable", q)
      /\ HasOp("send", q)' <=> HasOp("send", q)
      /\ HasOp("done", q)' <=> HasOp("done", q)
      /\ HasOp("codes", q)' <=> HasOp("codes", q)
      /\ HasOp("complete", q)' <=> HasOp("complete", q)
      /\ HasOp("uncount", q)' <=> HasOp("uncount", q)
  BY <1>2 DEF Flow, Finishing
<1>6. FlowPlaces(q)'
  BY OldPlaces DEF Flow, AjaxInvFor, TurnOf
<1>7. FlowStates(q)'
  BY <1>2, <1>3 DEF AjaxInvFor, FlowStates, Untouched
<1>8. SettledFirst(q)'
  BY SettledFirstAfter DEF AjaxInvFor, Untouched, TurnOf
<1>9. Finishes(q)'
  BY <1>3 DEF AjaxInvFor, Finishes, OverOrRevived, Untouched
<1>10. Holding(q)' /\ UnderWay(q)'
  BY <1>3 DEF AjaxInvFor, Holding, UnderWay, Untouched
<1>11. Refusals(q)'
  BY <1>2, <1>3 DEF AjaxInvFor, Refusals, OverOrRevived, Untouched
<1>12. Opens(q)'
  <2>1. globals'[q] => xstate'[q] # -1 /\ ~HasOp("open", q)'
    BY <1>3 DEF AjaxInvFor, Opens, Untouched
  <2>2. UncountedOnce(q)'
    <3>1. \A k \in 1 .. Len(next) : next[k][1] # "uncount" \/ next[k][2] # q   BY DEF TurnOf
    <3>2. UncountedOnce(q) => UncountedOnce(q)'   BY <3>1, UncountedOnceAfter
    <3> QED  BY <3>2 DEF AjaxInvFor, Opens
  <2> QED  BY <2>1, <2>2 DEF Opens
<1>13. Counts(q)' <=> Counts(q)
  BY <1>3 DEF Counts, Untouched
<1> QED  BY <1>6, <1>7, <1>8, <1>9, <1>10, <1>11, <1>12, <1>13 DEF AjaxInvFor

LEMMA SameCounting == ASSUME \A q \in Requests : Counts(q)' <=> Counts(q) PROVE Counting' = Counting
BY DEF Counting

\* A step of r keeps the invariant if it keeps the types and what is known of r, and
\* counts it as one more or one less just when that is what it is.
LEMMA StepKeeps ==
    ASSUME AjaxInv, NEW next, NEW gone, NEW r, TurnOf(r, next, gone),
           \A q \in Requests : q # r => Untouched(q), revived' = {} => revived = {},
           AjaxTypes', r \in Requests => AjaxInvFor(r)',
           revived' = {} =>
             \/ UNCHANGED <<active, begun>> /\ (r \in Requests => (Counts(r)' <=> Counts(r)))
             \/ /\ r \in Requests /\ Counts(r)' /\ ~Counts(r) /\ active' = active + 1
                /\ begun' = IF active = 0 THEN begun + 1 ELSE begun
             \/ /\ r \in Requests /\ ~Counts(r)' /\ Counts(r) /\ active' = active - 1
                /\ begun' = IF active' = 0 THEN begun - 1 ELSE begun
    PROVE  AjaxInv'
<1>1. ajaxCode \in Seq(Codes)
  BY DEF AjaxInv, AjaxTypes
<1>2. ASSUME NEW q \in Requests, q # r
      PROVE  AjaxInvFor(q)' /\ (Counts(q)' <=> Counts(q))
  <2>1. AjaxInvFor(q)   BY DEF AjaxInv
  <2>2. Untouched(q)   BY <1>2
  <2> QED  BY <1>1, <1>2, <2>1, <2>2, OthersKeep
<1>3. \A q \in Requests : AjaxInvFor(q)'
  BY <1>2
<1>4. ASSUME revived' = {} PROVE /\ IsFiniteSet(Counting') /\ active' = Cardinality(Counting')
                                /\ begun' = IF active' = 0 THEN 0 ELSE 1
  <2>1. /\ IsFiniteSet(Counting) /\ active = Cardinality(Counting)
        /\ begun = IF active = 0 THEN 0 ELSE 1
    BY <1>4 DEF AjaxInv, Activity
  <2>2. CASE UNCHANGED <<active, begun>> /\ (r \in Requests => (Counts(r)' <=> Counts(r)))
    <3>1. Counting' = Counting   BY <1>2, <2>2, SameCounting
    <3> QED  BY <2>1, <2>2, <3>1
  <2>3. CASE /\ r \in Requests /\ Counts(r)' /\ ~Counts(r) /\ active' = active + 1
             /\ begun' = IF active = 0 THEN begun + 1 ELSE begun
    <3>1. Counting' = Counting \union {r} /\ r \notin Counting   BY <1>2, <2>3 DEF Counting
    <3>2. IsFiniteSet(Counting') /\ Cardinality(Counting') = Cardinality(Counting) + 1
      BY <2>1, <3>1, FS_AddElement
    <3>3. active \in Nat   BY <2>1, FS_CardinalityType
    <3> QED  BY <2>1, <2>3, <3>2, <3>3
  <2>4. CASE /\ r \in Requests /\ ~Counts(r)' /\ Counts(r) /\ active' = active - 1
             /\ begun' = IF active' = 0 THEN begun - 1 ELSE begun
    <3>1. Counting' = Counting \ {r} /\ r \in Counting   BY <1>2, <2>4 DEF Counting
    <3>2. IsFiniteSet(Counting') /\ Cardinality(Counting') = Cardinality(Counting) - 1
      BY <2>1, <3>1, FS_RemoveElement
    <3>3. active \in Nat /\ active' \in Nat   BY <2>1, <2>4, <3>2, FS_CardinalityType
    <3>4. active # 0   BY <2>4, <3>3
    <3> QED  BY <2>1, <2>4, <3>2, <3>3, <3>4
  <2> QED  BY <1>4, <2>2, <2>3, <2>4
<1> QED  BY <1>3, <1>4 DEF AjaxInv, Activity

-----------------------------------------------------------------------------
(* The pieces of code.                                                       *)

\* The first piece of code, which is one for r.
HeadIs(name, r) == ajaxCode # << >> /\ ajaxCode[1][1] = name /\ ajaxCode[1][2] = r

LEMMA NoNext == << >> \in Seq(Codes) /\ Len(<< >>) = 0
OBVIOUS

LEMMA UserNext == <<AjaxUser>> \in Seq(Codes) /\ Len(<<AjaxUser>>) = 1 /\ <<AjaxUser>>[1][1] = "user"
BY DEF AjaxUser, Codes

\* A turn of the user changes nothing but the code.
LEMMA UserTurnKeeps ==
    ASSUME AjaxInv, ajaxCode # << >>, ajaxCode[1][1] = "user", TurnOver,
           UNCHANGED <<codeVars, refused, revived>>
    PROVE  AjaxInv'
<1>1. ajaxCode \in Seq(Codes)   BY DEF AjaxInv, AjaxTypes
<1>2. PICK r : r \notin Requests   BY NoSetContainsEverything
<1>3. TurnOf(r, << >>, 1)
  BY <1>1, NoNext DEF TurnOf, CodeBecomes, TurnOver, AjaxGoes
<1>4. \A q \in Requests : q # r => Untouched(q)
  BY DEF Untouched, TurnOver, requestVars, codeVars
<1>5. AjaxTypes'
  <2>1. ajaxCode' \in Seq(Codes)   BY <1>1, <1>3, CodeStepOf DEF TurnOf
  <2> QED  BY <2>1 DEF AjaxInv, AjaxTypes, TurnOver, requestVars, codeVars
<1>6. UNCHANGED <<active, begun>> /\ (revived' = {} => revived = {})
  BY DEF TurnOver
<1> QED  BY <1>2, <1>3, <1>4, <1>5, <1>6, StepKeeps

\* A piece of code that is none of ajax()'s is run, and nothing is added for r: what r
\* has to do stays.
LEMMA PiecesStay ==
    ASSUME ajaxCode \in Seq(Codes), NEW r, NEW next, TurnOf(r, next, 1), FlowPlaces(r),
           \A k \in 1 .. Len(next) : next[k][1] = "user",
           NEW h, ajaxCode[1][1] = h, ajaxCode[1][2] = r, h \in Finishing \union {"ajaxSend"}
    PROVE  /\ FlowPlaces(r)' /\ (UncountedOnce(r) => UncountedOnce(r)')
           /\ HasOp("open", r)' <=> HasOp("open", r)
           /\ HasOp("sendable", r)' <=> HasOp("sendable", r)
           /\ HasOp("send", r)' <=> HasOp("send", r)
           /\ HasOp("done", r)' <=> HasOp("done", r)
           /\ HasFlow(r)' <=> HasFlow(r)
           /\ HasFinishing(r)' => HasFinishing(r)
           /\ \A n \in Finishing : HasOp(n, r)' => HasOp(n, r)
           /\ \A n \in Finishing : n # h /\ HasOp(n, r) => HasOp(n, r)'
           /\ \A ok : HasWith("done", r, ok)' => HasWith("done", r, ok)
           /\ \A ok : HasWith("settle", r, ok)' => HasWith("settle", r, ok)
           /\ h # "settle" => \A ok : HasWith("settle", r, ok) => HasWith("settle", r, ok)'
<1> /\ next \in Seq(Codes) /\ 1 <= Len(ajaxCode) /\ CodeBecomes(next, 1) /\ 1 \in {0, 1}
  BY DEF TurnOf
<1>0. h \notin Flow   BY DEF Flow, Finishing
<1>1. FlowPlaces(r)'
  <2>1. \A k \in 1 .. Len(next) : next[k][1] \in Flow => next[k][2] # r   BY DEF Flow
  <2> QED  BY <1>0, <2>1, OldPlaces DEF TurnOf
<1>2. UncountedOnce(r) => UncountedOnce(r)'
  <2>1. \A k \in 1 .. Len(next) : next[k][1] # "uncount" \/ next[k][2] # r   OBVIOUS
  <2> QED  BY <2>1, UncountedOnceAfter
<1>3. ASSUME NEW n, n # "user" PROVE (HasOp(n, r)' => HasOp(n, r)) /\ (n # h /\ HasOp(n, r) => HasOp(n, r)')
  <2>1. ~\E k \in 1 .. Len(next) : next[k][1] = n /\ next[k][2] = r   BY <1>3
  <2>2. HasOp(n, r)' => HasOp(n, r) \/ \E k \in 1 .. Len(next) : next[k][1] = n /\ next[k][2] = r
    BY MineAfter
  <2>3. HasOp(n, r) /\ (1 = 1 => ajaxCode[1][1] # n \/ ajaxCode[1][2] # r) => HasOp(n, r)'
    BY MineAfter
  <2> QED  BY <2>1, <2>2, <2>3
<1>4. ASSUME NEW n, n # "user", NEW ok
      PROVE  /\ HasWith(n, r, ok)' => HasWith(n, r, ok)
             /\ n # h /\ HasWith(n, r, ok) => HasWith(n, r, ok)'
  <2>1. ~\E k \in 1 .. Len(next) : next[k][1] = n /\ next[k][2] = r /\ next[k][3] = ok   BY <1>4
  <2>2. HasWith(n, r, ok)' =>
           \/ HasWith(n, r, ok)
           \/ \E k \in 1 .. Len(next) : next[k][1] = n /\ next[k][2] = r /\ next[k][3] = ok
    BY MineWithAfter
  <2>3. HasWith(n, r, ok) /\ (1 = 1 => ajaxCode[1][1] # n \/ ajaxCode[1][2] # r) => HasWith(n, r, ok)'
    BY MineWithAfter
  <2> QED  BY <2>1, <2>2, <2>3
<1>5. \A n \in Flow : HasOp(n, r)' <=> HasOp(n, r)
  <2>1. \A n \in Flow : n # "user" /\ n # h   BY <1>0 DEF Flow
  <2> QED  BY <1>3, <2>1
<1>6. \A n \in Finishing : n # "user"   BY DEF Finishing
<1>7. (HasFlow(r)' <=> HasFlow(r)) /\ (HasFinishing(r)' => HasFinishing(r))
  BY <1>3, <1>5, <1>6 DEF HasFlow, HasFinishing
<1>8. /\ HasOp("open", r)' <=> HasOp("open", r)
      /\ HasOp("sendable", r)' <=> HasOp("sendable", r)
      /\ HasOp("send", r)' <=> HasOp("send", r)
      /\ HasOp("done", r)' <=> HasOp("done", r)
  BY <1>5 DEF Flow
<1>9. \A n \in Finishing : (HasOp(n, r)' => HasOp(n, r)) /\ (n # h /\ HasOp(n, r) => HasOp(n, r)')
  BY <1>3, <1>6
<1>10. /\ \A ok : HasWith("done", r, ok)' => HasWith("done", r, ok)
       /\ \A ok : HasWith("settle", r, ok)' => HasWith("settle", r, ok)
       /\ h # "settle" => \A ok : HasWith("settle", r, ok) => HasWith("settle", r, ok)'
  BY <1>4
<1> QED  BY <1>1, <1>2, <1>7, <1>8, <1>9, <1>10

\* Such a piece keeps what is known of r.
LEMMA PieceKeeps ==
    ASSUME AjaxTypes, NEW r \in Requests, NEW next, TurnOf(r, next, 1), AjaxInvFor(r),
           \A k \in 1 .. Len(next) : next[k][1] = "user",
           NEW h, ajaxCode[1][1] = h, ajaxCode[1][2] = r, h \in Finishing \union {"ajaxSend"},
           xstate'[r] = xstate[r], transport'[r] = transport[r], xhr'[r] = xhr[r],
           timeout'[r] = timeout[r], globals'[r] = globals[r],
           refused' = refused, revived' = revived,
           outcome'[r] \in {"pending", "success", "error"},
           IF h = "settle" THEN /\ outcome'[r] # "pending"
                                /\ outcome'[r] = outcome[r] \/ outcome[r] = "pending"
                                /\ outcome'[r] = "success" => outcome[r] = "success" \/ HasWith("settle", r, TRUE)
                           ELSE outcome'[r] = outcome[r],
           completed'[r] = IF h = "complete" THEN 1 ELSE completed[r],
           IF h = "codes" THEN coded'[r] = "held" => ~(coded[r] = "held" /\ collects[r])
                          ELSE coded'[r] = coded[r] /\ collects'[r] = collects[r],
           coded'[r] = "held" => coded[r] = "held"
    PROVE  AjaxInvFor(r)' /\ (h # "uncount" => (Counts(r)' <=> Counts(r)))
<1>0. ajaxCode \in Seq(Codes) /\ 1 \in 1 .. Len(ajaxCode) /\ next \in Seq(Codes)
  BY DEF AjaxTypes, TurnOf
<1>1. FlowPlaces(r) /\ UncountedOnce(r)
  BY DEF AjaxInvFor, Opens
<1>2. /\ FlowPlaces(r)' /\ UncountedOnce(r)'
      /\ HasOp("open", r)' <=> HasOp("open", r)
      /\ HasOp("sendable", r)' <=> HasOp("sendable", r)
      /\ HasOp("send", r)' <=> HasOp("send", r)
      /\ HasOp("done", r)' <=> HasOp("done", r)
      /\ HasFlow(r)' <=> HasFlow(r)
      /\ HasFinishing(r)' => HasFinishing(r)
      /\ \A n \in Finishing : HasOp(n, r)' => HasOp(n, r)
      /\ \A n \in Finishing : n # h /\ HasOp(n, r) => HasOp(n, r)'
      /\ \A ok : HasWith("done", r, ok)' => HasWith("done", r, ok)
      /\ \A ok : HasWith("settle", r, ok)' => HasWith("settle", r, ok)
      /\ h # "settle" => \A ok : HasWith("settle", r, ok) => HasWith("settle", r, ok)'
  BY <1>0, <1>1, PiecesStay
<1>3. /\ h # "codes" => (HasOp("codes", r) => HasOp("codes", r)')
      /\ h # "complete" => (HasOp("complete", r) => HasOp("complete", r)')
      /\ h # "uncount" => (HasOp("uncount", r)' <=> HasOp("uncount", r))
  BY <1>2 DEF Finishing
<1>4. h \in Finishing => HasOp(h, r) /\ HasFinishing(r) /\ xstate[r] = 2
  <2>1. HasOp(h, r)   BY <1>0 DEF HasOp
  <2>2. h \in Finishing => HasFinishing(r)   BY <2>1 DEF HasFinishing
  <2> QED  BY <2>1, <2>2 DEF AjaxInvFor, FlowStates
<1>5. FlowStates(r)'
  BY <1>2 DEF AjaxInvFor, FlowStates
<1>6. SettledFirst(r)'
  <2>1. \A k \in 1 .. Len(next) : next[k][1] = "complete" /\ next[k][2] = r =>
              \E m \in 1 .. k - 1 : next[m][1] = "settle" /\ next[m][2] = r
    OBVIOUS
  <2>2. (outcome[r] # "pending" => outcome'[r] # "pending") /\ (h = "settle" => outcome'[r] # "pending")
    OBVIOUS
  <2>3. SettledFirst(r)   BY DEF AjaxInvFor
  <2> QED  BY <1>0, <2>1, <2>2, <2>3, SettledFirstAfter DEF TurnOf
<1>7. Finishes(r)'
  <2>1. h = "complete" => outcome[r] # "pending"
    BY <1>0 DEF AjaxInvFor, SettledFirst
  <2>2. h = "complete" => completed'[r] = 1 /\ outcome'[r] # "pending" /\ xstate'[r] = 2
    BY <1>4, <2>1 DEF Finishing
  <2>3. h # "complete" => completed'[r] = completed[r] /\ (outcome[r] # "pending" => outcome'[r] # "pending")
    OBVIOUS
  <2> QED  BY <1>2, <1>3, <2>2, <2>3 DEF AjaxInvFor, Finishes, OverOrRevived
<1>8. Holding(r)'
  <2>1. Holding(r)   BY DEF AjaxInvFor
  <2>2. CASE h = "codes"
    <3>1. xstate'[r] = 2   BY <1>4, <2>2 DEF Finishing
    <3>2. coded'[r] # "held"   BY <2>1, <2>2 DEF Holding
    <3> QED  BY <3>1, <3>2 DEF Holding
  <2>3. CASE h # "codes"   BY <1>3, <2>1, <2>3 DEF Holding
  <2> QED  BY <2>2, <2>3
<1>9. UnderWay(r)'
  BY <1>2 DEF AjaxInvFor, UnderWay
<1>10. Refusals(r)'
  <2>1. Refusals(r)   BY DEF AjaxInvFor
  <2>2. r \in refused => outcome[r] = "error" \/ (outcome[r] # "success" /\ ~HasWith("settle", r, TRUE))
    BY <2>1 DEF Refusals
  <2>3. CASE h = "settle"
    <3>1. r \in refused => outcome'[r] = "error"   BY <2>2, <2>3
    <3>2. outcome'[r] = "success" => xstate[r] = 2 /\ ~HasFlow(r)   BY <2>1, <2>3 DEF Refusals
    <3> QED  BY <1>2, <2>1, <2>3, <3>1, <3>2 DEF Refusals, OverOrRevived
  <2>4. CASE h # "settle"   BY <1>2, <2>1, <2>4 DEF Refusals, OverOrRevived
  <2> QED  BY <2>3, <2>4
<1>11. Opens(r)'
  BY <1>2 DEF AjaxInvFor, Opens
<1>12. h # "uncount" => (Counts(r)' <=> Counts(r))
  BY <1>3 DEF Counts
<1> QED  BY <1>2, <1>5, <1>6, <1>7, <1>8, <1>9, <1>10, <1>11, <1>12 DEF AjaxInvFor

\* The first piece of code, and what is left when it is run and nothing is added.
LEMMA FirstCode ==
    ASSUME AjaxTypes, ajaxCode # << >>
    PROVE  /\ 1 \in 1 .. Len(ajaxCode) /\ 1 <= Len(ajaxCode)
           /\ Head(ajaxCode) = ajaxCode[1] /\ ajaxCode[1] \in Codes
BY DEF AjaxTypes

LEMMA PieceTurn ==
    ASSUME AjaxTypes, NEW r, NEW name, HeadIs(name, r), AjaxGoes(<< >>)
    PROVE  TurnOf(r, << >>, 1) /\ ajaxCode' \in Seq(Codes)
<1>1. ajaxCode \in Seq(Codes) /\ 1 <= Len(ajaxCode)
  BY DEF AjaxTypes, HeadIs
<1>2. TurnOf(r, << >>, 1)
  BY <1>1, NoNext DEF TurnOf, CodeBecomes, AjaxGoes, HeadIs
<1> QED  BY <1>1, <1>2, CodeStepOf DEF TurnOf

\* A handler of ajaxSend is over.
LEMMA SendTurnKeeps ==
    ASSUME AjaxInv, NEW r \in Requests, HeadIs("ajaxSend", r), TurnOver,
           UNCHANGED <<codeVars, refused, revived>>
    PROVE  AjaxInv'
<1>1. TurnOf(r, << >>, 1) /\ ajaxCode' \in Seq(Codes)
  BY PieceTurn DEF AjaxInv, TurnOver
<1>2. \A q \in Requests : q # r => Untouched(q)
  BY DEF Untouched, TurnOver, requestVars, codeVars
<1>3. AjaxTypes'
  BY <1>1 DEF AjaxInv, AjaxTypes, TurnOver, requestVars, codeVars
<1>4. AjaxInvFor(r)' /\ (Counts(r)' <=> Counts(r))
  <2>1. AjaxInvFor(r) /\ AjaxTypes   BY DEF AjaxInv
  <2>2. outcome[r] \in {"pending", "success", "error"}   BY <2>1 DEF AjaxTypes
  <2>3. \A k \in 1 .. Len(<< >>) : << >>[k][1] = "user"   OBVIOUS
  <2>4. ajaxCode[1][1] = "ajaxSend" /\ ajaxCode[1][2] = r   BY DEF HeadIs
  <2>5. /\ xstate'[r] = xstate[r] /\ transport'[r] = transport[r] /\ xhr'[r] = xhr[r]
        /\ timeout'[r] = timeout[r] /\ globals'[r] = globals[r]
        /\ refused' = refused /\ revived' = revived /\ outcome'[r] = outcome[r]
        /\ completed'[r] = completed[r] /\ coded'[r] = coded[r] /\ collects'[r] = collects[r]
    BY DEF TurnOver, requestVars, codeVars
  <2>6. "ajaxSend" \in Finishing \union {"ajaxSend"} /\ "ajaxSend" # "uncount"   OBVIOUS
  <2> QED  BY <1>1, <2>1, <2>2, <2>3, <2>4, <2>5, <2>6, PieceKeeps
<1>5. UNCHANGED <<active, begun>> /\ (revived' = {} => revived = {})
  BY DEF TurnOver
<1> QED  BY <1>1, <1>2, <1>3, <1>4, <1>5, StepKeeps

\* The deferred is settled.
LEMMA SettleKeeps ==
    ASSUME AjaxInv, NEW r \in Requests, NEW ok \in BOOLEAN, HeadIs("settle", r), ajaxCode[1][3] = ok,
           SettleRequest(r, ok), UNCHANGED <<codeVars, refused, revived>>
    PROVE  AjaxInv'
<1>1. TurnOf(r, << >>, 1) /\ ajaxCode' \in Seq(Codes)
  BY PieceTurn DEF AjaxInv, SettleRequest
<1>2. \A q \in Requests : q # r => Untouched(q)
  <2>1. \A q \in Requests : q # r => outcome'[q] = outcome[q]
    BY DEF SettleRequest, AjaxInv, AjaxTypes
  <2> QED  BY <2>1 DEF Untouched, SettleRequest, requestVars, codeVars
<1>3. outcome' \in [Requests -> {"pending", "success", "error"}]
  BY DEF AjaxInv, AjaxTypes, SettleRequest
<1>4. AjaxTypes'
  BY <1>1, <1>3 DEF AjaxInv, AjaxTypes, SettleRequest, requestVars, codeVars
<1>5. AjaxInvFor(r)' /\ (Counts(r)' <=> Counts(r))
  <2>1. AjaxInvFor(r) /\ AjaxTypes   BY DEF AjaxInv
  <2>2. outcome'[r] = IF outcome[r] # "pending" THEN outcome[r] ELSE IF ok THEN "success" ELSE "error"
    BY <2>1 DEF AjaxTypes, SettleRequest
  <2>3. \A k \in 1 .. Len(<< >>) : << >>[k][1] = "user"   OBVIOUS
  <2>4. ajaxCode[1][1] = "settle" /\ ajaxCode[1][2] = r   BY DEF HeadIs
  <2>5. /\ xstate'[r] = xstate[r] /\ transport'[r] = transport[r] /\ xhr'[r] = xhr[r]
        /\ timeout'[r] = timeout[r] /\ globals'[r] = globals[r]
        /\ refused' = refused /\ revived' = revived
        /\ completed'[r] = completed[r] /\ coded'[r] = coded[r] /\ collects'[r] = collects[r]
    BY DEF SettleRequest, requestVars, codeVars
  <2>6. "settle" \in Finishing \union {"ajaxSend"} /\ "settle" # "uncount"   BY DEF Finishing
  <2>7. /\ outcome'[r] # "pending" /\ outcome'[r] \in {"pending", "success", "error"}
        /\ outcome'[r] = outcome[r] \/ outcome[r] = "pending"
    BY <1>3, <2>2
  <2>8. outcome'[r] = "success" => outcome[r] = "success" \/ HasWith("settle", r, TRUE)
    <3>1. ok => HasWith("settle", r, TRUE)
      <4>1. 1 \in 1 .. Len(ajaxCode)   BY <2>1, FirstCode DEF HeadIs
      <4> QED  BY <2>4, <4>1 DEF HasWith
    <3> QED  BY <2>2, <3>1
  <2> QED  BY <1>1, <2>1, <2>3, <2>4, <2>5, <2>6, <2>7, <2>8, PieceKeeps
<1>6. UNCHANGED <<active, begun>> /\ (revived' = {} => revived = {})
  BY DEF SettleRequest
<1> QED  BY <1>1, <1>2, <1>4, <1>5, <1>6, StepKeeps

\* The callbacks for the status are run.
LEMMA CodesKeep ==
    ASSUME AjaxInv, NEW r \in Requests, HeadIs("codes", r), RunCodes(r), UNCHANGED <<refused, revived>>
    PROVE  AjaxInv'
<1>1. TurnOf(r, << >>, 1) /\ ajaxCode' \in Seq(Codes)
  BY PieceTurn DEF AjaxInv, RunCodes
<1>2. \A q \in Requests : q # r => Untouched(q)
  <2>1. \A q \in Requests : q # r => coded'[q] = coded[q] /\ collects'[q] = collects[q]
    BY DEF RunCodes, AjaxInv, AjaxTypes
  <2> QED  BY <2>1 DEF Untouched, RunCodes, requestVars
<1>3. /\ coded' \in [Requests -> {"none", "held", "run"}]
      /\ collects' \in [Requests -> BOOLEAN]
  BY DEF AjaxInv, AjaxTypes, RunCodes
<1>4. AjaxTypes'
  BY <1>1, <1>3 DEF AjaxInv, AjaxTypes, RunCodes, requestVars
<1>5. AjaxInvFor(r)' /\ (Counts(r)' <=> Counts(r))
  <2>1. AjaxInvFor(r) /\ AjaxTypes   BY DEF AjaxInv
  <2>2. coded'[r] = IF coded[r] = "held" /\ collects[r] THEN "run" ELSE coded[r]
    BY <2>1 DEF AjaxTypes, RunCodes
  <2>3. \A k \in 1 .. Len(<< >>) : << >>[k][1] = "user"   OBVIOUS
  <2>4. ajaxCode[1][1] = "codes" /\ ajaxCode[1][2] = r   BY DEF HeadIs
  <2>5. /\ xstate'[r] = xstate[r] /\ transport'[r] = transport[r] /\ xhr'[r] = xhr[r]
        /\ timeout'[r] = timeout[r] /\ globals'[r] = globals[r]
        /\ refused' = refused /\ revived' = revived
        /\ completed'[r] = completed[r] /\ outcome'[r] = outcome[r]
    BY DEF RunCodes, requestVars
  <2>6. "codes" \in Finishing \union {"ajaxSend"} /\ "codes" # "uncount"   BY DEF Finishing
  <2>7. /\ coded'[r] = "held" => ~(coded[r] = "held" /\ collects[r])
        /\ coded'[r] = "held" => coded[r] = "held"
    BY <2>2
  <2>8. outcome[r] \in {"pending", "success", "error"}   BY <2>1 DEF AjaxTypes
  <2> QED  BY <1>1, <2>1, <2>3, <2>4, <2>5, <2>6, <2>7, <2>8, PieceKeeps
<1>6. UNCHANGED <<active, begun>> /\ (revived' = {} => revived = {})
  BY DEF RunCodes
<1> QED  BY <1>1, <1>2, <1>4, <1>5, <1>6, StepKeeps

\* The complete callbacks are run.
LEMMA CompleteKeeps ==
    ASSUME AjaxInv, NEW r \in Requests, HeadIs("complete", r), CompleteRequest(r),
           UNCHANGED <<codeVars, refused, revived>>
    PROVE  AjaxInv'
<1>1. TurnOf(r, << >>, 1) /\ ajaxCode' \in Seq(Codes)
  BY PieceTurn DEF AjaxInv, CompleteRequest
<1>2. \A q \in Requests : q # r => Untouched(q)
  <2>1. \A q \in Requests : q # r => completed'[q] = completed[q]
    BY DEF CompleteRequest, AjaxInv, AjaxTypes
  <2> QED  BY <2>1 DEF Untouched, CompleteRequest, requestVars, codeVars
<1>3. completed' \in [Requests -> {0, 1}]
  BY DEF AjaxInv, AjaxTypes, CompleteRequest
<1>4. AjaxTypes'
  BY <1>1, <1>3 DEF AjaxInv, AjaxTypes, CompleteRequest, requestVars, codeVars
<1>5. AjaxInvFor(r)' /\ (Counts(r)' <=> Counts(r))
  <2>1. AjaxInvFor(r) /\ AjaxTypes   BY DEF AjaxInv
  <2>2. completed'[r] = 1
    BY <2>1 DEF AjaxTypes, CompleteRequest
  <2>3. \A k \in 1 .. Len(<< >>) : << >>[k][1] = "user"   OBVIOUS
  <2>4. ajaxCode[1][1] = "complete" /\ ajaxCode[1][2] = r   BY DEF HeadIs
  <2>5. /\ xstate'[r] = xstate[r] /\ transport'[r] = transport[r] /\ xhr'[r] = xhr[r]
        /\ timeout'[r] = timeout[r] /\ globals'[r] = globals[r]
        /\ refused' = refused /\ revived' = revived
        /\ coded'[r] = coded[r] /\ collects'[r] = collects[r] /\ outcome'[r] = outcome[r]
    BY DEF CompleteRequest, requestVars, codeVars
  <2>6. "complete" \in Finishing \union {"ajaxSend"} /\ "complete" # "uncount"   BY DEF Finishing
  <2>8. outcome[r] \in {"pending", "success", "error"}   BY <2>1 DEF AjaxTypes
  <2> QED  BY <1>1, <2>1, <2>2, <2>3, <2>4, <2>5, <2>6, <2>8, PieceKeeps
<1>6. UNCHANGED <<active, begun>> /\ (revived' = {} => revived = {})
  BY DEF CompleteRequest
<1> QED  BY <1>1, <1>2, <1>4, <1>5, <1>6, StepKeeps

\* The request is uncounted, and the users told when it was the last.
LEMMA UncountKeeps ==
    ASSUME AjaxInv, NEW r \in Requests, HeadIs("uncount", r), Uncount(r),
           UNCHANGED <<codeVars, refused, revived>>
    PROVE  AjaxInv'
<1> DEFINE next == IF globals[r] /\ active' = 0 THEN <<AjaxUser>> ELSE << >>
<1>0. AjaxInvFor(r) /\ AjaxTypes   BY DEF AjaxInv
<1>1. ajaxCode \in Seq(Codes) /\ 1 \in 1 .. Len(ajaxCode) /\ 1 <= Len(ajaxCode)
  BY <1>0, FirstCode DEF AjaxTypes, HeadIs
<1>2. next \in Seq(Codes) /\ \A k \in 1 .. Len(next) : next[k][1] = "user"
  BY UserNext, NoNext
<1>3. AjaxGoes(next)
  BY DEF Uncount
<1> HIDE DEF next
<1>4. TurnOf(r, next, 1)
  BY <1>1, <1>2, <1>3 DEF TurnOf, CodeBecomes, AjaxGoes, HeadIs
<1>5. ajaxCode' \in Seq(Codes)
  BY <1>1, <1>2, <1>4, CodeStepOf DEF TurnOf
<1>6. \A q \in Requests : q # r => Untouched(q)
  BY DEF Untouched, Uncount, requestVars, codeVars
<1>7. active' \in Int /\ begun' \in Int
  BY <1>0 DEF Uncount, AjaxTypes
<1>8. AjaxTypes'
  BY <1>0, <1>5, <1>7 DEF AjaxTypes, Uncount, requestVars, codeVars
<1>9. AjaxInvFor(r)'
  <2>3. ajaxCode[1][1] = "uncount" /\ ajaxCode[1][2] = r   BY DEF HeadIs
  <2>5. /\ xstate'[r] = xstate[r] /\ transport'[r] = transport[r] /\ xhr'[r] = xhr[r]
        /\ timeout'[r] = timeout[r] /\ globals'[r] = globals[r]
        /\ refused' = refused /\ revived' = revived /\ completed'[r] = completed[r]
        /\ coded'[r] = coded[r] /\ collects'[r] = collects[r] /\ outcome'[r] = outcome[r]
    BY DEF Uncount, requestVars, codeVars
  <2>6. "uncount" \in Finishing \union {"ajaxSend"}   BY DEF Finishing
  <2>8. outcome[r] \in {"pending", "success", "error"}   BY <1>0 DEF AjaxTypes
  <2> QED  BY <1>0, <1>2, <1>4, <2>3, <2>5, <2>6, <2>8, PieceKeeps
<1>10. HasOp("uncount", r) /\ xstate[r] = 2
  <2>1. HasOp("uncount", r)   BY <1>1 DEF HasOp, HeadIs
  <2>2. HasFinishing(r)   BY <2>1 DEF HasFinishing, Finishing
  <2> QED  BY <1>0, <2>1, <2>2 DEF AjaxInvFor, FlowStates
<1>11. ~HasOp("uncount", r)'
  <2>1. \A k \in 1 .. Len(next) : ~(next[k][1] = "uncount" /\ next[k][2] = r)   BY <1>2
  <2>2. \A j \in 1 + 1 .. Len(ajaxCode) : ~(ajaxCode[j][1] = "uncount" /\ ajaxCode[j][2] = r)
    <3>1. UncountedOnce(r)   BY <1>0 DEF AjaxInvFor, Opens
    <3>2. \A j \in 1 + 1 .. Len(ajaxCode) : j \in 1 .. Len(ajaxCode) /\ j # 1   BY <1>1
    <3> QED  BY <1>1, <3>1, <3>2 DEF UncountedOnce, HeadIs
  <2>3. HasOp("uncount", r)' <=> \/ \E k \in 1 .. Len(next) : next[k][1] = "uncount" /\ next[k][2] = r
                               \/ \E j \in 1 + 1 .. Len(ajaxCode) :
                                     ajaxCode[j][1] = "uncount" /\ ajaxCode[j][2] = r
    <3>1. CodeBecomes(next, 1) /\ 1 \in {0, 1}   BY <1>4 DEF TurnOf
    <3> QED  BY <1>1, <1>2, <3>1, HasAfter
  <2> QED  BY <2>1, <2>2, <2>3
<1>12. CASE globals[r]
  <2>1. Counts(r) /\ ~Counts(r)'
    BY <1>10, <1>11, <1>12 DEF Counts, Uncount, requestVars
  <2>2. active' = active - 1 /\ begun' = IF active' = 0 THEN begun - 1 ELSE begun
    BY <1>12 DEF Uncount
  <2>3. revived' = {} => revived = {}   OBVIOUS
  <2> QED  BY <1>4, <1>6, <1>8, <1>9, <2>1, <2>2, <2>3, StepKeeps
<1>13. CASE ~globals[r]
  <2>1. Counts(r)' <=> Counts(r)
    BY <1>13 DEF Counts, Uncount, requestVars
  <2>2. UNCHANGED <<active, begun>>
    BY <1>13 DEF Uncount
  <2>3. revived' = {} => revived = {}   OBVIOUS
  <2> QED  BY <1>4, <1>6, <1>8, <1>9, <2>1, <2>2, <2>3, StepKeeps
<1> QED  BY <1>12, <1>13

\* What done() has still to do for r is no code of ajax(), settles before it completes
\* and uncounts once.
EndsRequest(next, r, ok) ==
    /\ next \in Seq(Codes)
    /\ \A k \in 1 .. Len(next) : next[k][1] = "user" \/ next[k][2] = r
    /\ \A k \in 1 .. Len(next) : next[k][1] \notin Flow
    /\ \A k \in 1 .. Len(next) : next[k][1] = "complete" => k # 1 /\ next[1] = <<"settle", r, ok>>
    /\ \A i, j \in 1 .. Len(next) : next[i][1] = "uncount" /\ next[j][1] = "uncount" => i = j
    /\ \A k \in 1 .. Len(next) : next[k][1] = "settle" => next[k][3] = ok
    /\ xstate[r] = 2 => next = << >>
    /\ xstate[r] # 2 =>
         \E i, j, k, m \in 1 .. Len(next) :
            /\ next[i] = <<"settle", r, ok>> /\ next[j] = <<"codes", r>>
            /\ next[k] = <<"complete", r>> /\ next[m] = <<"uncount", r>>

LEMMA FinishedCode ==
    ASSUME NEW r \in Requests, NEW ok \in BOOLEAN, NEW next, next = Finished(r, ok)
    PROVE  EndsRequest(next, r, ok)
<1> USE DEF EndsRequest
<1>1. CASE xstate[r] = 2
  BY <1>1 DEF Finished
<1>2. CASE xstate[r] # 2
  <2>1. next = << <<"settle", r, ok>>, AjaxUser, <<"codes", r>>, <<"complete", r>>, AjaxUser, <<"uncount", r>> >>
    BY <1>2 DEF Finished
  <2>2. /\ Len(next) = 6 /\ next[1] = <<"settle", r, ok>> /\ next[2] = AjaxUser
        /\ next[3] = <<"codes", r>> /\ next[4] = <<"complete", r>> /\ next[5] = AjaxUser
        /\ next[6] = <<"uncount", r>>
    BY <2>1
  <2>3. next \in Seq(Codes)
    <3>1. /\ <<"settle", r, ok>> \in Codes /\ AjaxUser \in Codes /\ <<"codes", r>> \in Codes
          /\ <<"complete", r>> \in Codes /\ <<"uncount", r>> \in Codes
      BY CodesFor
    <3> QED  BY <2>1, <3>1
  <2>4. \A k \in 1 .. Len(next) : k \in {1, 2, 3, 4, 5, 6}
    BY <2>2
  <2>5. \A k \in 1 .. Len(next) : next[k][1] = "user" \/ next[k][2] = r
    BY <2>2, <2>4 DEF AjaxUser
  <2>6. \A k \in 1 .. Len(next) : next[k][1] \notin Flow
    BY <2>2, <2>4 DEF AjaxUser, Flow
  <2>7. \A k \in 1 .. Len(next) : next[k][1] = "complete" => k = 4
    BY <2>2, <2>4 DEF AjaxUser
  <2>8. \A k \in 1 .. Len(next) : next[k][1] = "uncount" => k = 6
    BY <2>2, <2>4 DEF AjaxUser
  <2>9. \A k \in 1 .. Len(next) : next[k][1] = "settle" => k = 1
    BY <2>2, <2>4 DEF AjaxUser
  <2>10. \E i, j, k, m \in 1 .. Len(next) :
             /\ next[i] = <<"settle", r, ok>> /\ next[j] = <<"codes", r>>
             /\ next[k] = <<"complete", r>> /\ next[m] = <<"uncount", r>>
    <3>1. 1 \in 1 .. Len(next) /\ 3 \in 1 .. Len(next) /\ 4 \in 1 .. Len(next) /\ 6 \in 1 .. Len(next)
      BY <2>2
    <3> QED  BY <2>2, <3>1
  <2>11. \A k \in 1 .. Len(next) : next[k][1] = "complete" => k # 1 /\ next[1] = <<"settle", r, ok>>
    BY <2>2, <2>7
  <2>12. \A k \in 1 .. Len(next) : next[k][1] = "settle" => next[k][3] = ok
    BY <2>2, <2>9
  <2>13. \A i, j \in 1 .. Len(next) : next[i][1] = "uncount" /\ next[j][1] = "uncount" => i = j
    BY <2>8
  <2> QED  BY <1>2, <2>3, <2>5, <2>6, <2>10, <2>11, <2>12, <2>13
<1> QED  BY <1>1, <1>2

\* When a piece of ajax() for r is run, or one of the handlers aborts it, no other piece
\* of ajax() is left but what the abort leaves aside.
LEMMA OverKeeps ==
    ASSUME AjaxInv, NEW r \in Requests, NEW ok \in BOOLEAN, NEW gone \in {0, 1},
           CodeBecomes(Finished(r, ok), gone),
           gone = 1 => ajaxCode # << >> /\ ajaxCode[1][1] \in Flow /\ ajaxCode[1][2] = r,
           gone = 1 => ajaxCode[1][1] # "send",
           gone = 0 => AjaxTurn /\ xstate[r] # 2 /\ ~ok,
           Done(r), xhr' \in [Requests -> {"unset", "open", "called"}], xhr'[r] # "open",
           \A q \in Requests : q # r => xhr'[q] = xhr[q],
           UNCHANGED <<options, globals, codeVars, active, outcome, completed, begun>>,
           refused' = refused \/ (~ok /\ xstate[r] # 2 /\ refused' = refused \union {r}),
           ok => r \notin refused \/ outcome[r] = "error",
           revived' = revived
    PROVE  AjaxInv'
<1>0. PICK next : next = Finished(r, ok)
  OBVIOUS
<1>1. AjaxTypes /\ AjaxInvFor(r)   BY DEF AjaxInv
<1>2. /\ next \in Seq(Codes)
      /\ \A k \in 1 .. Len(next) : next[k][1] = "user" \/ next[k][2] = r
      /\ \A k \in 1 .. Len(next) : next[k][1] \notin Flow
      /\ \A k \in 1 .. Len(next) : next[k][1] = "complete" => k # 1 /\ next[1] = <<"settle", r, ok>>
      /\ \A i, j \in 1 .. Len(next) : next[i][1] = "uncount" /\ next[j][1] = "uncount" => i = j
      /\ \A k \in 1 .. Len(next) : next[k][1] = "settle" => next[k][3] = ok
      /\ xstate[r] = 2 => next = << >>
      /\ xstate[r] # 2 =>
           \E i, j, k, m \in 1 .. Len(next) :
              /\ next[i] = <<"settle", r, ok>> /\ next[j] = <<"codes", r>>
              /\ next[k] = <<"complete", r>> /\ next[m] = <<"uncount", r>>
  <2>1. EndsRequest(next, r, ok)   BY <1>0, FinishedCode
  <2> QED  BY <2>1 DEF EndsRequest
<1>3. CodeBecomes(next, gone)
  BY <1>0
<1>4. ajaxCode \in Seq(Codes) /\ gone <= Len(ajaxCode) /\ Len(ajaxCode) \in Nat /\ Len(next) \in Nat
  BY <1>1, <1>2 DEF AjaxTypes
<1>5. gone = 0 => Len(ajaxCode) = 0 \/ ajaxCode[1][1] \in {"user", "ajaxSend"}
  BY <1>4, <1>1, FirstCode DEF AjaxTurn
<1>6. TurnOf(r, next, gone)
  <2>1. gone = 1 => ajaxCode[1][1] # "ajaxSend"   BY DEF Flow
  <2> QED  BY <1>2, <1>3, <1>4, <1>5, <2>1 DEF TurnOf
<1>7. ajaxCode' \in Seq(Codes)
  BY <1>2, <1>3, <1>4, CodeStepOf
<1>8. \A q \in Requests : q # r => Untouched(q)
  <2>1. \A q \in Requests : q # r => /\ xstate'[q] = xstate[q] /\ timeout'[q] = timeout[q]
                                     /\ transport'[q] = transport[q]
    BY <1>1 DEF Done, AjaxTypes
  <2> QED  BY <2>1 DEF Untouched, codeVars
<1>9. /\ xstate' \in [Requests -> -1 .. 2] /\ xstate'[r] = 2
      /\ transport' \in [Requests -> BOOLEAN] /\ timeout' \in [Requests -> BOOLEAN]
      /\ ~transport'[r] /\ ~timeout'[r]
  <2>1. UnderWay(r)   BY <1>1 DEF AjaxInvFor
  <2>6. HasOp("send", r) => gone = 0
    <3>1. gone = 1 => 1 \in 1 .. Len(ajaxCode)   BY <1>4
    <3> QED  BY <1>1, <3>1 DEF AjaxInvFor, FlowPlaces, HasOp, Flow
  <2>2. (transport[r] => xstate[r] # 2) /\ (timeout[r] => xstate[r] # 2)   BY <2>1, <2>6 DEF UnderWay
  <2>3. /\ xstate' \in [Requests -> -1 .. 2] /\ xstate'[r] = 2
    BY <1>1 DEF Done, AjaxTypes
  <2>4. /\ transport' \in [Requests -> BOOLEAN]
        /\ transport'[r] = IF xstate[r] = 2 THEN transport[r] ELSE FALSE
    BY <1>1 DEF Done, AjaxTypes
  <2>5. /\ timeout' \in [Requests -> BOOLEAN]
        /\ timeout'[r] = IF xstate[r] = 2 THEN timeout[r] ELSE FALSE
    BY <1>1 DEF Done, AjaxTypes
  <2> QED  BY <2>2, <2>3, <2>4, <2>5
<1>10. AjaxTypes'
  BY <1>1, <1>7, <1>9 DEF AjaxTypes, codeVars
<1>11. FlowPlaces(r)'
  <2>1. FlowPlaces(r)   BY <1>1 DEF AjaxInvFor
  <2>2. CASE gone = 1
    <3>1. /\ \A i, j \in 1 .. Len(next) :
                next[i][1] \in Flow /\ next[i][2] = r /\ next[j][1] \in Flow /\ next[j][2] = r => i = j
          /\ \A i, j \in 1 .. Len(next) : next[i][1] \in Finishing /\ next[j][1] \in Flow => i < j
      BY <1>2
    <3>2. \A k \in 1 .. Len(next) : next[k][1] # "done" /\ next[k][1] # "send"
      BY <1>2 DEF Flow
    <3>3. gone = 1 /\ ajaxCode[1][1] \in Flow /\ ajaxCode[1][2] = r   BY <2>2
    <3> QED  BY <1>2, <1>3, <1>4, <2>1, <3>1, <3>2, <3>3, NewPlaces
  <2>3. CASE gone = 0
    <3>1. \A k \in 1 .. Len(next) : next[k][1] \in Flow => next[k][2] # r   BY <1>2
    <3>2. gone # 1   BY <2>3
    <3> QED  BY <1>2, <1>3, <1>4, <1>5, <2>1, <3>1, <3>2, OldPlaces
  <2> QED  BY <2>2, <2>3
<1>12. /\ gone = 1 => ~HasFlow(r)'
       /\ ~HasOp("done", r)'
       /\ HasOp("open", r)' => HasOp("open", r)
  <2>1. ASSUME NEW n \in Flow
        PROVE  /\ HasOp(n, r)' => HasOp(n, r)
               /\ gone = 1 => ~HasOp(n, r)'
    <3>1. ~\E k \in 1 .. Len(next) : next[k][1] = n /\ next[k][2] = r   BY <1>2
    <3>2. HasOp(n, r)' => HasOp(n, r) \/ \E k \in 1 .. Len(next) : next[k][1] = n /\ next[k][2] = r
      BY <1>2, <1>3, <1>4, MineAfter
    <3>3. FlowPlaces(r) /\ gone = 1 /\ ajaxCode[1][1] \in Flow /\ ajaxCode[1][2] = r /\ n \in Flow =>
             (HasOp(n, r)' => \E k \in 1 .. Len(next) : next[k][1] = n /\ next[k][2] = r)
      BY <1>2, <1>3, <1>4, MineAfter
    <3> QED  BY <1>1, <3>1, <3>2, <3>3 DEF AjaxInvFor
  <2>2. gone = 1 => ~HasFlow(r)'   BY <2>1 DEF HasFlow
  <2>3. /\ HasOp("done", r)' => HasOp("done", r) /\ gone = 0
        /\ HasOp("send", r)' => HasOp("send", r) /\ gone = 0
        /\ HasOp("open", r)' => HasOp("open", r)
    BY <2>1 DEF Flow
  <2>4. gone = 0 => ~HasOp("done", r)
    <3>1. HasOp("done", r) => 1 \in 1 .. Len(ajaxCode) /\ ajaxCode[1][1] = "done"
      BY <1>1 DEF AjaxInvFor, FlowPlaces, HasOp
    <3> QED  BY <1>4, <1>5, <3>1
  <2> QED  BY <2>2, <2>3, <2>4
<1>13. /\ \A n \in Finishing : HasOp(n, r) => HasOp(n, r)'
       /\ xstate[r] = 2 => \A n \in Finishing : HasOp(n, r)' => HasOp(n, r)
       /\ xstate[r] # 2 => HasOp("codes", r)' /\ HasOp("complete", r)' /\ HasOp("uncount", r)'
  <2>1. ASSUME NEW n \in Finishing
        PROVE  /\ HasOp(n, r) => HasOp(n, r)'
               /\ xstate[r] = 2 => (HasOp(n, r)' => HasOp(n, r))
               /\ (\E k \in 1 .. Len(next) : next[k][1] = n /\ next[k][2] = r) => HasOp(n, r)'
    <3>1. gone = 1 => ajaxCode[1][1] # n   BY DEF Flow, Finishing
    <3>2. HasOp(n, r) /\ (gone = 1 => ajaxCode[1][1] # n \/ ajaxCode[1][2] # r) => HasOp(n, r)'
      BY <1>2, <1>3, <1>4, MineAfter
    <3>3. HasOp(n, r)' => HasOp(n, r) \/ \E k \in 1 .. Len(next) : next[k][1] = n /\ next[k][2] = r
      BY <1>2, <1>3, <1>4, MineAfter
    <3>4. (\E k \in 1 .. Len(next) : next[k][1] = n /\ next[k][2] = r) => HasOp(n, r)'
      BY <1>2, <1>3, <1>4, MineAfter
    <3>5. xstate[r] = 2 => Len(next) = 0   BY <1>2
    <3>6. xstate[r] = 2 => ~\E k \in 1 .. Len(next) : next[k][1] = n /\ next[k][2] = r   BY <3>5
    <3> QED  BY <3>1, <3>2, <3>3, <3>4, <3>6
  <2>2. ASSUME xstate[r] # 2 PROVE HasOp("codes", r)' /\ HasOp("complete", r)' /\ HasOp("uncount", r)'
    <3>1. PICK i, j, k, m \in 1 .. Len(next) :
             /\ next[i] = <<"settle", r, ok>> /\ next[j] = <<"codes", r>>
             /\ next[k] = <<"complete", r>> /\ next[m] = <<"uncount", r>>
      BY <1>2, <2>2
    <3>2. /\ next[j][1] = "codes" /\ next[j][2] = r /\ next[k][1] = "complete" /\ next[k][2] = r
          /\ next[m][1] = "uncount" /\ next[m][2] = r
      BY <3>1
    <3> QED  BY <2>1, <3>2 DEF Finishing
  <2> QED  BY <2>1, <2>2
<1>14. /\ HasWith("settle", r, FALSE) => HasWith("settle", r, FALSE)'
       /\ xstate[r] = 2 => (HasWith("settle", r, TRUE)' => HasWith("settle", r, TRUE))
       /\ xstate[r] # 2 /\ ~ok => HasWith("settle", r, FALSE)'
       /\ ~ok => (HasWith("settle", r, TRUE)' => HasWith("settle", r, TRUE))
  <2>1. gone = 1 => ajaxCode[1][1] # "settle"   BY DEF Flow
  <2>2. ASSUME NEW b
        PROVE  /\ HasWith("settle", r, b) => HasWith("settle", r, b)'
               /\ xstate[r] = 2 \/ b # ok => (HasWith("settle", r, b)' => HasWith("settle", r, b))
    <3>1. HasWith("settle", r, b) /\ (gone = 1 => ajaxCode[1][1] # "settle" \/ ajaxCode[1][2] # r)
             => HasWith("settle", r, b)'
      BY <1>2, <1>3, <1>4, MineWithAfter
    <3>2. HasWith("settle", r, b)' =>
             \/ HasWith("settle", r, b)
             \/ \E k \in 1 .. Len(next) : next[k][1] = "settle" /\ next[k][2] = r /\ next[k][3] = b
      BY <1>2, <1>3, <1>4, MineWithAfter
    <3>3. xstate[r] = 2 => Len(next) = 0   BY <1>2
    <3>4. xstate[r] = 2 \/ b # ok =>
             ~\E k \in 1 .. Len(next) : next[k][1] = "settle" /\ next[k][2] = r /\ next[k][3] = b
      BY <1>2, <3>3
    <3> QED  BY <2>1, <3>1, <3>2, <3>4
  <2>3. xstate[r] # 2 => HasWith("settle", r, ok)'
    <3>1. (\E k \in 1 .. Len(next) : next[k][1] = "settle" /\ next[k][2] = r /\ next[k][3] = ok)
             => HasWith("settle", r, ok)'
      BY <1>2, <1>3, <1>4, MineWithAfter
    <3>2. ASSUME xstate[r] # 2
          PROVE  \E k \in 1 .. Len(next) : next[k][1] = "settle" /\ next[k][2] = r /\ next[k][3] = ok
      <4>1. PICK i \in 1 .. Len(next) : next[i] = <<"settle", r, ok>>   BY <1>2, <3>2
      <4> QED  BY <4>1
    <3> QED  BY <3>1, <3>2
  <2>4. ~ok => ok = FALSE /\ TRUE # ok   OBVIOUS
  <2> QED  BY <2>2, <2>3, <2>4
<1>15. FlowStates(r)'
  BY <1>9, <1>12 DEF FlowStates
<1>16. SettledFirst(r)'
  <2>1. \A k \in 1 .. Len(next) : next[k][1] = "complete" /\ next[k][2] = r =>
              \E m \in 1 .. k - 1 : next[m][1] = "settle" /\ next[m][2] = r
    <3> SUFFICES ASSUME NEW k \in 1 .. Len(next), next[k][1] = "complete"
                 PROVE  \E m \in 1 .. k - 1 : next[m][1] = "settle" /\ next[m][2] = r
      OBVIOUS
    <3>1. 1 \in 1 .. k - 1   BY <1>2, <1>4
    <3>2. next[1][1] = "settle" /\ next[1][2] = r   BY <1>2
    <3> QED  BY <3>1, <3>2
  <2>2. gone = 1 => ajaxCode[1][1] # "settle"   BY DEF Flow
  <2>3. SettledFirst(r)   BY <1>1 DEF AjaxInvFor
  <2> QED  BY <1>2, <1>3, <1>4, <2>1, <2>2, <2>3, SettledFirstAfter
<1>17. Finishes(r)'
  BY <1>1, <1>9, <1>13 DEF AjaxInvFor, Finishes, OverOrRevived, Finishing
<1>18. Holding(r)' /\ UnderWay(r)'
  BY <1>1, <1>9, <1>13 DEF AjaxInvFor, Holding, UnderWay, Finishing, codeVars
<1>19. Refusals(r)'
  <2>1. Refusals(r)   BY <1>1 DEF AjaxInvFor
  <2>2. ~HasWith("done", r, TRUE)'   BY <1>12 DEF HasWith, HasOp
  <2>3. CASE xstate[r] = 2
    <3>1. refused' = refused /\ gone = 1   BY <2>3
    <3> QED  BY <1>9, <1>12, <1>14, <2>1, <2>2, <2>3, <3>1 DEF Refusals, OverOrRevived
  <2>4. CASE xstate[r] # 2
    <3>1. outcome[r] # "success" /\ ~HasWith("settle", r, TRUE)   BY <2>1, <2>4 DEF Refusals
    <3>2. CASE ok
      <4>1. refused' = refused /\ gone = 1 /\ (r \notin refused \/ outcome[r] = "error")   BY <3>2
      <4> QED  BY <1>9, <1>12, <2>2, <3>1, <4>1 DEF Refusals, OverOrRevived
    <3>3. CASE ~ok
      BY <1>9, <1>14, <2>2, <2>4, <3>1, <3>3 DEF Refusals, OverOrRevived
    <3> QED  BY <3>2, <3>3
  <2> QED  BY <2>3, <2>4
<1>20. Opens(r)'
  <2>1. UncountedOnce(r)   BY <1>1 DEF AjaxInvFor, Opens
  <2>2. UncountedOnce(r)'
    <3>1. CASE xstate[r] = 2
      <4>1. Len(next) = 0   BY <1>2, <3>1
      <4>2. \A k \in 1 .. Len(next) : next[k][1] # "uncount" \/ next[k][2] # r   BY <4>1
      <4> QED  BY <1>2, <1>3, <1>4, <2>1, <4>2, UncountedOnceAfter
    <3>2. CASE xstate[r] # 2
      <4>1. ~HasOp("uncount", r)
        BY <1>1, <3>2 DEF AjaxInvFor, FlowStates, HasFinishing, Finishing
      <4> QED  BY <1>2, <1>3, <1>4, <2>1, <4>1, UncountedOnceAfter
    <3> QED  BY <3>1, <3>2
  <2> QED  BY <1>1, <1>9, <1>12, <2>2 DEF AjaxInvFor, Opens
<1>21. Counts(r)' <=> Counts(r)
  <2>1. CASE xstate[r] = 2
    BY <1>9, <1>13, <2>1 DEF Counts, Finishing
  <2>2. CASE xstate[r] # 2
    <3>1. xstate[r] \in {-1, 0, 1}   BY <1>1, <2>2 DEF AjaxTypes
    <3>2. globals[r] => xstate[r] \in {0, 1}   BY <1>1, <3>1 DEF AjaxInvFor, Opens
    <3> QED  BY <1>9, <1>13, <2>2, <3>2 DEF Counts
  <2> QED  BY <2>1, <2>2
<1>22. AjaxInvFor(r)'
  BY <1>11, <1>15, <1>16, <1>17, <1>18, <1>19, <1>20 DEF AjaxInvFor
<1>23. UNCHANGED <<active, begun>> /\ (revived' = {} => revived = {})
  OBVIOUS
<1> QED  BY <1>6, <1>8, <1>10, <1>21, <1>22, <1>23, StepKeeps

\* ajax() goes on: it runs the piece of code for r there is, or starts with none, and
\* puts at most one in its place.
LEMMA FlowGoesOn ==
    ASSUME AjaxTypes, NEW r, AjaxInvFor(r), NEW next, NEW gone, TurnOf(r, next, gone),
           \/ gone = 1 /\ ajaxCode[1][1] \in Flow /\ ajaxCode[1][2] = r
           \/ ~HasFlow(r) /\ ~HasFinishing(r),
           \A k \in 1 .. Len(next) : next[k][1] \notin Finishing,
           \A i, j \in 1 .. Len(next) :
              next[i][1] \in Flow /\ next[i][2] = r /\ next[j][1] \in Flow /\ next[j][2] = r => i = j,
           \A k \in 1 .. Len(next) :
              /\ next[k][1] = "done" => k = 1
              /\ next[k][1] = "send" => k = 1 \/ (next[k - 1][1] = "ajaxSend" /\ next[k - 1][2] = r),
           outcome' = outcome
    PROVE  /\ FlowPlaces(r)' /\ UncountedOnce(r)' /\ SettledFirst(r)' /\ ajaxCode' \in Seq(Codes)
           /\ \A n \in Flow : HasOp(n, r)' <=> \E k \in 1 .. Len(next) : next[k][1] = n /\ next[k][2] = r
           /\ \A n \in Finishing : HasOp(n, r)' <=> HasOp(n, r)
           /\ HasFinishing(r)' <=> HasFinishing(r)
           /\ \A b : HasWith("settle", r, b)' <=> HasWith("settle", r, b)
           /\ \A b : HasWith("done", r, b)' =>
                \E k \in 1 .. Len(next) : next[k][1] = "done" /\ next[k][2] = r /\ next[k][3] = b
<1>1. /\ ajaxCode \in Seq(Codes) /\ next \in Seq(Codes) /\ gone \in {0, 1} /\ gone <= Len(ajaxCode)
      /\ CodeBecomes(next, gone)
  BY DEF AjaxTypes, TurnOf
<1>2. FlowPlaces(r) /\ SettledFirst(r) /\ UncountedOnce(r)
  BY DEF AjaxInvFor, Opens
<1>3. ajaxCode' \in Seq(Codes)
  BY <1>1, CodeStepOf
<1>4. FlowPlaces(r)'
  <2>1. \A i, j \in 1 .. Len(next) : next[i][1] \in Finishing /\ next[j][1] \in Flow => i < j
    OBVIOUS
  <2> QED  BY <1>1, <1>2, <2>1, NewPlaces
<1>5. UncountedOnce(r)'
  <2>1. \A k \in 1 .. Len(next) : next[k][1] # "uncount" \/ next[k][2] # r   BY DEF Finishing
  <2> QED  BY <1>1, <1>2, <2>1, UncountedOnceAfter
<1>6. gone = 1 => (ajaxCode[1][1] \notin Finishing \/ ajaxCode[1][2] # r)
  <2>1. Flow \intersect Finishing = {}   BY DEF Flow, Finishing
  <2>2. CASE ~HasFlow(r) /\ ~HasFinishing(r)
    <3>1. gone = 1 => 1 \in 1 .. Len(ajaxCode)   BY <1>1
    <3> QED  BY <2>2, <3>1 DEF HasFinishing, HasOp
  <2> QED  BY <2>1, <2>2
<1>7. SettledFirst(r)'
  <2>1. \A k \in 1 .. Len(next) : next[k][1] = "complete" /\ next[k][2] = r =>
              \E m \in 1 .. k - 1 : next[m][1] = "settle" /\ next[m][2] = r
    BY DEF Finishing
  <2>2. gone = 1 => (ajaxCode[1][1] # "settle" \/ ajaxCode[1][2] # r)   BY <1>6 DEF Finishing
  <2> QED  BY <1>1, <1>2, <2>1, <2>2, SettledFirstAfter
<1>8. ASSUME NEW n \in Flow
      PROVE  HasOp(n, r)' <=> \E k \in 1 .. Len(next) : next[k][1] = n /\ next[k][2] = r
  <2>1. (\E k \in 1 .. Len(next) : next[k][1] = n /\ next[k][2] = r) => HasOp(n, r)'
    BY <1>1, MineAfter
  <2>2. HasOp(n, r)' => HasOp(n, r) \/ \E k \in 1 .. Len(next) : next[k][1] = n /\ next[k][2] = r
    BY <1>1, MineAfter
  <2>3. FlowPlaces(r) /\ gone = 1 /\ ajaxCode[1][1] \in Flow /\ ajaxCode[1][2] = r /\ n \in Flow =>
           (HasOp(n, r)' => \E k \in 1 .. Len(next) : next[k][1] = n /\ next[k][2] = r)
    BY <1>1, MineAfter
  <2>4. HasOp(n, r) => HasFlow(r)   BY DEF HasFlow
  <2> QED  BY <1>2, <2>1, <2>2, <2>3, <2>4
<1>9. ASSUME NEW n \in Finishing
      PROVE  HasOp(n, r)' <=> HasOp(n, r)
  <2>1. HasOp(n, r)' => HasOp(n, r) \/ \E k \in 1 .. Len(next) : next[k][1] = n /\ next[k][2] = r
    BY <1>1, MineAfter
  <2>2. HasOp(n, r) /\ (gone = 1 => ajaxCode[1][1] # n \/ ajaxCode[1][2] # r) => HasOp(n, r)'
    BY <1>1, MineAfter
  <2> QED  BY <1>6, <2>1, <2>2
<1>10. HasFinishing(r)' <=> HasFinishing(r)
  BY <1>9 DEF HasFinishing
<1>11. ASSUME NEW b PROVE HasWith("settle", r, b)' <=> HasWith("settle", r, b)
  <2>1. HasWith("settle", r, b)' =>
           \/ HasWith("settle", r, b)
           \/ \E k \in 1 .. Len(next) : next[k][1] = "settle" /\ next[k][2] = r /\ next[k][3] = b
    BY <1>1, MineWithAfter
  <2>2. HasWith("settle", r, b) /\ (gone = 1 => ajaxCode[1][1] # "settle" \/ ajaxCode[1][2] # r)
           => HasWith("settle", r, b)'
    BY <1>1, MineWithAfter
  <2> QED  BY <1>6, <2>1, <2>2 DEF Finishing
<1>12. ASSUME NEW b, HasWith("done", r, b)'
       PROVE  \E k \in 1 .. Len(next) : next[k][1] = "done" /\ next[k][2] = r /\ next[k][3] = b
  <2>1. HasWith("done", r, b)' =>
           \/ \E k \in 1 .. Len(next) : next[k][1] = "done" /\ next[k][2] = r /\ next[k][3] = b
           \/ \E j \in 1 + gone .. Len(ajaxCode) :
                 ajaxCode[j][1] = "done" /\ ajaxCode[j][2] = r /\ ajaxCode[j][3] = b
    BY <1>1, HasWithAfter
  <2>2. ASSUME NEW j \in 1 + gone .. Len(ajaxCode), ajaxCode[j][1] = "done", ajaxCode[j][2] = r
        PROVE  FALSE
    <3>0. Len(ajaxCode) \in Nat /\ gone \in Nat   BY <1>1
    <3>1. j \in 1 .. Len(ajaxCode) /\ "done" \in Flow   BY <3>0 DEF Flow
    <3>2. HasFlow(r)   BY <2>2, <3>1 DEF HasFlow, HasOp
    <3>3. gone = 1   BY <3>2
    <3>4. j = 1   BY <1>2, <2>2, <3>1 DEF FlowPlaces
    <3> QED  BY <3>0, <3>3, <3>4
  <2> QED  BY <1>12, <2>1, <2>2
<1> QED  BY <1>3, <1>4, <1>5, <1>7, <1>8, <1>9, <1>10, <1>11, <1>12

-----------------------------------------------------------------------------
(* Requests that are over.                                                   *)

LEMMA DoneKeeps ==
    ASSUME AjaxInv, NEW r \in Requests, NEW ok \in BOOLEAN, HeadIs("done", r), ajaxCode[1][3] = ok,
           DoneWith(r, ok), UNCHANGED <<codeVars, refused, revived>>
    PROVE  AjaxInv'
<1>1. AjaxTypes /\ AjaxInvFor(r)   BY DEF AjaxInv
<1>2. 1 \in 1 .. Len(ajaxCode) /\ ajaxCode[1][1] = "done" /\ ajaxCode[1][2] = r
  BY <1>1, FirstCode DEF HeadIs
<1>3. CodeBecomes(Finished(r, ok), 1) /\ 1 \in {0, 1} /\ 1 # 0
  BY DEF CodeBecomes, DoneWith, AjaxGoes
<1>4. ajaxCode # << >> /\ ajaxCode[1][1] \in Flow /\ ajaxCode[1][1] # "send"
  BY <1>2 DEF HeadIs, Flow
<1>5. xhr' = xhr /\ xhr[r] # "open" /\ xhr \in [Requests -> {"unset", "open", "called"}]
  <2>1. HasOp("done", r)   BY <1>2 DEF HasOp
  <2> QED  BY <1>1, <2>1 DEF AjaxInvFor, UnderWay, DoneWith, AjaxTypes
<1>6. ok => r \notin refused \/ outcome[r] = "error"
  <2>1. ok => HasWith("done", r, TRUE)   BY <1>2 DEF HasWith
  <2> QED  BY <1>1, <2>1 DEF AjaxInvFor, Refusals
<1>7. /\ Done(r) /\ UNCHANGED <<options, globals, codeVars, active, outcome, completed, begun>>
      /\ refused' = refused /\ revived' = revived
  BY DEF DoneWith
<1> QED  BY <1>2, <1>3, <1>4, <1>5, <1>6, <1>7, OverKeeps

\* abort(), from outside of ajax() or from one of its turns.
LEMMA AbortKeeps ==
    ASSUME AjaxInv, NEW r \in Requests, Abort(r)
    PROVE  AjaxInv'
<1>1. AjaxTypes /\ AjaxInvFor(r)   BY DEF AjaxInv
<1>2. AjaxTurn /\ xstate[r] # 2   BY DEF Abort
<1>3. CodeBecomes(Finished(r, FALSE), 0) /\ 0 \in {0, 1} /\ 0 # 1 /\ FALSE \in BOOLEAN
  BY DEF CodeBecomes, Abort, AbortRequest
<1>5. /\ xhr' \in [Requests -> {"unset", "open", "called"}] /\ xhr'[r] # "open"
      /\ \A q \in Requests : q # r => xhr'[q] = xhr[q]
  <2>1. xhr[r] = "open" => transport[r]   BY <1>1 DEF AjaxInvFor, UnderWay
  <2> QED  BY <1>1, <2>1 DEF Abort, AbortRequest, AjaxTypes
<1>6. /\ Done(r) /\ UNCHANGED <<options, globals, codeVars, active, outcome, completed, begun>>
      /\ refused' = refused \union {r} /\ revived' = revived
  BY DEF Abort, AbortRequest
<1> QED  BY <1>2, <1>3, <1>5, <1>6, OverKeeps

LEMMA TimedOutKeeps ==
    ASSUME AjaxInv, NEW r \in Requests, TimedOut(r)
    PROVE  AjaxInv'
<1>1. AjaxTypes /\ AjaxInvFor(r)   BY DEF AjaxInv
<1>2. AjaxTurn /\ xstate[r] # 2 /\ xstate[r] = 1
  BY <1>1 DEF AjaxTurn, TimedOut, AjaxInvFor, UnderWay
<1>3. CodeBecomes(Finished(r, FALSE), 0) /\ 0 \in {0, 1} /\ 0 # 1 /\ FALSE \in BOOLEAN
  <2>1. Finished(r, FALSE) \in Seq(Codes)
    <3>1. PICK next : next = Finished(r, FALSE)   OBVIOUS
    <3>2. EndsRequest(next, r, FALSE)   BY <3>1, FinishedCode
    <3> QED  BY <3>1, <3>2 DEF EndsRequest
  <2>2. Finished(r, FALSE) \o << >> = Finished(r, FALSE)   BY <2>1
  <2> QED  BY <1>2, <2>2 DEF CodeBecomes, TimedOut
<1>5. /\ xhr' \in [Requests -> {"unset", "open", "called"}] /\ xhr'[r] # "open"
      /\ \A q \in Requests : q # r => xhr'[q] = xhr[q]
  <2>1. xhr[r] = "open" => transport[r]   BY <1>1 DEF AjaxInvFor, UnderWay
  <2> QED  BY <1>1, <2>1 DEF TimedOut, AjaxTypes
<1>6. Done(r)
  BY <1>2 DEF TimedOut, Done
<1>7. /\ UNCHANGED <<options, globals, codeVars, active, outcome, completed, begun>>
      /\ refused' = refused \union {r} /\ revived' = revived
  BY <1>2 DEF TimedOut
<1> QED  BY <1>2, <1>3, <1>5, <1>6, <1>7, OverKeeps

\* ajax() goes on with a request: what it goes on with.
UserThen(next, op, r) ==
    /\ next \in Seq(Codes) /\ Len(next) = 2
    /\ \A k \in 1 .. Len(next) : next[k] = AjaxUser \/ (k = 2 /\ next[k] = op)
    /\ next[2] = op
    /\ \A k \in 1 .. Len(next) : next[k][1] = "user" \/ next[k][2] = r

LEMMA NextOpen ==
    ASSUME NEW r \in Requests, NEW op, NEW started \in BOOLEAN, NEW next,
           op = <<"open", r>> \/ op = <<"sendable", r, started>>, next = <<AjaxUser, op>>
    PROVE  UserThen(next, op, r)
<1> USE DEF UserThen
<1>1. AjaxUser \in Codes /\ op \in Codes   BY CodesFor
<1>2. op[2] = r   OBVIOUS
<1> QED  BY <1>1, <1>2 DEF AjaxUser

SendsNext(next, r) ==
    /\ next \in Seq(Codes)
    /\ \A k \in 1 .. Len(next) : \/ next[k][1] = "user"
                                 \/ next[k][1] \in {"ajaxSend", "send"} /\ next[k][2] = r
    /\ \E k \in 1 .. Len(next) : next[k][1] = "send" /\ next[k][2] = r
    /\ \A i, j \in 1 .. Len(next) : next[i][1] = "send" /\ next[j][1] = "send" => i = j
    /\ \A k \in 1 .. Len(next) :
         next[k][1] = "send" => k = 1 \/ (next[k - 1][1] = "ajaxSend" /\ next[k - 1][2] = r)

LEMMA NextSend ==
    ASSUME NEW r \in Requests, NEW next,
           \/ next = <<AjaxUser, <<"ajaxSend", r>>, <<"send", r>> >>
           \/ next = << <<"ajaxSend", r>>, <<"send", r>> >>
           \/ next = << <<"send", r>> >>
    PROVE  SendsNext(next, r)
<1> USE DEF SendsNext
<1>1. <<"ajaxSend", r>> \in Codes /\ <<"send", r>> \in Codes /\ AjaxUser \in Codes   BY CodesFor
<1>2. CASE next = <<AjaxUser, <<"ajaxSend", r>>, <<"send", r>> >>
  <2>1. /\ next \in Seq(Codes) /\ Len(next) = 3 /\ next[1][1] = "user"
        /\ next[2] = <<"ajaxSend", r>> /\ next[3] = <<"send", r>>
    BY <1>1, <1>2 DEF AjaxUser
  <2>2. \A k \in 1 .. Len(next) : k \in {1, 2, 3}   BY <2>1
  <2>3. 3 \in 1 .. Len(next) /\ 3 - 1 = 2   BY <2>1
  <2> QED  BY <2>1, <2>2, <2>3
<1>3. CASE next = << <<"ajaxSend", r>>, <<"send", r>> >>
  <2>1. /\ next \in Seq(Codes) /\ Len(next) = 2
        /\ next[1] = <<"ajaxSend", r>> /\ next[2] = <<"send", r>>
    BY <1>1, <1>3
  <2>2. \A k \in 1 .. Len(next) : k \in {1, 2}   BY <2>1
  <2>3. 2 \in 1 .. Len(next) /\ 2 - 1 = 1   BY <2>1
  <2> QED  BY <2>1, <2>2, <2>3
<1>4. CASE next = << <<"send", r>> >>
  <2>1. next \in Seq(Codes) /\ Len(next) = 1 /\ next[1] = <<"send", r>>   BY <1>1, <1>4
  <2>2. \A k \in 1 .. Len(next) : k = 1   BY <2>1
  <2>3. 1 \in 1 .. Len(next)   BY <2>1
  <2> QED  BY <2>1, <2>2, <2>3
<1> QED  BY <1>2, <1>3, <1>4

LEMMA NextDone ==
    ASSUME NEW r \in Requests, NEW ok \in BOOLEAN, NEW next, next = << <<"done", r, ok>> >>
    PROVE  /\ next \in Seq(Codes) /\ Len(next) = 1 /\ next[1] = <<"done", r, ok>>
           /\ \A k \in 1 .. Len(next) : k = 1 /\ next[k] = <<"done", r, ok>>
<1>1. <<"done", r, ok>> \in Codes   BY CodesFor
<1> QED  BY <1>1

\* ajax(): the prefilters have their turn.
LEMMA RequestKeeps ==
    ASSUME AjaxInv, NEW r \in Requests, Request(r)
    PROVE  AjaxInv'
<1>1. AjaxTypes /\ AjaxInvFor(r) /\ xstate[r] = -1   BY DEF AjaxInv, Request
<1>2. PICK next : next = <<AjaxUser, <<"open", r>> >>   OBVIOUS
<1>3. /\ next \in Seq(Codes) /\ Len(next) = 2
      /\ \A k \in 1 .. Len(next) : next[k] = AjaxUser \/ (k = 2 /\ next[k] = <<"open", r>>)
      /\ next[2] = <<"open", r>>
      /\ \A k \in 1 .. Len(next) : next[k][1] = "user" \/ next[k][2] = r
  <2>1. UserThen(next, <<"open", r>>, r)   BY <1>2, NextOpen
  <2> QED  BY <2>1 DEF UserThen
<1>4. CodeBecomes(next, 0) /\ 0 \in {0, 1}   BY <1>2 DEF CodeBecomes, Request
<1>5. ajaxCode \in Seq(Codes) /\ Len(ajaxCode) \in Nat /\ 0 <= Len(ajaxCode)   BY <1>1 DEF AjaxTypes
<1>6. TurnOf(r, next, 0)
  <2>1. Len(ajaxCode) = 0 \/ ajaxCode[1][1] \in {"user", "ajaxSend"}
    BY <1>1, <1>5, FirstCode DEF AjaxTurn, Request
  <2> QED  BY <1>3, <1>4, <1>5, <2>1 DEF TurnOf
<1>7. ~HasFlow(r) /\ ~HasFinishing(r)
  BY <1>1 DEF AjaxInvFor, FlowStates
<1>8. /\ FlowPlaces(r)' /\ UncountedOnce(r)' /\ SettledFirst(r)' /\ ajaxCode' \in Seq(Codes)
      /\ \A n \in Flow : HasOp(n, r)' <=> \E k \in 1 .. Len(next) : next[k][1] = n /\ next[k][2] = r
      /\ \A n \in Finishing : HasOp(n, r)' <=> HasOp(n, r)
      /\ HasFinishing(r)' <=> HasFinishing(r)
      /\ \A b : HasWith("settle", r, b)' <=> HasWith("settle", r, b)
      /\ \A b : HasWith("done", r, b)' =>
           \E k \in 1 .. Len(next) : next[k][1] = "done" /\ next[k][2] = r /\ next[k][3] = b
  <2>1. \A k \in 1 .. Len(next) : next[k][1] \in {"user", "open"} /\ (next[k][1] = "open" => k = 2)
    BY <1>3 DEF AjaxUser
  <2>2. \A k \in 1 .. Len(next) : next[k][1] \notin Finishing   BY <2>1 DEF Finishing
  <2>3. \A i, j \in 1 .. Len(next) :
           next[i][1] \in Flow /\ next[i][2] = r /\ next[j][1] \in Flow /\ next[j][2] = r => i = j
    BY <2>1 DEF Flow
  <2>4. \A k \in 1 .. Len(next) :
           /\ next[k][1] = "done" => k = 1
           /\ next[k][1] = "send" => k = 1 \/ (next[k - 1][1] = "ajaxSend" /\ next[k - 1][2] = r)
    BY <2>1
  <2>5. outcome' = outcome   BY DEF Request
  <2> QED  BY <1>1, <1>6, <1>7, <2>2, <2>3, <2>4, <2>5, FlowGoesOn
<1>9. HasOp("open", r)' /\ ~HasOp("send", r)' /\ ~HasOp("done", r)' /\ ~HasFinishing(r)'
  <2>1. \A k \in 1 .. Len(next) : next[k][1] \in {"user", "open"}
    BY <1>3 DEF AjaxUser
  <2>2. HasOp("open", r)'
    <3>1. 2 \in 1 .. Len(next) /\ next[2][1] = "open" /\ next[2][2] = r   BY <1>3
    <3> QED  BY <1>8, <3>1 DEF Flow
  <2>3. ~HasOp("send", r)' /\ ~HasOp("done", r)'
    BY <1>8, <2>1 DEF Flow
  <2> QED  BY <1>7, <1>8, <2>2, <2>3
<1>10. /\ xstate' \in [Requests -> -1 .. 2] /\ xstate'[r] = 0
       /\ \A q \in Requests : q # r => xstate'[q] = xstate[q]
  BY <1>1 DEF AjaxTypes, Request
<1>11. AjaxTypes'
  BY <1>1, <1>8, <1>10 DEF AjaxTypes, Request, codeVars
<1>12. \A q \in Requests : q # r => Untouched(q)
  BY <1>10 DEF Untouched, Request, codeVars
<1>13. /\ globals' = globals /\ transport' = transport /\ xhr' = xhr /\ timeout' = timeout
       /\ outcome' = outcome /\ completed' = completed /\ coded' = coded /\ collects' = collects
       /\ refused' = refused /\ revived' = revived
  BY DEF Request, codeVars
<1>14. ~transport[r] /\ ~timeout[r] /\ xhr[r] # "open" /\ r \notin refused /\ ~globals[r]
       /\ outcome[r] # "success" /\ ~HasWith("settle", r, TRUE) /\ collects[r]
  <2>6. Refusals(r)   BY <1>1 DEF AjaxInvFor
  <2>7. xstate[r] # 2   BY <1>1
  <2>2. r \notin refused   BY <1>1, <2>6 DEF Refusals, OverOrRevived
  <2>3. outcome[r] # "success" /\ ~HasWith("settle", r, TRUE)   BY <2>6, <2>7 DEF Refusals
  <2>4. ~transport[r] /\ ~timeout[r] /\ xhr[r] # "open"
    <3>1. ~HasOp("send", r)   BY <1>1 DEF AjaxInvFor, FlowStates
    <3> QED  BY <1>1, <3>1 DEF AjaxInvFor, UnderWay
  <2>5. ~globals[r] /\ collects[r]   BY <1>1 DEF AjaxInvFor, Opens, Holding
  <2> QED  BY <2>2, <2>3, <2>4, <2>5
<1>15. FlowStates(r)'
  BY <1>9, <1>10 DEF FlowStates
<1>16. Finishes(r)' /\ Holding(r)'
  <2>2. completed[r] # 1   BY <1>1 DEF AjaxInvFor, Finishes, OverOrRevived
  <2> QED  BY <1>10, <1>13, <1>14, <2>2 DEF Finishes, Holding
<1>17. UnderWay(r)' /\ Refusals(r)'
  <2>1. ~HasWith("done", r, TRUE)'   BY <1>9 DEF HasWith, HasOp
  <2> QED  BY <1>8, <1>13, <1>14, <2>1 DEF UnderWay, Refusals
<1>18. Opens(r)'
  BY <1>8, <1>13, <1>14 DEF Opens
<1>19. AjaxInvFor(r)'
  BY <1>8, <1>15, <1>16, <1>17, <1>18 DEF AjaxInvFor
<1>20. Counts(r)' <=> Counts(r)
  BY <1>13, <1>14 DEF Counts
<1>21. UNCHANGED <<active, begun>> /\ (revived' = {} => revived = {})
  BY DEF Request
<1> QED  BY <1>6, <1>11, <1>12, <1>19, <1>20, <1>21, StepKeeps

\* The server's answer.
LEMMA AnsweredKeeps ==
    ASSUME AjaxInv, NEW r \in Requests, Answered(r)
    PROVE  AjaxInv'
<1>1. AjaxTypes /\ AjaxInvFor(r)   BY DEF AjaxInv
<1>2. PICK ok \in BOOLEAN : ajaxCode' = << <<"done", r, ok>> >>   BY DEF Answered
<1>3. PICK next : next = << <<"done", r, ok>> >>   OBVIOUS
<1>4. /\ next \in Seq(Codes) /\ Len(next) = 1 /\ next[1] = <<"done", r, ok>>
      /\ \A k \in 1 .. Len(next) : k = 1 /\ next[k] = <<"done", r, ok>>
  BY <1>3, NextDone
<1>5. ajaxCode = << >> /\ xhr[r] = "open"   BY DEF Answered
<1>6. ajaxCode \in Seq(Codes) /\ Len(ajaxCode) = 0 /\ 0 <= Len(ajaxCode)   BY <1>1, <1>5 DEF AjaxTypes
<1>7. CodeBecomes(next, 0) /\ 0 \in {0, 1}
  <2>1. next \o << >> = next   BY <1>4
  <2> QED  BY <1>2, <1>3, <1>5, <2>1 DEF CodeBecomes
<1>8. TurnOf(r, next, 0)
  <2>1. \A k \in 1 .. Len(next) : next[k][1] = "user" \/ next[k][2] = r   BY <1>4
  <2> QED  BY <1>4, <1>6, <1>7, <2>1 DEF TurnOf
<1>9. \A n : ~HasOp(n, r) /\ \A b : ~HasWith(n, r, b)
  BY <1>6 DEF HasOp, HasWith
<1>10. ~HasFlow(r) /\ ~HasFinishing(r)
  BY <1>9 DEF HasFlow, HasFinishing
<1>11. /\ FlowPlaces(r)' /\ UncountedOnce(r)' /\ SettledFirst(r)' /\ ajaxCode' \in Seq(Codes)
       /\ \A n \in Flow : HasOp(n, r)' <=> \E k \in 1 .. Len(next) : next[k][1] = n /\ next[k][2] = r
       /\ \A n \in Finishing : HasOp(n, r)' <=> HasOp(n, r)
       /\ HasFinishing(r)' <=> HasFinishing(r)
       /\ \A b : HasWith("settle", r, b)' <=> HasWith("settle", r, b)
       /\ \A b : HasWith("done", r, b)' =>
            \E k \in 1 .. Len(next) : next[k][1] = "done" /\ next[k][2] = r /\ next[k][3] = b
  <2>1. \A k \in 1 .. Len(next) : k = 1 /\ next[k][1] = "done"   BY <1>4
  <2>2. \A k \in 1 .. Len(next) : next[k][1] \notin Finishing   BY <2>1 DEF Finishing
  <2>3. \A i, j \in 1 .. Len(next) :
           next[i][1] \in Flow /\ next[i][2] = r /\ next[j][1] \in Flow /\ next[j][2] = r => i = j
    BY <2>1
  <2>4. \A k \in 1 .. Len(next) :
           /\ next[k][1] = "done" => k = 1
           /\ next[k][1] = "send" => k = 1 \/ (next[k - 1][1] = "ajaxSend" /\ next[k - 1][2] = r)
    BY <2>1
  <2>5. outcome' = outcome   BY DEF Answered
  <2> QED  BY <1>1, <1>8, <1>10, <2>2, <2>3, <2>4, <2>5, FlowGoesOn
<1>12. ~HasOp("open", r)' /\ ~HasOp("sendable", r)' /\ ~HasOp("send", r)' /\ ~HasFinishing(r)'
  <2>1. \A k \in 1 .. Len(next) : next[k][1] = "done"   BY <1>4
  <2> QED  BY <1>10, <1>11, <2>1 DEF Flow
<1>13. /\ xhr' \in [Requests -> {"unset", "open", "called"}] /\ xhr'[r] # "open"
       /\ \A q \in Requests : q # r => xhr'[q] = xhr[q]
  BY <1>1 DEF AjaxTypes, Answered
<1>14. AjaxTypes'
  BY <1>1, <1>11, <1>13 DEF AjaxTypes, Answered, codeVars
<1>15. \A q \in Requests : q # r => Untouched(q)
  BY <1>13 DEF Untouched, Answered, codeVars
<1>16. /\ globals' = globals /\ transport' = transport /\ xstate' = xstate /\ timeout' = timeout
       /\ outcome' = outcome /\ completed' = completed /\ coded' = coded /\ collects' = collects
       /\ refused' = refused /\ revived' = revived
  BY DEF Answered, codeVars
<1>17. xstate[r] = 1 /\ transport[r] /\ (r \in refused => outcome[r] = "error") /\ outcome[r] # "success"
  <2>1. xstate[r] = 1 /\ transport[r]   BY <1>1, <1>5 DEF AjaxInvFor, UnderWay
  <2>2. Refusals(r)   BY <1>1 DEF AjaxInvFor
  <2>3. xstate[r] # 2   BY <2>1
  <2>4. outcome[r] # "success"   BY <2>2, <2>3 DEF Refusals
  <2>5. r \in refused => outcome[r] = "error"   BY <1>9, <2>2 DEF Refusals
  <2> QED  BY <2>1, <2>4, <2>5
<1>18. FlowStates(r)'
  BY <1>12, <1>16, <1>17 DEF FlowStates
<1>19. Finishes(r)' /\ Holding(r)'
  BY <1>1, <1>16, <1>17 DEF AjaxInvFor, Finishes, OverOrRevived, Holding
<1>20. UnderWay(r)' /\ Refusals(r)'
  BY <1>1, <1>9, <1>11, <1>13, <1>16, <1>17 DEF AjaxInvFor, UnderWay, Refusals, OverOrRevived
<1>21. Opens(r)'
  BY <1>11, <1>12, <1>16, <1>17 DEF Opens
<1>22. AjaxInvFor(r)'
  BY <1>11, <1>18, <1>19, <1>20, <1>21 DEF AjaxInvFor
<1>23. Counts(r)' <=> Counts(r)
  BY <1>16, <1>17 DEF Counts
<1>24. UNCHANGED <<active, begun>> /\ (revived' = {} => revived = {})
  BY DEF Answered
<1> QED  BY <1>8, <1>14, <1>15, <1>22, <1>23, <1>24, StepKeeps

\* Callbacks for the status.
LEMMA StatusCodeKeeps ==
    ASSUME AjaxInv, NEW r \in Requests, StatusCode(r)
    PROVE  AjaxInv'
<1>1. AjaxTypes /\ AjaxInvFor(r)   BY DEF AjaxInv
<1>2. ajaxCode \in Seq(Codes) /\ Len(ajaxCode) \in Nat   BY <1>1 DEF AjaxTypes
<1>3. UNCHANGED <<requestVars, collects, active, outcome, completed, ajaxCode, begun, refused, revived>>
  BY DEF StatusCode
<1>4. TurnOf(r, << >>, 0)
  <2>1. Len(ajaxCode) = 0 \/ ajaxCode[1][1] \in {"user", "ajaxSend"}
    BY <1>1, <1>2, FirstCode DEF AjaxTurn, StatusCode
  <2>2. CodeBecomes(<< >>, 0)   BY <1>2, <1>3 DEF CodeBecomes
  <2>3. \A k \in 1 .. Len(<< >>) : << >>[k][1] = "user" \/ << >>[k][2] = r   OBVIOUS
  <2> QED  BY <1>2, <2>1, <2>2, <2>3, NoNext DEF TurnOf
<1>5. /\ coded' \in [Requests -> {"none", "held", "run"}]
      /\ \A q \in Requests : q # r => coded'[q] = coded[q]
      /\ coded'[r] = "held" => xstate[r] < 2 /\ collects[r]
  <2>1. xstate[r] < 2 => collects[r]
    <3>1. xstate[r] < 2 => xstate[r] \in {-1, 0} \/ xstate[r] = 1   BY <1>1 DEF AjaxTypes
    <3> QED  BY <1>1, <3>1 DEF AjaxInvFor, Holding, StatusCode
  <2>2. coded'[r] = IF xstate[r] < 2 THEN "held" ELSE "run"   BY <1>1 DEF AjaxTypes, StatusCode
  <2>3. /\ coded' \in [Requests -> {"none", "held", "run"}]
        /\ \A q \in Requests : q # r => coded'[q] = coded[q]
    BY <1>1 DEF AjaxTypes, StatusCode
  <2> QED  BY <2>1, <2>2, <2>3
<1>6. AjaxTypes'
  BY <1>1, <1>3, <1>5 DEF AjaxTypes, requestVars
<1>7. \A q \in Requests : q # r => Untouched(q)
  BY <1>3, <1>5 DEF Untouched, requestVars
<1>8. AjaxInvFor(r)'
  <2>1. /\ \A n : HasOp(n, r)' <=> HasOp(n, r)
        /\ \A n, b : HasWith(n, r, b)' <=> HasWith(n, r, b)
    BY <1>3 DEF HasOp, HasWith
  <2>2. (HasFlow(r)' <=> HasFlow(r)) /\ (HasFinishing(r)' <=> HasFinishing(r))
    BY <2>1 DEF HasFlow, HasFinishing
  <2>3. FlowPlaces(r)' /\ FlowStates(r)' /\ SettledFirst(r)'
    BY <1>1, <1>3, <2>1, <2>2 DEF AjaxInvFor, FlowPlaces, FlowStates, SettledFirst, requestVars
  <2>4. Finishes(r)' /\ UnderWay(r)' /\ Opens(r)'
    BY <1>1, <1>3, <2>1 DEF AjaxInvFor, Finishes, OverOrRevived, UnderWay, Opens, UncountedOnce, requestVars
  <2>5. Refusals(r)'
    BY <1>1, <1>3, <2>1, <2>2 DEF AjaxInvFor, Refusals, OverOrRevived, requestVars
  <2>6. Holding(r)'
    BY <1>1, <1>3, <1>5 DEF AjaxInvFor, Holding, AjaxTypes, requestVars
  <2> QED  BY <2>3, <2>4, <2>5, <2>6 DEF AjaxInvFor
<1>9. Counts(r)' <=> Counts(r)
  BY <1>3 DEF Counts, HasOp, requestVars
<1>10. UNCHANGED <<active, begun>> /\ (revived' = {} => revived = {})
  BY <1>3
<1> QED  BY <1>4, <1>6, <1>7, <1>8, <1>9, <1>10, StepKeeps

\* After the prefilters.
LEMMA OpenKeeps ==
    ASSUME AjaxInv, NEW r \in Requests, HeadIs("open", r), Open(r),
           UNCHANGED <<codeVars, refused, revived>>
    PROVE  AjaxInv'
<1>1. AjaxTypes /\ AjaxInvFor(r)   BY DEF AjaxInv
<1>2. /\ ajaxCode \in Seq(Codes) /\ 1 \in 1 .. Len(ajaxCode) /\ 1 <= Len(ajaxCode)
      /\ ajaxCode[1][1] = "open" /\ ajaxCode[1][2] = r /\ ajaxCode # << >>
  BY <1>1, FirstCode DEF AjaxTypes, HeadIs
<1>3. HasOp("open", r) /\ HasFlow(r)   BY <1>2 DEF HasFlow, HasOp, Flow
<1>4. xstate[r] \in {0, 2} /\ ~globals[r]
  BY <1>1, <1>3 DEF AjaxInvFor, FlowStates, Opens
<1>5. /\ xstate' = xstate /\ transport' = transport /\ xhr' = xhr /\ timeout' = timeout
      /\ outcome' = outcome /\ completed' = completed /\ coded' = coded /\ collects' = collects
      /\ refused' = refused /\ revived' = revived /\ options' = options
  BY DEF Open, codeVars
<1>6. CASE xstate[r] = 2
  <2>1. TurnOf(r, << >>, 1) /\ ajaxCode' \in Seq(Codes) /\ UNCHANGED <<globals, active, begun>>
    BY <1>1, <1>6, PieceTurn DEF Open
  <2>2. \A q \in Requests : q # r => Untouched(q)   BY <1>5, <2>1 DEF Untouched
  <2>3. AjaxTypes'   BY <1>1, <1>5, <2>1 DEF AjaxTypes
  <2>4. /\ FlowPlaces(r)' /\ UncountedOnce(r)' /\ SettledFirst(r)'
        /\ \A n \in Flow : HasOp(n, r)' <=> \E k \in 1 .. Len(<< >>) : << >>[k][1] = n /\ << >>[k][2] = r
        /\ \A n \in Finishing : HasOp(n, r)' <=> HasOp(n, r)
        /\ HasFinishing(r)' <=> HasFinishing(r)
        /\ \A b : HasWith("settle", r, b)' <=> HasWith("settle", r, b)
    <3>1. /\ \A k \in 1 .. Len(<< >>) : << >>[k][1] \notin Finishing
          /\ \A i, j \in 1 .. Len(<< >>) :
               << >>[i][1] \in Flow /\ << >>[i][2] = r /\ << >>[j][1] \in Flow /\ << >>[j][2] = r => i = j
          /\ \A k \in 1 .. Len(<< >>) :
               /\ << >>[k][1] = "done" => k = 1
               /\ << >>[k][1] = "send" => k = 1 \/ (<< >>[k - 1][1] = "ajaxSend" /\ << >>[k - 1][2] = r)
      OBVIOUS
    <3>2. 1 = 1 /\ ajaxCode[1][1] \in Flow /\ ajaxCode[1][2] = r   BY <1>2 DEF Flow
    <3> QED  BY <1>1, <1>5, <2>1, <3>1, <3>2, FlowGoesOn
  <2>5. \A n \in Flow : ~HasOp(n, r)'   BY <2>4
  <2>6. /\ ~HasFlow(r)' /\ ~HasOp("open", r)' /\ ~HasOp("sendable", r)' /\ ~HasOp("send", r)' /\ ~HasOp("done", r)'
    BY <2>5 DEF HasFlow, Flow
  <2>7. ~HasWith("done", r, TRUE)'   BY <2>6 DEF HasWith, HasOp
  <2>8. FlowStates(r)'   BY <1>5, <1>6, <2>6 DEF FlowStates
  <2>9. HasOp("complete", r)' = HasOp("complete", r) /\ HasOp("codes", r)' = HasOp("codes", r)
        /\ HasOp("uncount", r)' = HasOp("uncount", r)
    BY <2>4 DEF Finishing, HasOp
  <2>10. Finishes(r)' /\ Holding(r)'
    BY <1>1, <1>5, <1>6, <2>9 DEF AjaxInvFor, Finishes, OverOrRevived, Holding
  <2>11. UnderWay(r)'
    <3>1. ~HasOp("send", r)   BY <1>1, <1>2 DEF AjaxInvFor, FlowPlaces, HasOp, Flow
    <3> QED  BY <1>1, <1>5, <1>6, <2>6, <3>1 DEF AjaxInvFor, UnderWay
  <2>12. Refusals(r)'
    <3>1. Refusals(r)   BY <1>1 DEF AjaxInvFor
    <3> QED  BY <1>5, <1>6, <2>4, <2>6, <2>7, <3>1 DEF Refusals, OverOrRevived
  <2>13. Opens(r)'   BY <1>4, <2>1, <2>4 DEF Opens
  <2>14. AjaxInvFor(r)'
    BY <2>4, <2>8, <2>10, <2>11, <2>12, <2>13 DEF AjaxInvFor
  <2>15. Counts(r)' <=> Counts(r)   BY <1>4, <2>1 DEF Counts
  <2>16. UNCHANGED <<active, begun>> /\ (revived' = {} => revived = {})   BY <1>5, <2>1
  <2> QED  BY <2>1, <2>2, <2>3, <2>14, <2>15, <2>16, StepKeeps
<1>7. CASE xstate[r] = 0
  <2>1. /\ globals' = [globals EXCEPT ![r] = options[r].global]
        /\ active' = IF options[r].global THEN active + 1 ELSE active
        /\ begun'  = IF options[r].global /\ active = 0 THEN begun + 1 ELSE begun
    BY <1>7 DEF Open
  <2>2. PICK started, next :
           /\ started \in BOOLEAN /\ started = (options[r].global /\ active = 0)
           /\ next = <<AjaxUser, <<"sendable", r, started>> >>
    <3>1. options[r].global \in BOOLEAN   BY <1>1 DEF AjaxTypes
    <3>2. (options[r].global /\ active = 0) \in BOOLEAN   BY <3>1
    <3> QED  BY <3>2
  <2>3. /\ next \in Seq(Codes) /\ Len(next) = 2
        /\ \A k \in 1 .. Len(next) : next[k] = AjaxUser \/ (k = 2 /\ next[k] = <<"sendable", r, started>>)
        /\ next[2] = <<"sendable", r, started>>
        /\ \A k \in 1 .. Len(next) : next[k][1] = "user" \/ next[k][2] = r
    <3>1. UserThen(next, <<"sendable", r, started>>, r)   BY <2>2, NextOpen
    <3> QED  BY <3>1 DEF UserThen
  <2>4. CodeBecomes(next, 1) /\ 1 \in {0, 1}
    <3>1. AjaxGoes(<<AjaxUser, <<"sendable", r, options[r].global /\ active = 0>> >>)   BY <1>7 DEF Open
    <3> QED  BY <2>2, <3>1 DEF CodeBecomes, AjaxGoes
  <2>5. TurnOf(r, next, 1)   BY <1>2, <2>3, <2>4 DEF TurnOf
  <2>6. /\ FlowPlaces(r)' /\ UncountedOnce(r)' /\ SettledFirst(r)' /\ ajaxCode' \in Seq(Codes)
        /\ \A n \in Flow : HasOp(n, r)' <=> \E k \in 1 .. Len(next) : next[k][1] = n /\ next[k][2] = r
        /\ \A n \in Finishing : HasOp(n, r)' <=> HasOp(n, r)
        /\ HasFinishing(r)' <=> HasFinishing(r)
        /\ \A b : HasWith("settle", r, b)' <=> HasWith("settle", r, b)
        /\ \A b : HasWith("done", r, b)' =>
             \E k \in 1 .. Len(next) : next[k][1] = "done" /\ next[k][2] = r /\ next[k][3] = b
    <3>1. \A k \in 1 .. Len(next) : next[k][1] \in {"user", "sendable"} /\ (next[k][1] = "sendable" => k = 2)
      BY <2>3 DEF AjaxUser
    <3>2. \A k \in 1 .. Len(next) : next[k][1] \notin Finishing   BY <3>1 DEF Finishing
    <3>3. \A i, j \in 1 .. Len(next) :
             next[i][1] \in Flow /\ next[i][2] = r /\ next[j][1] \in Flow /\ next[j][2] = r => i = j
      BY <3>1 DEF Flow
    <3>4. \A k \in 1 .. Len(next) :
             /\ next[k][1] = "done" => k = 1
             /\ next[k][1] = "send" => k = 1 \/ (next[k - 1][1] = "ajaxSend" /\ next[k - 1][2] = r)
      BY <3>1
    <3>5. 1 = 1 /\ ajaxCode[1][1] \in Flow /\ ajaxCode[1][2] = r   BY <1>2 DEF Flow
    <3> QED  BY <1>1, <1>5, <2>5, <3>2, <3>3, <3>4, <3>5, FlowGoesOn
  <2>7. HasOp("sendable", r)' /\ ~HasOp("open", r)' /\ ~HasOp("send", r)' /\ ~HasOp("done", r)'
    <3>1. \A k \in 1 .. Len(next) : next[k][1] \in {"user", "sendable"}   BY <2>3 DEF AjaxUser
    <3>2. HasOp("sendable", r)'
      <4>1. 2 \in 1 .. Len(next) /\ next[2][1] = "sendable" /\ next[2][2] = r   BY <2>3
      <4> QED  BY <2>6, <4>1 DEF Flow
    <3> QED  BY <2>6, <3>1, <3>2 DEF Flow
  <2>8. ~HasFinishing(r) /\ ~HasFinishing(r)'
    BY <1>1, <1>7, <2>6 DEF AjaxInvFor, FlowStates
  <2>9. /\ globals' \in [Requests -> BOOLEAN] /\ (globals'[r] <=> options[r].global)
        /\ \A q \in Requests : q # r => globals'[q] = globals[q]
        /\ active' \in Int /\ begun' \in Int
    BY <1>1, <2>1 DEF AjaxTypes
  <2>10. AjaxTypes'   BY <1>1, <1>5, <2>6, <2>9 DEF AjaxTypes
  <2>11. \A q \in Requests : q # r => Untouched(q)   BY <1>5, <2>9 DEF Untouched
  <2>12. FlowStates(r)'   BY <1>5, <1>7, <2>7, <2>8 DEF FlowStates
  <2>13. Finishes(r)' /\ Holding(r)'
    <3>1. completed[r] # 1   BY <1>1, <1>7 DEF AjaxInvFor, Finishes, OverOrRevived
    <3> QED  BY <1>1, <1>5, <1>7, <3>1 DEF AjaxInvFor, Finishes, Holding
  <2>14. UnderWay(r)'   BY <1>1, <1>5, <1>7, <2>7 DEF AjaxInvFor, UnderWay
  <2>15. Refusals(r)'
    <3>1. Refusals(r)   BY <1>1 DEF AjaxInvFor
    <3>2. xstate[r] # 2 /\ xstate[r] # 1   BY <1>7
    <3>3. r \notin refused /\ outcome[r] # "success"   BY <3>1, <3>2 DEF Refusals, OverOrRevived
    <3>4. ~HasWith("settle", r, TRUE)   BY <3>1, <3>2 DEF Refusals
    <3>5. ~HasWith("done", r, TRUE)'   BY <2>7 DEF HasWith, HasOp
    <3> QED  BY <1>5, <2>6, <3>3, <3>4, <3>5 DEF Refusals
  <2>16. Opens(r)'   BY <1>5, <1>7, <2>6, <2>7 DEF Opens
  <2>17. AjaxInvFor(r)'
    BY <2>6, <2>12, <2>13, <2>14, <2>15, <2>16 DEF AjaxInvFor
  <2>18. ~Counts(r) /\ (Counts(r)' <=> options[r].global)
    BY <1>4, <1>5, <1>7, <2>9 DEF Counts
  <2>19. revived' = {} => revived = {}   BY <1>5
  <2>20. CASE options[r].global
    <3>1. Counts(r)' /\ ~Counts(r) /\ active' = active + 1 /\ begun' = IF active = 0 THEN begun + 1 ELSE begun
      BY <2>1, <2>18, <2>20
    <3> QED  BY <2>5, <2>10, <2>11, <2>17, <2>19, <3>1, StepKeeps
  <2>21. CASE ~options[r].global
    <3>1. UNCHANGED <<active, begun>> /\ (Counts(r)' <=> Counts(r))   BY <2>1, <2>18, <2>21
    <3> QED  BY <2>5, <2>10, <2>11, <2>17, <2>19, <3>1, StepKeeps
  <2> QED  BY <2>20, <2>21
<1> QED  BY <1>4, <1>6, <1>7

\* beforeSend has answered.
LEMMA SendableKeeps ==
    ASSUME AjaxInv, NEW r \in Requests, NEW started, HeadIs("sendable", r), Sendable(r, started),
           UNCHANGED <<codeVars, refused, revived>>
    PROVE  AjaxInv'
<1>1. AjaxTypes /\ AjaxInvFor(r)   BY DEF AjaxInv
<1>2. /\ ajaxCode \in Seq(Codes) /\ 1 \in 1 .. Len(ajaxCode) /\ 1 <= Len(ajaxCode)
      /\ ajaxCode[1][1] = "sendable" /\ ajaxCode[1][2] = r /\ ajaxCode # << >>
      /\ ajaxCode[1][1] \in Flow /\ ajaxCode[1][1] # "send"
  BY <1>1, FirstCode DEF AjaxTypes, HeadIs, Flow
<1>3. HasOp("sendable", r) /\ HasFlow(r)   BY <1>2 DEF HasFlow, HasOp
<1>4. xstate[r] \in {0, 2}
  BY <1>1, <1>3 DEF AjaxInvFor, FlowStates
<1>5. /\ xhr' = xhr /\ globals' = globals /\ options' = options /\ active' = active /\ begun' = begun
      /\ outcome' = outcome /\ completed' = completed /\ coded' = coded /\ collects' = collects
      /\ refused' = refused /\ revived' = revived
  BY DEF Sendable, codeVars
<1>6. ASSUME Done(r), AjaxGoes(Finished(r, FALSE)) PROVE AjaxInv'
  <2>1. CodeBecomes(Finished(r, FALSE), 1) /\ 1 \in {0, 1} /\ 1 # 0 /\ FALSE \in BOOLEAN
    BY <1>6 DEF CodeBecomes, AjaxGoes
  <2>2. xhr' \in [Requests -> {"unset", "open", "called"}]   BY <1>1, <1>5 DEF AjaxTypes
  <2>3. xhr'[r] # "open"   BY <1>1, <1>4, <1>5 DEF AjaxInvFor, UnderWay
  <2>4. \A q \in Requests : q # r => xhr'[q] = xhr[q]   BY <1>5
  <2>5. UNCHANGED <<options, globals, codeVars, active, outcome, completed, begun>>
    BY <1>5 DEF codeVars
  <2> QED  BY <1>2, <1>5, <1>6, <2>1, <2>2, <2>3, <2>4, <2>5, OverKeeps
<1>7. ASSUME transport' = [transport EXCEPT ![r] = TRUE], UNCHANGED <<xstate, timeout>>,
             NEW next, SendsNext(next, r), AjaxGoes(next)
      PROVE  AjaxInv'
  <2>1. xstate' = xstate /\ timeout' = timeout   BY <1>7
  <2>3. /\ next \in Seq(Codes)
        /\ \A k \in 1 .. Len(next) : \/ next[k][1] = "user"
                                     \/ next[k][1] \in {"ajaxSend", "send"} /\ next[k][2] = r
        /\ \E k \in 1 .. Len(next) : next[k][1] = "send" /\ next[k][2] = r
        /\ \A i, j \in 1 .. Len(next) : next[i][1] = "send" /\ next[j][1] = "send" => i = j
        /\ \A k \in 1 .. Len(next) :
             next[k][1] = "send" => k = 1 \/ (next[k - 1][1] = "ajaxSend" /\ next[k - 1][2] = r)
    BY <1>7 DEF SendsNext
  <2>4. CodeBecomes(next, 1) /\ 1 \in {0, 1}   BY <1>7 DEF CodeBecomes, AjaxGoes
  <2>5. TurnOf(r, next, 1)   BY <1>2, <2>3, <2>4 DEF TurnOf
  <2>6. /\ FlowPlaces(r)' /\ UncountedOnce(r)' /\ SettledFirst(r)' /\ ajaxCode' \in Seq(Codes)
        /\ \A n \in Flow : HasOp(n, r)' <=> \E k \in 1 .. Len(next) : next[k][1] = n /\ next[k][2] = r
        /\ \A n \in Finishing : HasOp(n, r)' <=> HasOp(n, r)
        /\ HasFinishing(r)' <=> HasFinishing(r)
        /\ \A b : HasWith("settle", r, b)' <=> HasWith("settle", r, b)
    <3>1. \A k \in 1 .. Len(next) : next[k][1] \in {"user", "ajaxSend", "send"}   BY <2>3
    <3>2. \A k \in 1 .. Len(next) : next[k][1] \notin Finishing   BY <3>1 DEF Finishing
    <3>3. \A i, j \in 1 .. Len(next) :
             next[i][1] \in Flow /\ next[i][2] = r /\ next[j][1] \in Flow /\ next[j][2] = r => i = j
      BY <2>3, <3>1 DEF Flow
    <3>4. \A k \in 1 .. Len(next) :
             /\ next[k][1] = "done" => k = 1
             /\ next[k][1] = "send" => k = 1 \/ (next[k - 1][1] = "ajaxSend" /\ next[k - 1][2] = r)
      BY <2>3, <3>1
    <3>5. 1 = 1 /\ ajaxCode[1][1] \in Flow /\ ajaxCode[1][2] = r   BY <1>2
    <3> QED  BY <1>1, <1>5, <2>5, <3>2, <3>3, <3>4, <3>5, FlowGoesOn
  <2>7. HasOp("send", r)' /\ ~HasOp("open", r)' /\ ~HasOp("sendable", r)' /\ ~HasOp("done", r)'
    <3>1. \A k \in 1 .. Len(next) : next[k][1] \in {"user", "ajaxSend", "send"}   BY <2>3
    <3>2. HasOp("send", r)'   BY <2>3, <2>6 DEF Flow
    <3> QED  BY <2>6, <3>1, <3>2 DEF Flow
  <2>8. HasFinishing(r)' => xstate[r] = 2
    BY <1>1, <2>6 DEF AjaxInvFor, FlowStates
  <2>9. /\ transport' \in [Requests -> BOOLEAN] /\ transport'[r]
        /\ \A q \in Requests : q # r => transport'[q] = transport[q]
    BY <1>1, <1>7 DEF AjaxTypes
  <2>10. AjaxTypes'   BY <1>1, <1>5, <2>1, <2>6, <2>9 DEF AjaxTypes
  <2>11. \A q \in Requests : q # r => Untouched(q)   BY <1>5, <2>1, <2>9 DEF Untouched
  <2>12. FlowStates(r)'   BY <1>4, <2>1, <2>7, <2>8 DEF FlowStates
  <2>13. /\ HasOp("complete", r)' <=> HasOp("complete", r)
         /\ HasOp("codes", r)' <=> HasOp("codes", r)
         /\ HasOp("uncount", r)' <=> HasOp("uncount", r)
    BY <2>6 DEF Finishing
  <2>14. Finishes(r)' /\ Holding(r)'
    BY <1>1, <1>5, <2>1, <2>13 DEF AjaxInvFor, Finishes, OverOrRevived, Holding
  <2>15. UnderWay(r)'   BY <1>1, <1>4, <1>5, <2>1, <2>7 DEF AjaxInvFor, UnderWay
  <2>16. Refusals(r)'
    <3>1. Refusals(r)   BY <1>1 DEF AjaxInvFor
    <3>2. outcome[r] # "success" /\ ~HasWith("settle", r, TRUE)   BY <1>3, <3>1 DEF Refusals
    <3>3. ~HasWith("done", r, TRUE)'   BY <2>7 DEF HasWith, HasOp
    <3> QED  BY <1>5, <2>1, <2>6, <3>1, <3>2, <3>3 DEF Refusals, OverOrRevived
  <2>17. Opens(r)'   BY <1>4, <1>5, <2>1, <2>6, <2>7 DEF Opens
  <2>18. AjaxInvFor(r)'
    BY <2>6, <2>12, <2>14, <2>15, <2>16, <2>17 DEF AjaxInvFor
  <2>19. Counts(r)' <=> Counts(r)
    BY <1>5, <2>1, <2>13 DEF Counts
  <2>20. UNCHANGED <<active, begun>> /\ (revived' = {} => revived = {})   BY <1>5
  <2> QED  BY <2>5, <2>10, <2>11, <2>18, <2>19, <2>20, StepKeeps
<1>8. ASSUME transport' = [transport EXCEPT ![r] = TRUE], UNCHANGED <<xstate, timeout>>,
             AjaxGoes(IF xstate[r] = 2 THEN <<AjaxUser, <<"ajaxSend", r>>, <<"send", r>> >>
                      ELSE IF globals[r] THEN << <<"ajaxSend", r>>, <<"send", r>> >>
                      ELSE << <<"send", r>> >>)
      PROVE  AjaxInv'
  <2>1. PICK next : next = IF xstate[r] = 2 THEN <<AjaxUser, <<"ajaxSend", r>>, <<"send", r>> >>
                           ELSE IF globals[r] THEN << <<"ajaxSend", r>>, <<"send", r>> >>
                           ELSE << <<"send", r>> >>
    OBVIOUS
  <2>2. \/ next = <<AjaxUser, <<"ajaxSend", r>>, <<"send", r>> >>
        \/ next = << <<"ajaxSend", r>>, <<"send", r>> >>
        \/ next = << <<"send", r>> >>
    BY <2>1
  <2>3. SendsNext(next, r)   BY <2>2, NextSend
  <2>4. AjaxGoes(next)   BY <1>8, <2>1
  <2> QED  BY <1>7, <1>8, <2>3, <2>4
<1> QED  BY <1>6, <1>8 DEF Sendable

\* What the transport's send() leaves to do.
Sent(next, r, ok) ==
    /\ AjaxGoes(next) /\ xhr' \in [Requests -> {"unset", "open", "called"}] /\ ok \in BOOLEAN
    /\ \A q \in Requests : q # r => xhr'[q] = xhr[q]
    /\ \/ next = << >> /\ transport[r]
       \/ next = << <<"done", r, ok>> >> /\ xhr'[r] # "open" /\ (ok => transport[r])

\* The handlers of ajaxSend have had their turn: a request that was aborted has none of
\* done() left to run, and is under way again.
LEMMA SendKeeps ==
    ASSUME AjaxInv, NEW r \in Requests, HeadIs("send", r), Send(r),
           UNCHANGED <<codeVars, refused>>
    PROVE  AjaxInv'
<1>1. AjaxTypes /\ AjaxInvFor(r)   BY DEF AjaxInv
<1>2. /\ ajaxCode \in Seq(Codes) /\ 1 \in 1 .. Len(ajaxCode) /\ 1 <= Len(ajaxCode)
      /\ ajaxCode[1][1] = "send" /\ ajaxCode[1][2] = r /\ ajaxCode # << >>
      /\ ajaxCode[1][1] \in Flow
  BY <1>1, FirstCode DEF AjaxTypes, HeadIs, Flow
<1>3. HasOp("send", r) /\ HasFlow(r)   BY <1>2 DEF HasFlow, HasOp
<1>4. /\ xstate[r] \in {0, 2} /\ ~HasOp("done", r)
  BY <1>1, <1>3 DEF AjaxInvFor, FlowStates
<1>5. ~HasFinishing(r)
  <2>1. SUFFICES ASSUME NEW n \in Finishing, HasOp(n, r) PROVE FALSE   BY DEF HasFinishing
  <2>2. PICK i \in 1 .. Len(ajaxCode) : ajaxCode[i][1] = n /\ ajaxCode[i][2] = r   BY <2>1 DEF HasOp
  <2>3. i < 1   BY <1>1, <1>2, <2>2 DEF AjaxInvFor, FlowPlaces
  <2> QED  BY <1>2, <2>3
<1>6. ~HasOp("complete", r) /\ ~HasOp("codes", r) /\ ~HasWith("settle", r, TRUE) /\ ~HasWith("settle", r, FALSE)
  <2>1. ~HasOp("complete", r) /\ ~HasOp("codes", r) /\ ~HasOp("settle", r)
    BY <1>5 DEF HasFinishing, Finishing
  <2>2. \A b : ~HasWith("settle", r, b)   BY <2>1 DEF HasWith, HasOp
  <2> QED  BY <2>1, <2>2
<1>7. xhr[r] # "open"
  BY <1>1, <1>4 DEF AjaxInvFor, UnderWay
<1>8. /\ outcome[r] # "success"
      /\ r \in refused => xstate[r] = 2 /\ outcome[r] = "error"
  <2>1. Refusals(r)   BY <1>1 DEF AjaxInvFor
  <2>2. outcome[r] # "success"   BY <1>3, <2>1 DEF Refusals
  <2>3. r \in refused => xstate[r] = 2   BY <1>4, <2>1 DEF Refusals, OverOrRevived
  <2>4. r \in refused => outcome[r] = "error" \/ HasWith("settle", r, FALSE)   BY <2>1 DEF Refusals
  <2> QED  BY <1>6, <2>2, <2>3, <2>4
<1>9. completed[r] = 1 => xstate[r] = 2 /\ outcome[r] # "pending"
  BY <1>1, <1>4 DEF AjaxInvFor, Finishes, OverOrRevived
<1>10. /\ globals' = globals /\ options' = options /\ active' = active /\ begun' = begun
       /\ transport' = transport /\ outcome' = outcome /\ completed' = completed
       /\ coded' = coded /\ collects' = collects /\ refused' = refused
       /\ revived' = IF xstate[r] = 2 THEN revived \union {r} ELSE revived
  BY DEF Send, codeVars
<1>11. PICK next, ok : Sent(next, r, ok)
  <2>1. xhr \in [Requests -> {"unset", "open", "called"}]   BY <1>1 DEF AjaxTypes
  <2>2. CASE transport[r] /\ TransportSend(r)
    <3>1. ASSUME xhr' = [xhr EXCEPT ![r] = "open"], AjaxGoes(<< >>)
          PROVE  Sent(<< >>, r, FALSE)
      BY <2>1, <2>2, <3>1 DEF Sent
    <3>2. ASSUME xhr' = [xhr EXCEPT ![r] = "called"], NEW ok \in BOOLEAN,
                 AjaxGoes(<< <<"done", r, ok>> >>)
          PROVE  Sent(<< <<"done", r, ok>> >>, r, ok)
      <4>1. /\ xhr' \in [Requests -> {"unset", "open", "called"}]
            /\ \A q \in Requests : q # r => xhr'[q] = xhr[q]
            /\ xhr'[r] # "open"
        BY <2>1, <3>2
      <4> QED  BY <2>2, <3>2, <4>1 DEF Sent
    <3>3. ASSUME AjaxGoes(<< <<"done", r, FALSE>> >>), UNCHANGED xhr
          PROVE  Sent(<< <<"done", r, FALSE>> >>, r, FALSE)
      BY <1>7, <2>1, <2>2, <3>3 DEF Sent
    <3> QED  BY <2>2, <3>1, <3>2, <3>3 DEF TransportSend
  <2>3. ASSUME ~transport[r], AjaxGoes(<< <<"done", r, FALSE>> >>), UNCHANGED xhr
        PROVE  Sent(<< <<"done", r, FALSE>> >>, r, FALSE)
    BY <1>7, <2>1, <2>3 DEF Sent
  <2> QED  BY <2>2, <2>3 DEF Send
<1>11a.
       /\ AjaxGoes(next) /\ xhr' \in [Requests -> {"unset", "open", "called"}] /\ ok \in BOOLEAN
       /\ \A q \in Requests : q # r => xhr'[q] = xhr[q]
       /\ \/ next = << >> /\ transport[r]
          \/ next = << <<"done", r, ok>> >> /\ xhr'[r] # "open" /\ (ok => transport[r])
  BY <1>11 DEF Sent
<1>12. /\ next \in Seq(Codes)
       /\ \A k \in 1 .. Len(next) : k = 1 /\ next[k] = <<"done", r, ok>>
       /\ next # << >> => Len(next) = 1 /\ next[1] = <<"done", r, ok>>
  <2>1. CASE next = << >>   BY <2>1
  <2>2. CASE next = << <<"done", r, ok>> >>
    <3>1. ok \in BOOLEAN   BY <1>11a
    <3> QED  BY <2>2, <3>1, NextDone
  <2> QED  BY <1>11a, <2>1, <2>2
<1>13. \/ Len(next) = 0 /\ transport[r]
       \/ Len(next) = 1 /\ next[1] = <<"done", r, ok>> /\ xhr'[r] # "open" /\ (ok => transport[r])
  <2>1. CASE next = << >> /\ transport[r]   BY <2>1
  <2>2. CASE next = << <<"done", r, ok>> >> /\ xhr'[r] # "open" /\ (ok => transport[r])   BY <2>2
  <2> QED  BY <1>11a, <2>1, <2>2
<1>14. CodeBecomes(next, 1) /\ 1 \in {0, 1}   BY <1>11a DEF CodeBecomes, AjaxGoes
<1>15. \A k \in 1 .. Len(next) : k = 1 /\ next[k][1] = "done" /\ next[k][2] = r /\ next[k][3] = ok
  BY <1>12
<1>16. TurnOf(r, next, 1)   BY <1>2, <1>12, <1>14, <1>15 DEF TurnOf
<1>17. /\ FlowPlaces(r)' /\ UncountedOnce(r)' /\ SettledFirst(r)' /\ ajaxCode' \in Seq(Codes)
       /\ \A n \in Flow : HasOp(n, r)' <=> \E k \in 1 .. Len(next) : next[k][1] = n /\ next[k][2] = r
       /\ HasFinishing(r)' <=> HasFinishing(r)
       /\ \A b : HasWith("settle", r, b)' <=> HasWith("settle", r, b)
       /\ \A b : HasWith("done", r, b)' =>
            \E k \in 1 .. Len(next) : next[k][1] = "done" /\ next[k][2] = r /\ next[k][3] = b
  <2>1. \A k \in 1 .. Len(next) : next[k][1] \notin Finishing   BY <1>15 DEF Finishing
  <2>2. \A i, j \in 1 .. Len(next) :
           next[i][1] \in Flow /\ next[i][2] = r /\ next[j][1] \in Flow /\ next[j][2] = r => i = j
    BY <1>15
  <2>3. \A k \in 1 .. Len(next) :
           /\ next[k][1] = "done" => k = 1
           /\ next[k][1] = "send" => k = 1 \/ (next[k - 1][1] = "ajaxSend" /\ next[k - 1][2] = r)
    BY <1>15
  <2>4. 1 = 1 /\ ajaxCode[1][1] \in Flow /\ ajaxCode[1][2] = r   BY <1>2
  <2> QED  BY <1>1, <1>10, <1>16, <2>1, <2>2, <2>3, <2>4, FlowGoesOn
<1>18. /\ ~HasOp("open", r)' /\ ~HasOp("sendable", r)' /\ ~HasOp("send", r)'
       /\ HasOp("done", r)' <=> Len(next) = 1
  <2>1. Len(next) = 1 => HasOp("done", r)'
    <3>1. Len(next) = 1 => 1 \in 1 .. Len(next)   OBVIOUS
    <3> QED  BY <1>15, <1>17, <3>1 DEF Flow
  <2>2. HasOp("done", r)' => Len(next) = 1   BY <1>13, <1>17 DEF Flow
  <2> QED  BY <1>15, <1>17, <2>1, <2>2 DEF Flow
<1>19. /\ xstate' \in [Requests -> -1 .. 2] /\ xstate'[r] = 1 /\ timeout' \in [Requests -> BOOLEAN]
       /\ \A q \in Requests : q # r => xstate'[q] = xstate[q] /\ timeout'[q] = timeout[q]
  <2>1. options[r].timeout \in BOOLEAN   BY <1>1 DEF AjaxTypes
  <2> QED  BY <1>1, <2>1 DEF AjaxTypes, Send, StartTimer
<1>20. AjaxTypes'   BY <1>1, <1>2, <1>10, <1>11a, <1>17, <1>19 DEF AjaxTypes
<1>21. \A q \in Requests : q # r => Untouched(q)   BY <1>10, <1>11a, <1>19 DEF Untouched
<1>22. FlowStates(r)'   BY <1>5, <1>17, <1>18, <1>19 DEF FlowStates
<1>23. Finishes(r)'   BY <1>9, <1>10, <1>19 DEF Finishes, OverOrRevived
<1>24. Holding(r)'   BY <1>1, <1>10, <1>19 DEF AjaxInvFor, Holding
<1>25. UnderWay(r)'
  <2>1. xhr'[r] = "open" => Len(next) = 0 /\ transport[r]   BY <1>13
  <2>2. Len(next) = 0 => ~HasOp("done", r)'   BY <1>18
  <2>3. xstate'[r] \in {0, 1}   BY <1>19
  <2>4. xhr'[r] = "open" => transport'[r] /\ xstate'[r] = 1 /\ ~HasOp("done", r)'
    BY <1>10, <1>19, <2>1, <2>2
  <2> QED  BY <1>19, <2>3, <2>4 DEF UnderWay
<1>26. Refusals(r)'
  <2>1. ~HasWith("settle", r, TRUE)' /\ outcome'[r] # "success"   BY <1>6, <1>8, <1>10, <1>17
  <2>2. r \in refused' => outcome'[r] = "error" /\ OverOrRevived(r)'
    BY <1>8, <1>10, <1>19 DEF OverOrRevived
  <2> QED  BY <2>1, <2>2 DEF Refusals
<1>27. Opens(r)'   BY <1>17, <1>18, <1>19 DEF Opens
<1>28. AjaxInvFor(r)'
  BY <1>17, <1>22, <1>23, <1>24, <1>25, <1>26, <1>27 DEF AjaxInvFor
<1>29. revived' = {} => UNCHANGED <<active, begun>> /\ (Counts(r)' <=> Counts(r))
  <2>1. revived' = {} => xstate[r] = 0   BY <1>4, <1>10
  <2> QED  BY <1>10, <1>19, <2>1 DEF Counts
<1>30. revived' = {} => revived = {}   BY <1>10
<1> QED  BY <1>16, <1>20, <1>21, <1>28, <1>29, <1>30, StepKeeps

-----------------------------------------------------------------------------
(* The invariant, and what it says of the end of the code.                   *)

LEMMA AjaxInitInv == AjaxInit => AjaxInv
<1> SUFFICES ASSUME AjaxInit PROVE AjaxInv   OBVIOUS
<1>1. AjaxTypes   BY DEF AjaxInit, AjaxTypes, Codes
<1>2. ajaxCode = << >> /\ Len(ajaxCode) = 0   BY DEF AjaxInit
<1>3. \A n, r : ~HasOp(n, r) /\ \A b : ~HasWith(n, r, b)   BY <1>2 DEF HasOp, HasWith
<1>4. \A r : ~HasFlow(r) /\ ~HasFinishing(r)   BY <1>3 DEF HasFlow, HasFinishing
<1>5. ASSUME NEW r \in Requests PROVE AjaxInvFor(r) /\ ~Counts(r)
  <2>1. /\ xstate[r] = -1 /\ ~transport[r] /\ xhr[r] = "unset" /\ ~timeout[r] /\ ~globals[r]
        /\ outcome[r] = "pending" /\ completed[r] = 0 /\ coded[r] = "none" /\ collects[r] /\ refused = {}
    BY DEF AjaxInit
  <2>2. FlowPlaces(r) /\ SettledFirst(r) /\ UncountedOnce(r)
    BY <1>2 DEF FlowPlaces, SettledFirst, UncountedOnce
  <2>3. FlowStates(r) /\ Finishes(r)   BY <1>3, <1>4, <2>1 DEF FlowStates, Finishes
  <2>4. Holding(r) /\ UnderWay(r)   BY <2>1 DEF Holding, UnderWay
  <2>5. Refusals(r)   BY <1>3, <2>1 DEF Refusals
  <2>6. Opens(r) /\ ~Counts(r)   BY <2>1, <2>2 DEF Opens, Counts
  <2> QED  BY <2>2, <2>3, <2>4, <2>5, <2>6 DEF AjaxInvFor
<1>6. Activity
  <2>1. Counting = {}   BY <1>5 DEF Counting
  <2>2. active = 0 /\ begun = 0   BY DEF AjaxInit
  <2> QED  BY <2>1, <2>2, FS_EmptySet DEF Activity
<1> QED  BY <1>1, <1>5, <1>6 DEF AjaxInv

LEMMA RunAjaxKeeps == ASSUME AjaxInv, RunAjax PROVE AjaxInv'
<1>1. /\ ajaxCode # << >> /\ Head(ajaxCode) = ajaxCode[1] /\ ajaxCode[1] \in Codes
      /\ UNCHANGED refused
  BY FirstCode DEF AjaxInv, RunAjax
<1> DEFINE op == ajaxCode[1]
<1>2. /\ op[1] # "codes" => UNCHANGED codeVars
      /\ op[1] # "send" => UNCHANGED revived
  BY <1>1 DEF RunAjax
<1>3. \/ op[1] \in {"user", "ajaxSend"} /\ TurnOver
      \/ op[1] = "open"     /\ Open(op[2])
      \/ op[1] = "sendable" /\ Sendable(op[2], op[3])
      \/ op[1] = "send"     /\ Send(op[2])
      \/ op[1] = "done"     /\ DoneWith(op[2], op[3])
      \/ op[1] = "settle"   /\ SettleRequest(op[2], op[3])
      \/ op[1] = "codes"    /\ RunCodes(op[2])
      \/ op[1] = "complete" /\ CompleteRequest(op[2])
      \/ op[1] = "uncount"  /\ Uncount(op[2])
  BY <1>1 DEF RunAjax
<1>4. /\ op[1] # "user" => op[2] \in Requests
      /\ op[1] \in {"done", "settle"} => op[3] \in BOOLEAN
  BY <1>1, CodeFields
<1>5. \A n : op[1] = n => HeadIs(n, op[2])   BY <1>1 DEF HeadIs
<1> HIDE DEF op
<1>6. CASE op[1] = "user" /\ TurnOver   BY <1>1, <1>2, <1>6, UserTurnKeeps DEF op
<1>7. CASE op[1] = "ajaxSend" /\ TurnOver   BY <1>1, <1>2, <1>4, <1>5, <1>7, SendTurnKeeps
<1>8. CASE op[1] = "open" /\ Open(op[2])   BY <1>1, <1>2, <1>4, <1>5, <1>8, OpenKeeps
<1>9. CASE op[1] = "sendable" /\ Sendable(op[2], op[3])   BY <1>1, <1>2, <1>4, <1>5, <1>9, SendableKeeps
<1>10. CASE op[1] = "send" /\ Send(op[2])   BY <1>1, <1>2, <1>4, <1>5, <1>10, SendKeeps
<1>31. CASE op[1] = "done" /\ DoneWith(op[2], op[3])
  <2>1. ajaxCode[1][3] = op[3]   BY DEF op
  <2> QED  BY <1>1, <1>2, <1>4, <1>5, <1>31, <2>1, DoneKeeps
<1>12. CASE op[1] = "settle" /\ SettleRequest(op[2], op[3])
  <2>1. ajaxCode[1][3] = op[3]   BY DEF op
  <2> QED  BY <1>1, <1>2, <1>4, <1>5, <1>12, <2>1, SettleKeeps
<1>13. CASE op[1] = "codes" /\ RunCodes(op[2])   BY <1>1, <1>2, <1>4, <1>5, <1>13, CodesKeep
<1>14. CASE op[1] = "complete" /\ CompleteRequest(op[2])   BY <1>1, <1>2, <1>4, <1>5, <1>14, CompleteKeeps
<1>15. CASE op[1] = "uncount" /\ Uncount(op[2])   BY <1>1, <1>2, <1>4, <1>5, <1>15, UncountKeeps
<1> QED  BY <1>3, <1>6, <1>7, <1>8, <1>9, <1>10, <1>31, <1>12, <1>13, <1>14, <1>15

LEMMA AjaxStutterKeeps == ASSUME AjaxInv, UNCHANGED ajaxVars PROVE AjaxInv'
<1> USE DEF ajaxVars, requestVars, codeVars
<1>1. AjaxTypes'   BY DEF AjaxInv, AjaxTypes
<1>2. Activity'   BY DEF AjaxInv, Activity, Counting, Counts, HasOp
<1>3. ASSUME NEW r \in Requests PROVE AjaxInvFor(r)'
  <2>1. AjaxInvFor(r)   BY DEF AjaxInv
  <2>2. FlowPlaces(r)' /\ FlowStates(r)' /\ SettledFirst(r)' /\ Finishes(r)'
    BY <2>1 DEF AjaxInvFor, FlowPlaces, FlowStates, SettledFirst, Finishes, OverOrRevived, HasOp, HasFlow,
                HasFinishing
  <2>3. Holding(r)' /\ UnderWay(r)' /\ Opens(r)'
    BY <2>1 DEF AjaxInvFor, Holding, UnderWay, Opens, UncountedOnce, HasOp
  <2>4. Refusals(r)'
    <3>1. Refusals(r)   BY <2>1 DEF AjaxInvFor
    <3> QED  BY <3>1 DEF Refusals, OverOrRevived, HasOp, HasWith, HasFlow
  <2> QED  BY <2>2, <2>3, <2>4 DEF AjaxInvFor
<1> QED  BY <1>1, <1>2, <1>3 DEF AjaxInv

\* What ajax() and done() keep true of every request, however many there are.
THEOREM AjaxInvariance == AjaxSpec => []AjaxInv
<1>1. AjaxInit => AjaxInv   BY AjaxInitInv
<1>2. AjaxInv /\ [AjaxNext]_ajaxVars => AjaxInv'
  <2> SUFFICES ASSUME AjaxInv, [AjaxNext]_ajaxVars PROVE AjaxInv'   OBVIOUS
  <2>1. CASE RunAjax   BY <2>1, RunAjaxKeeps
  <2>2. CASE \E r \in Requests : Request(r) \/ StatusCode(r) \/ Abort(r)
    BY <2>2, RequestKeeps, StatusCodeKeeps, AbortKeeps
  <2>3. CASE \E r \in Requests : TimedOut(r) \/ Answered(r)
    BY <2>3, TimedOutKeeps, AnsweredKeeps
  <2>4. CASE UNCHANGED ajaxVars   BY <2>4, AjaxStutterKeeps
  <2> QED  BY <2>1, <2>2, <2>3, <2>4 DEF AjaxNext
<1> QED  BY <1>1, <1>2, PTL DEF AjaxSpec

\* OverOnce: a request is over once, its callbacks are run once and jQuery.active
\* counts the requests under way, until one is sent that was over; for any number of
\* requests.
THEOREM RequestsAreOverOnce == AjaxSpec => []OverOnce
<1>1. AjaxInv => OverOnce
  <2> SUFFICES ASSUME AjaxInv PROVE OverOnce   OBVIOUS
  <2>1. AjaxTypes   BY DEF AjaxInv
  <2>2. ASSUME NEW r \in Requests
        PROVE  /\ outcome[r] = "success" => r \notin refused
               /\ completed[r] = 1 => outcome[r] # "pending"
    <3>1. Refusals(r) /\ Finishes(r)   BY DEF AjaxInv, AjaxInvFor
    <3>2. outcome[r] = "success" => r \notin refused   BY <3>1 DEF Refusals
    <3> QED  BY <3>1, <3>2 DEF Finishes
  <2>3. ASSUME ajaxCode = << >>, NEW r \in Requests
        PROVE  /\ xstate[r] = 2 => completed[r] = 1
               /\ completed[r] = 1 => xstate[r] = 2 \/ r \in revived
               /\ xstate[r] = 2 => coded[r] # "held"
               /\ xstate[r] = 2 => ~timeout[r] /\ xhr[r] # "open"
               /\ Counts(r) <=> globals[r] /\ xstate[r] = 1
    <3>1. \A n : ~HasOp(n, r)   BY <2>3 DEF HasOp
    <3>2. AjaxInvFor(r)   BY DEF AjaxInv
    <3>3. (xstate[r] = 2 => completed[r] = 1) /\ (completed[r] = 1 => xstate[r] = 2 \/ r \in revived)
      BY <3>1, <3>2 DEF AjaxInvFor, Finishes, OverOrRevived
    <3>4. xstate[r] = 2 => coded[r] # "held"   BY <3>1, <3>2 DEF AjaxInvFor, Holding
    <3>5. xstate[r] = 2 => ~timeout[r] /\ xhr[r] # "open"   BY <3>2 DEF AjaxInvFor, UnderWay
    <3>6. xstate[r] # 0   BY <3>1, <3>2 DEF AjaxInvFor, FlowStates
    <3> QED  BY <3>1, <3>3, <3>4, <3>5, <3>6 DEF Counts
  <2>4. ASSUME revived = {} PROVE begun \in {0, 1} /\ (begun = 1 <=> active > 0)
    <3>1. /\ IsFiniteSet(Counting) /\ active = Cardinality(Counting)
          /\ begun = IF active = 0 THEN 0 ELSE 1
      BY <2>4 DEF AjaxInv, Activity
    <3>2. active \in Nat   BY <3>1, FS_CardinalityType
    <3> QED  BY <3>1, <3>2
  <2>5. ASSUME revived = {}, ajaxCode = << >>
        PROVE  active = Cardinality({r \in Requests : globals[r] /\ xstate[r] = 1})
    <3>1. Counting = {r \in Requests : globals[r] /\ xstate[r] = 1}   BY <2>3, <2>5 DEF Counting
    <3>2. active = Cardinality(Counting)   BY <2>5 DEF AjaxInv, Activity
    <3> QED  BY <3>1, <3>2
  <2> QED  BY <2>2, <2>3, <2>4, <2>5 DEF OverOnce
<1> QED  BY <1>1, AjaxInvariance, PTL

-----------------------------------------------------------------------------
(* Callback lists.                                                           *)

\* What is left is the part of s behind its first k elements.
Behind(left, s, k) == Len(left) = Len(s) - k /\ \A i \in 1 .. Len(s) - k : left[i] = s[k + i]

\* There is one such part, the subsequence from there on.
LEMMA BehindSubSeq ==
  ASSUME NEW S, NEW s \in Seq(S), NEW k \in 0 .. Len(s)
  PROVE  /\ SubSeq(s, k + 1, Len(s)) \in Seq(S) /\ Behind(SubSeq(s, k + 1, Len(s)), s, k)
         /\ \A left \in Seq(S) : Behind(left, s, k) => left = SubSeq(s, k + 1, Len(s))
<1> DEFINE rest == SubSeq(s, k + 1, Len(s))
<1>1. rest \in Seq(S) /\ Len(rest) = Len(s) - k   OBVIOUS
<1>2. \A i \in 1 .. Len(s) - k : rest[i] = s[k + i]   OBVIOUS
<1> HIDE DEF rest
<1>3. Behind(rest, s, k)   BY <1>1, <1>2 DEF Behind
<1>4. ASSUME NEW left \in Seq(S), Behind(left, s, k)
      PROVE  left = rest
  <2>1. Len(left) = Len(rest) /\ \A i \in 1 .. Len(left) : left[i] = rest[i]
    BY <1>1, <1>2, <1>4 DEF Behind
  <2> QED  BY <1>1, <2>1, SeqEqual
<1> QED  BY <1>1, <1>3, <1>4 DEF rest

\* An element appended to the whole is appended to what is left.
LEMMA BehindAppended ==
  ASSUME NEW S, NEW s \in Seq(S), NEW k \in 0 .. Len(s), NEW left \in Seq(S), Behind(left, s, k),
         NEW x \in S
  PROVE  Append(left, x) \in Seq(S) /\ Behind(Append(left, x), Append(s, x), k)
<1>1. /\ Append(left, x) \in Seq(S) /\ Len(Append(left, x)) = Len(left) + 1
      /\ \A i \in 1 .. Len(left) : Append(left, x)[i] = left[i]
      /\ Append(left, x)[Len(left) + 1] = x
  BY AppendProperties
<1>2. /\ Append(s, x) \in Seq(S) /\ Len(Append(s, x)) = Len(s) + 1
      /\ \A i \in 1 .. Len(s) : Append(s, x)[i] = s[i]
      /\ Append(s, x)[Len(s) + 1] = x
  BY AppendProperties
<1>3. Len(left) = Len(s) - k /\ \A i \in 1 .. Len(s) - k : left[i] = s[k + i]   BY DEF Behind
<1>4. ASSUME NEW i \in 1 .. (Len(s) + 1) - k
      PROVE  Append(left, x)[i] = Append(s, x)[k + i]
  <2>1. CASE i = Len(left) + 1
    <3>1. k + i = Len(s) + 1   BY <1>3, <2>1
    <3> QED  BY <1>1, <1>2, <2>1, <3>1
  <2>2. CASE i # Len(left) + 1
    <3>1. Len(left) = Len(s) - k /\ Len(s) \in Nat   BY <1>3
    <3>2. i \in 1 .. Len(left) /\ i \in 1 .. Len(s) - k /\ k + i \in 1 .. Len(s)   BY <2>2, <3>1
    <3> QED  BY <1>1, <1>2, <1>3, <3>2
  <2> QED  BY <2>1, <2>2
<1>5. Len(left) + 1 = (Len(s) + 1) - k   BY <1>3
<1> QED  BY <1>1, <1>2, <1>4, <1>5 DEF Behind

\* The next element is the head of what is left.
LEMMA BehindTail ==
  ASSUME NEW S, NEW s \in Seq(S), NEW k \in 0 .. Len(s), NEW left \in Seq(S), Behind(left, s, k)
  PROVE  /\ k = Len(s) <=> left = << >>
         /\ k < Len(s) => /\ Head(left) = s[k + 1] /\ s[k + 1] \in S
                          /\ Tail(left) \in Seq(S) /\ Behind(Tail(left), s, k + 1)
                          /\ Range(left) = {s[k + 1]} \union Range(Tail(left))
<1>1. Len(left) = Len(s) - k /\ \A i \in 1 .. Len(s) - k : left[i] = s[k + i]   BY DEF Behind
<1>2. k = Len(s) <=> left = << >>   BY <1>1
<1>3. ASSUME k < Len(s)
      PROVE  /\ Head(left) = s[k + 1] /\ s[k + 1] \in S
             /\ Tail(left) \in Seq(S) /\ Behind(Tail(left), s, k + 1)
             /\ Range(left) = {s[k + 1]} \union Range(Tail(left))
  <2>1. left # << >> /\ 1 \in 1 .. Len(s) - k   BY <1>2, <1>3
  <2>2. Head(left) = s[k + 1] /\ s[k + 1] \in S   BY <1>1, <2>1
  <2>3. /\ Tail(left) \in Seq(S) /\ Len(Tail(left)) = Len(left) - 1
        /\ \A i \in 1 .. Len(Tail(left)) : Tail(left)[i] = left[i + 1]
        /\ left = <<Head(left)>> \o Tail(left)
    BY <2>1, HeadTailProperties
  <2>4. ASSUME NEW i \in 1 .. Len(s) - (k + 1)
        PROVE  Tail(left)[i] = s[(k + 1) + i]
    <3>1. i \in 1 .. Len(Tail(left)) /\ i + 1 \in 1 .. Len(s) - k /\ k + (i + 1) = (k + 1) + i
      BY <1>1, <2>3
    <3>2. Tail(left)[i] = left[i + 1]   BY <2>3, <3>1
    <3>3. left[i + 1] = s[k + (i + 1)]   BY <1>1, <3>1
    <3> QED  BY <3>1, <3>2, <3>3
  <2>5. Len(Tail(left)) = Len(s) - (k + 1)   BY <1>1, <2>3
  <2>6. Behind(Tail(left), s, k + 1)   BY <2>4, <2>5 DEF Behind
  <2>7. Range(left) = {s[k + 1]} \union Range(Tail(left))
    <3> DEFINE x == s[k + 1]
    <3>1. <<x>> \in Seq(S) /\ left = <<x>> \o Tail(left)   BY <2>2, <2>3
    <3>2. Range(<<x>>) = {x}
      <4>1. Range(<<x>>) = {<<x>>[i] : i \in 1 .. Len(<<x>>)}   BY <3>1, RangeEquality
      <4> QED  BY <4>1
    <3> HIDE DEF x
    <3>3. Range(<<x>> \o Tail(left)) = Range(<<x>>) \union Range(Tail(left))
      BY <2>3, <3>1, RangeConcatenation
    <3> QED  BY <3>1, <3>2, <3>3 DEF x
  <2> QED  BY <2>2, <2>3, <2>6, <2>7
<1> QED  BY <1>2, <1>3

\* The sequences that Spared goes through, up to len elements.
SparedTo(kept, s, f, len) ==
    kept = [n \in 0 .. len |-> IF n = 0 THEN << >>
                               ELSE IF s[n] = f THEN kept[n - 1] ELSE Append(kept[n - 1], s[n])]

\* There is such a sequence of sequences for every length.
LEMMA SparedExists ==
  ASSUME NEW s, NEW f, NEW len \in Nat
  PROVE  \E kept : SparedTo(kept, s, f, len)
<1> DEFINE S == {n \in Nat : \E kept : SparedTo(kept, s, f, n)}
<1>1. 0 \in S
  <2> DEFINE g == [n \in 0 .. 0 |-> << >>]
  <2>1. g = [n \in 0 .. 0 |-> IF n = 0 THEN << >>
                              ELSE IF s[n] = f THEN g[n - 1] ELSE Append(g[n - 1], s[n])]
    OBVIOUS
  <2> HIDE DEF g
  <2> QED  BY <2>1 DEF SparedTo
<1>2. ASSUME NEW n \in Nat, n \in S
      PROVE  n + 1 \in S
  <2>1. PICK kept : SparedTo(kept, s, f, n)   BY <1>2
  <2> DEFINE next == IF s[n + 1] = f THEN kept[n] ELSE Append(kept[n], s[n + 1])
             g == [k \in 0 .. n + 1 |-> IF k <= n THEN kept[k] ELSE next]
             h == [k \in 0 .. n + 1 |-> IF k = 0 THEN << >>
                                        ELSE IF s[k] = f THEN g[k - 1] ELSE Append(g[k - 1], s[k])]
  <2>2. \A k \in 0 .. n : kept[k] = IF k = 0 THEN << >>
                                    ELSE IF s[k] = f THEN kept[k - 1] ELSE Append(kept[k - 1], s[k])
    BY <2>1 DEF SparedTo
  <2>3. \A k \in 0 .. n + 1 : g[k] = h[k]
    <3> TAKE k \in 0 .. n + 1
    <3>1. CASE k = 0   BY <2>2, <3>1
    <3>2. CASE k # 0 /\ k <= n
      <4>1. k - 1 \in 0 .. n + 1 /\ k - 1 <= n /\ k \in 0 .. n   BY <3>2
      <4>2. g[k - 1] = kept[k - 1] /\ g[k] = kept[k]   BY <3>2, <4>1
      <4> QED  BY <2>2, <3>2, <4>1, <4>2
    <3>3. CASE k = n + 1
      <4>1. k - 1 = n /\ n \in 0 .. n + 1 /\ ~(k <= n) /\ k # 0   BY <3>3
      <4>2. g[k - 1] = kept[n] /\ g[k] = next   BY <4>1
      <4> QED  BY <3>3, <4>1, <4>2
    <3> QED  BY <3>1, <3>2, <3>3
  <2>4. g = h   BY <2>3
  <2>5. SparedTo(g, s, f, n + 1)   BY <2>4 DEF SparedTo
  <2> HIDE DEF g
  <2> QED  BY <2>5
<1> HIDE DEF S
<1>3. Nat \subseteq S   BY <1>1, <1>2, Induction
<1> QED  BY <1>3 DEF S

\* Spared goes through them.
LEMMA SparedSteps ==
  ASSUME NEW s, NEW f, Len(s) \in Nat
  PROVE  \A n \in 0 .. Len(s) :
            Spared(s, f)[n] = IF n = 0 THEN << >>
                              ELSE IF s[n] = f THEN Spared(s, f)[n - 1]
                                               ELSE Append(Spared(s, f)[n - 1], s[n])
<1> DEFINE kept == CHOOSE g : SparedTo(g, s, f, Len(s))
<1>1. Spared(s, f) = kept   BY DEF Spared, SparedTo
<1>2. SparedTo(kept, s, f, Len(s))   BY SparedExists
<1> HIDE DEF kept
<1> QED  BY <1>1, <1>2 DEF SparedTo

\* The first n elements.
FirstOf(s, n) == {s[i] : i \in 1 .. n}

\* What is kept of the first n elements: no more than they are, all but those that
\* are f.
LEMMA SparedElements ==
  ASSUME NEW S, NEW s \in Seq(S), NEW f, NEW n \in 0 .. Len(s)
  PROVE  /\ Spared(s, f)[n] \in Seq(S) /\ Len(Spared(s, f)[n]) <= n
         /\ Range(Spared(s, f)[n]) = FirstOf(s, n) \ {f}
<1> DEFINE K(m) == Spared(s, f)[m]
           P(m) == /\ K(m) \in Seq(S) /\ Len(K(m)) <= m
                   /\ Range(K(m)) = FirstOf(s, m) \ {f}
           T == {m \in Nat : m <= Len(s) => P(m)}
<1>1. \A m \in 0 .. Len(s) : K(m) = IF m = 0 THEN << >>
                                    ELSE IF s[m] = f THEN K(m - 1) ELSE Append(K(m - 1), s[m])
  <2>1. Len(s) \in Nat   OBVIOUS
  <2> QED  BY <2>1, SparedSteps
<1> HIDE DEF K
<1>2. P(0)
  <2>1. K(0) = << >>   BY <1>1
  <2>2. << >> \in Seq(S) /\ Range(<< >>) = {}
    <3>1. << >> \in Seq(S) /\ Len(<< >>) = 0   BY EmptySeq
    <3>2. Range(<< >>) = {<< >>[i] : i \in 1 .. Len(<< >>)}   BY <3>1, RangeEquality
    <3> QED  BY <3>1, <3>2
  <2>3. FirstOf(s, 0) \ {f} = {} /\ Len(<< >>) <= 0   BY DEF FirstOf
  <2>4. Range(K(0)) = {}   BY <2>1, <2>2
  <2>5. K(0) \in Seq(S) /\ Len(K(0)) <= 0   BY <2>1, <2>2, <2>3
  <2> QED  BY <2>3, <2>4, <2>5
<1>3. ASSUME NEW m \in Nat, m + 1 <= Len(s), P(m)
      PROVE  P(m + 1)
  <2>1. m + 1 \in 0 .. Len(s) /\ m + 1 # 0 /\ (m + 1) - 1 = m /\ s[m + 1] \in S   BY <1>3
  <2>2. K(m + 1) = IF s[m + 1] = f THEN K(m) ELSE Append(K(m), s[m + 1])   BY <1>1, <2>1
  <2>3. FirstOf(s, m + 1) = FirstOf(s, m) \union {s[m + 1]}   BY <1>3 DEF FirstOf
  <2>4. CASE s[m + 1] = f   BY <1>3, <2>2, <2>3, <2>4
  <2>5. CASE s[m + 1] # f
    <3>1. /\ K(m + 1) \in Seq(S) /\ Len(K(m + 1)) = Len(K(m)) + 1
          /\ Range(K(m + 1)) = Range(K(m)) \union {s[m + 1]}
      <4>1. K(m) \in Seq(S)   BY <1>3
      <4>2. /\ Append(K(m), s[m + 1]) \in Seq(S)
            /\ Len(Append(K(m), s[m + 1])) = Len(K(m)) + 1
        BY <2>1, <4>1, AppendProperties
      <4>3. Range(Append(K(m), s[m + 1])) = Range(K(m)) \union {s[m + 1]}
        BY <2>1, <4>1, AppendedRange
      <4> QED  BY <2>2, <2>5, <4>2, <4>3
    <3>2. Len(K(m)) \in Nat   BY <1>3
    <3>3. Len(K(m + 1)) <= m + 1   BY <1>3, <3>1, <3>2
    <3>4. Range(K(m + 1)) = FirstOf(s, m + 1) \ {f}   BY <1>3, <2>3, <2>5, <3>1
    <3> QED  BY <3>1, <3>3, <3>4
  <2> QED  BY <2>4, <2>5
<1>4. 0 \in T /\ \A m \in Nat : m \in T => m + 1 \in T
  <2> HIDE DEF P
  <2>1. 0 \in T   BY <1>2
  <2>2. ASSUME NEW m \in Nat, m \in T PROVE m + 1 \in T   BY <1>3, <2>2
  <2> QED  BY <2>1, <2>2
<1>5. Nat \subseteq T
  <2> HIDE DEF T
  <2> QED  BY <1>4, Induction
<1>6. n \in T   BY <1>5
<1>7. P(n)
  <2> HIDE DEF P
  <2> QED  BY <1>6
<1> QED  BY <1>7 DEF K

\* Taking f out of a sequence takes it out of what is left of it.
LEMMA BehindWithout ==
  ASSUME NEW S, NEW s \in Seq(S), NEW k \in 0 .. Len(s), NEW left \in Seq(S), Behind(left, s, k),
         NEW f
  PROVE  /\ Len(Spared(s, f)[k]) \in 0 .. Len(Without(s, f))
         /\ Behind(Without(left, f), Without(s, f), Len(Spared(s, f)[k]))
<1> DEFINE K(m) == Spared(s, f)[m]
           L(m) == Spared(left, f)[m]
           P(m) == Len(K(k)) <= Len(K(k + m)) /\ Behind(L(m), K(k + m), Len(K(k)))
           T == {m \in Nat : m <= Len(s) - k => P(m)}
<1>1. Len(s) \in Nat /\ Len(left) \in Nat /\ Len(left) = Len(s) - k   BY DEF Behind
<1>2. \A m \in 0 .. Len(s) : /\ K(m) = IF m = 0 THEN << >>
                                       ELSE IF s[m] = f THEN K(m - 1) ELSE Append(K(m - 1), s[m])
                             /\ K(m) \in Seq(S)
  BY <1>1, SparedSteps, SparedElements
<1>3. \A m \in 0 .. Len(left) : /\ L(m) = IF m = 0 THEN << >>
                                          ELSE IF left[m] = f THEN L(m - 1) ELSE Append(L(m - 1), left[m])
                                /\ L(m) \in Seq(S)
  BY <1>1, SparedSteps, SparedElements
<1> HIDE DEF K, L
<1>4. P(0)
  <2>1. L(0) = << >> /\ k + 0 = k /\ K(k) \in Seq(S)
    <3>1. 0 \in 0 .. Len(left) /\ k \in 0 .. Len(s) /\ k + 0 = k   BY <1>1
    <3>2. L(0) = << >>   BY <1>3, <3>1
    <3>3. K(k) \in Seq(S)   BY <1>2, <3>1
    <3> QED  BY <3>1, <3>2, <3>3
  <2>2. Len(K(k)) \in Nat /\ Len(L(0)) = 0   BY <2>1
  <2> QED  BY <2>1, <2>2 DEF Behind
<1>5. ASSUME NEW m \in Nat, m + 1 <= Len(s) - k, P(m)
      PROVE  P(m + 1)
  <2>1. /\ k + m \in 0 .. Len(s) /\ k + (m + 1) \in 0 .. Len(s) /\ k + (m + 1) # 0
        /\ (k + (m + 1)) - 1 = k + m /\ m \in 0 .. Len(left) /\ m + 1 \in 0 .. Len(left) /\ m + 1 # 0
        /\ (m + 1) - 1 = m /\ m + 1 \in 1 .. Len(s) - k /\ k + (m + 1) \in 1 .. Len(s)
    BY <1>1, <1>5
  <2>2. left[m + 1] = s[k + (m + 1)] /\ s[k + (m + 1)] \in S   BY <2>1 DEF Behind
  <2> DEFINE x == s[k + (m + 1)]
  <2>3. K(k + (m + 1)) = IF x = f THEN K(k + m) ELSE Append(K(k + m), x)   BY <1>2, <2>1
  <2>4. L(m + 1) = IF x = f THEN L(m) ELSE Append(L(m), x)   BY <1>3, <2>1, <2>2
  <2>5. K(k) \in Seq(S) /\ K(k + m) \in Seq(S) /\ L(m) \in Seq(S)   BY <1>2, <1>3, <2>1
  <2>6. CASE x = f   BY <1>5, <2>3, <2>4, <2>6
  <2>7. CASE x # f
    <3>1. Len(K(k)) \in 0 .. Len(K(k + m))   BY <1>5, <2>5
    <3>2. Behind(L(m), K(k + m), Len(K(k)))   BY <1>5
    <3>3. Behind(Append(L(m), x), Append(K(k + m), x), Len(K(k)))
      BY <2>2, <2>5, <3>1, <3>2, BehindAppended
    <3>4. Len(Append(K(k + m), x)) = Len(K(k + m)) + 1   BY <2>2, <2>5, AppendProperties
    <3>5. Len(K(k)) <= Len(Append(K(k + m), x))   BY <3>1, <3>4
    <3> QED  BY <2>3, <2>4, <2>7, <3>3, <3>5
  <2> QED  BY <2>6, <2>7
<1>6. 0 \in T /\ \A m \in Nat : m \in T => m + 1 \in T
  <2> HIDE DEF P
  <2>1. 0 \in T   BY <1>4
  <2>2. ASSUME NEW m \in Nat, m \in T PROVE m + 1 \in T   BY <1>1, <1>5, <2>2
  <2> QED  BY <2>1, <2>2
<1>7. Nat \subseteq T
  <2> HIDE DEF T
  <2> QED  BY <1>6, Induction
<1>8. P(Len(s) - k)
  <2> HIDE DEF P
  <2>1. Len(s) - k \in Nat   BY <1>1
  <2> QED  BY <1>7, <2>1
<1>9. k + (Len(s) - k) = Len(s)   BY <1>1
<1>10. Without(s, f) = K(Len(s)) /\ Without(left, f) = L(Len(s) - k)   BY <1>1 DEF Without, K, L
<1>11. Len(K(k)) \in Nat   BY <1>2
<1>12. Len(K(Len(s))) \in Nat   BY <1>1, <1>2
<1>13. Len(K(k)) <= Len(Without(s, f)) /\ Behind(Without(left, f), Without(s, f), Len(K(k)))
  BY <1>8, <1>9, <1>10
<1> QED  BY <1>10, <1>11, <1>12, <1>13 DEF K

\* remove() takes f out and nothing else.
LEMMA WithoutElements ==
  ASSUME NEW S, NEW s \in Seq(S), NEW f
  PROVE  Without(s, f) \in Seq(S) /\ Len(Without(s, f)) <= Len(s) /\ Range(Without(s, f)) = Range(s) \ {f}
<1>1. Len(s) \in 0 .. Len(s)   OBVIOUS
<1>2. Range(s) = {s[i] : i \in 1 .. Len(s)}   BY RangeEquality
<1> DEFINE kept == Spared(s, f)[Len(s)]
<1>3. kept \in Seq(S) /\ Len(kept) <= Len(s) /\ Range(kept) = FirstOf(s, Len(s)) \ {f}
  BY <1>1, SparedElements
<1> QED  BY <1>2, <1>3 DEF Without, FirstOf

CallbackFlags == {"once", "memory", "unique", "stopOnFalse"}
\* The variables of a list.
CallbackRecords ==
    [flags : SUBSET CallbackFlags, list : Seq(Fns), off : BOOLEAN, stack : Seq(Nat \ {0}),
     locked : BOOLEAN, memory : Int, args : Int, current : Fns \union {"none"},
     phase : {"idle", "call", "end"}, firing : BOOLEAN, firingStart : Int, firingLength : Int,
     firingIndex : Int]

\* A callback that has had the last value, or will in the firing that is under way.
Owed(c, left, f, seen) ==
    seen[f] = c.memory \/ (c.phase = "call" /\ (f = c.current \/ f \in Range(left)))

\* While a callback runs, the loop will go through what is left.
LoopGoesOn(c, left) ==
    /\ c.firingLength = Len(c.list) /\ c.firingIndex + 1 \in 0 .. Len(c.list)
    /\ Behind(left, c.list, c.firingIndex + 1)

\* The list holds those who are subscribed, but for a list that has fired once: what is
\* added to it then is run and let go.
HoldsSubscribed(c, subs) ==
    /\ c.off => subs = {}
    /\ ~c.off => Range(c.list) \subseteq subs
    /\ ~c.off /\ ("once" \notin c.flags \/ c.memory = Nothing) => subs \subseteq Range(c.list)

\* A list that remembers has the flag, and is run with what it remembers; one that
\* has been fired says so.
Remembers(c) ==
    /\ c.memory > 0 => "memory" \in c.flags /\ (c.phase # "idle" => c.args = c.memory)
    /\ c.phase # "idle" /\ ~c.off => c.memory # Nothing

Orderly(c, left, subs, seen) ==
    /\ c \in CallbackRecords /\ left \in Seq(Fns) /\ subs \subseteq Fns /\ seen \in [Fns -> Int]
    /\ (c.firing <=> c.phase # "idle") /\ c.firingStart = 0
    /\ Remembers(c)
    /\ HoldsSubscribed(c, subs)
    /\ c.phase = "call" => c.current \in Fns /\ (~c.off => LoopGoesOn(c, left))
    /\ c.memory > 0 => \A f \in subs : Owed(c, left, f, seen)

\* Where the loop goes next.
LEMMA LoopTestIs ==
  ASSUME NEW c \in CallbackRecords, c.off \/ (c.firingLength = Len(c.list) /\ c.firingIndex \in Nat)
  PROVE  LET d == LoopTest(c)
         IN  /\ d \in CallbackRecords
             /\ d.flags = c.flags /\ d.list = c.list /\ d.off = c.off /\ d.stack = c.stack
             /\ d.locked = c.locked /\ d.memory = c.memory /\ d.args = c.args
             /\ d.firing = c.firing /\ d.firingStart = c.firingStart
             /\ d.firingLength = c.firingLength /\ d.firingIndex = c.firingIndex
             /\ \/ (c.off \/ c.firingIndex >= c.firingLength) /\ d.phase = "end"
                \/ /\ ~c.off /\ c.firingIndex < Len(c.list) /\ d.phase = "call"
                   /\ d.current = c.list[c.firingIndex + 1] /\ d.current \in Fns
<1> DEFINE e == [c EXCEPT !.phase = "end"]
           g == [c EXCEPT !.phase = "call", !.current = c.list[c.firingIndex + 1]]
<1>1. CASE c.off \/ c.firingIndex >= c.firingLength
  <2>0. ~(~c.off /\ c.firingIndex < Min({c.firingLength, Len(c.list)}))
    <3>1. CASE c.off   BY <3>1
    <3>2. CASE ~c.off
      <4>1. c.list \in Seq(Fns) /\ c.firingLength \in Int   BY DEF CallbackRecords
      <4>2. Min({c.firingLength, Len(c.list)}) = c.firingLength   BY <3>2, <4>1, LessOfTwo
      <4> QED  BY <1>1, <3>2, <4>2
    <3> QED  BY <3>1, <3>2
  <2>1. LoopTest(c) = e   BY <1>1, <2>0 DEF LoopTest
  <2>2. e \in CallbackRecords   BY DEF CallbackRecords
  <2>3. /\ e.flags = c.flags /\ e.list = c.list /\ e.off = c.off /\ e.stack = c.stack
        /\ e.locked = c.locked /\ e.memory = c.memory /\ e.args = c.args
        /\ e.firing = c.firing /\ e.firingStart = c.firingStart
        /\ e.firingLength = c.firingLength /\ e.firingIndex = c.firingIndex /\ e.phase = "end"
    BY DEF CallbackRecords
  <2> HIDE DEF e
  <2> QED  BY <1>1, <2>1, <2>2, <2>3
<1>2. CASE ~c.off /\ ~(c.firingIndex >= c.firingLength)
  <2>1. c.list \in Seq(Fns) /\ c.firingLength \in Int /\ c.firingIndex \in Nat /\ c.firingLength = Len(c.list)
    BY <1>2 DEF CallbackRecords
  <2>2. /\ Min({c.firingLength, Len(c.list)}) = Len(c.list) /\ c.firingIndex < Len(c.list)
        /\ c.list[c.firingIndex + 1] \in Fns
    BY <1>2, <2>1, LessOfTwo
  <2>3. LoopTest(c) = g   BY <1>2, <2>2 DEF LoopTest
  <2>4. g \in CallbackRecords   BY <2>2 DEF CallbackRecords
  <2>5. /\ g.flags = c.flags /\ g.list = c.list /\ g.off = c.off /\ g.stack = c.stack
        /\ g.locked = c.locked /\ g.memory = c.memory /\ g.args = c.args
        /\ g.firing = c.firing /\ g.firingStart = c.firingStart
        /\ g.firingLength = c.firingLength /\ g.firingIndex = c.firingIndex /\ g.phase = "call"
        /\ g.current = c.list[c.firingIndex + 1]
    BY DEF CallbackRecords
  <2> HIDE DEF g
  <2> QED  BY <1>2, <2>2, <2>3, <2>4, <2>5
<1> QED  BY <1>1, <1>2

\* What fire() sets before the first callback.
LEMMA FireListIs ==
  ASSUME NEW c \in CallbackRecords, c.firingStart \in 0 .. Len(c.list), NEW v \in Int
  PROVE  LET d == FireList(c, v)
         IN  /\ d \in CallbackRecords /\ d.flags = c.flags /\ d.list = c.list /\ d.off = c.off
             /\ d.stack = c.stack /\ d.locked = c.locked /\ d.firing /\ d.firingStart = 0
             /\ d.args = v /\ d.memory = (IF "memory" \in c.flags THEN v ELSE Halted)
             /\ d.firingIndex = c.firingStart /\ d.firingLength = Len(c.list)
             /\ \/ (c.off \/ c.firingStart = Len(c.list)) /\ d.phase = "end"
                \/ /\ ~c.off /\ c.firingStart < Len(c.list) /\ d.phase = "call"
                   /\ d.current = c.list[c.firingStart + 1] /\ d.current \in Fns
<1> DEFINE m == IF "memory" \in c.flags THEN v ELSE Halted
           e == [c EXCEPT !.memory = m,
                          !.args = v, !.firing = TRUE, !.firingIndex = c.firingStart,
                          !.firingStart = 0, !.firingLength = Len(c.list)]
<1>1. /\ c.list \in Seq(Fns) /\ Len(c.list) \in Nat /\ c.firingStart \in Int
      /\ m \in Int
  <2>1. c.list \in Seq(Fns) /\ c.firingStart \in Int   BY DEF CallbackRecords
  <2>2. Len(c.list) \in Nat   BY <2>1
  <2>3. m \in Int   BY DEF Halted
  <2> HIDE DEF m
  <2> QED  BY <2>1, <2>2, <2>3
<1>4. FireList(c, v) = LoopTest(e)   BY DEF FireList
<1> HIDE DEF m
<1>2. e \in CallbackRecords
  <2> DEFINE g == [c EXCEPT !.memory = m, !.args = v, !.firing = TRUE]
  <2>1. g \in CallbackRecords   BY <1>1 DEF CallbackRecords
  <2>2. e = [g EXCEPT !.firingIndex = c.firingStart, !.firingStart = 0, !.firingLength = Len(c.list)]
    OBVIOUS
  <2> HIDE DEF g, e
  <2>3. c.firingStart \in Int /\ 0 \in Int /\ Len(c.list) \in Int   BY <1>1
  <2> QED  BY <2>1, <2>2, <2>3 DEF CallbackRecords
<1>3. /\ e.flags = c.flags /\ e.list = c.list /\ e.off = c.off
      /\ e.stack = c.stack /\ e.locked = c.locked /\ e.firing /\ e.firingStart = 0
      /\ e.args = v /\ e.memory = m
      /\ e.firingIndex = c.firingStart /\ e.firingLength = Len(c.list)
  BY DEF CallbackRecords
<1> HIDE DEF e
<1>5. e.firingLength = Len(e.list) /\ e.firingIndex \in Nat   BY <1>1, <1>3
<1> DEFINE d == LoopTest(e)
<1>6. /\ d \in CallbackRecords
      /\ d.flags = e.flags /\ d.list = e.list /\ d.off = e.off /\ d.stack = e.stack
      /\ d.locked = e.locked /\ d.memory = e.memory /\ d.args = e.args
      /\ d.firing = e.firing /\ d.firingStart = e.firingStart
      /\ d.firingLength = e.firingLength /\ d.firingIndex = e.firingIndex
      /\ \/ (e.off \/ e.firingIndex >= e.firingLength) /\ d.phase = "end"
         \/ /\ ~e.off /\ e.firingIndex < Len(e.list) /\ d.phase = "call"
            /\ d.current = e.list[e.firingIndex + 1] /\ d.current \in Fns
  BY <1>2, <1>5, LoopTestIs
<1> HIDE DEF d
<1>7. e.firingIndex >= e.firingLength <=> c.firingStart = Len(c.list)   BY <1>1, <1>3
<1>8. /\ d.flags = c.flags /\ d.list = c.list /\ d.off = c.off
      /\ d.stack = c.stack /\ d.locked = c.locked /\ d.firing /\ d.firingStart = 0
      /\ d.args = v /\ d.memory = (IF "memory" \in c.flags THEN v ELSE Halted)
      /\ d.firingIndex = c.firingStart /\ d.firingLength = Len(c.list)
  BY <1>3, <1>6 DEF m
<1>9. \/ (c.off \/ c.firingStart = Len(c.list)) /\ d.phase = "end"
      \/ /\ ~c.off /\ c.firingStart < Len(c.list) /\ d.phase = "call"
         /\ d.current = c.list[c.firingStart + 1] /\ d.current \in Fns
  BY <1>3, <1>6, <1>7
<1> QED  BY <1>4, <1>6, <1>8, <1>9 DEF d

\* A firing starts in order when those subscribed have the value or are to get it.
LEMMA FireListOrderly ==
  ASSUME NEW c \in CallbackRecords, c.firingStart \in 0 .. Len(c.list), NEW v \in Int, v > 0,
         NEW left \in Seq(Fns), NEW subs \in SUBSET Fns, NEW seen \in [Fns -> Int],
         HoldsSubscribed(FireList(c, v), subs),
         \A f \in subs : seen[f] = v \/ \E i \in c.firingStart + 1 .. Len(c.list) : c.list[i] = f,
         FireList(c, v).phase = "call" => left = SubSeq(c.list, c.firingStart + 2, Len(c.list))
  PROVE  Orderly(FireList(c, v), left, subs, seen)
<1> DEFINE d == FireList(c, v)
<1>1. /\ d \in CallbackRecords /\ d.flags = c.flags /\ d.list = c.list /\ d.off = c.off
      /\ d.stack = c.stack /\ d.locked = c.locked /\ d.firing /\ d.firingStart = 0
      /\ d.args = v /\ d.memory = (IF "memory" \in c.flags THEN v ELSE Halted)
      /\ d.firingIndex = c.firingStart /\ d.firingLength = Len(c.list)
      /\ \/ (c.off \/ c.firingStart = Len(c.list)) /\ d.phase = "end"
         \/ /\ ~c.off /\ c.firingStart < Len(c.list) /\ d.phase = "call"
            /\ d.current = c.list[c.firingStart + 1] /\ d.current \in Fns
  BY FireListIs
<1>2. HoldsSubscribed(d, subs) /\ (d.phase = "call" => left = SubSeq(c.list, c.firingStart + 2, Len(c.list)))
  OBVIOUS
<1> HIDE DEF d
<1>3. c.list \in Seq(Fns) /\ Len(c.list) \in Nat   BY DEF CallbackRecords
<1>4. Remembers(d)   BY <1>1 DEF Remembers, Halted, Nothing
<1>5. d.phase = "call" => Behind(left, c.list, c.firingStart + 1)
  <2> HAVE d.phase = "call"
  <2>1. c.firingStart + 1 \in 0 .. Len(c.list) /\ (c.firingStart + 1) + 1 = c.firingStart + 2
    BY <1>1, <1>3
  <2>2. Behind(SubSeq(c.list, (c.firingStart + 1) + 1, Len(c.list)), c.list, c.firingStart + 1)
    BY <1>3, <2>1, BehindSubSeq
  <2> QED  BY <1>2, <2>1, <2>2
<1>6. d.phase = "call" => d.current \in Fns /\ LoopGoesOn(d, left)
  BY <1>1, <1>3, <1>5 DEF LoopGoesOn
<1>7. ASSUME d.memory > 0, NEW f \in subs
      PROVE  Owed(d, left, f, seen)
  <2>1. d.memory = v   BY <1>1, <1>7 DEF Halted
  <2>2. CASE seen[f] = v   BY <2>1, <2>2 DEF Owed
  <2>3. ASSUME NEW i \in c.firingStart + 1 .. Len(c.list), c.list[i] = f
        PROVE  Owed(d, left, f, seen)
    <3>1. d.phase = "call"   BY <1>1, <1>2, <1>3, <2>3 DEF HoldsSubscribed
    <3>2. CASE i = c.firingStart + 1   BY <1>1, <2>3, <3>1, <3>2 DEF Owed
    <3>3. CASE i # c.firingStart + 1
      <4>0. PICK n \in Int : n = c.firingStart + 1   BY <1>3 DEF CallbackRecords
      <4> DEFINE j == i - n
      <4>6. i \in n .. Len(c.list) /\ i # n /\ Len(c.list) \in Nat   BY <1>3, <3>3, <4>0
      <4>1. j \in 1 .. Len(c.list) - n /\ n + j = i   BY <4>6
      <4>2. Behind(left, c.list, n)   BY <1>5, <3>1, <4>0
      <4> HIDE DEF j
      <4>3. left[j] = c.list[n + j] /\ Len(left) = Len(c.list) - n   BY <4>1, <4>2 DEF Behind
      <4>4. left[j] = f /\ j \in 1 .. Len(left)   BY <2>3, <4>1, <4>3
      <4>5. f \in Range(left)
        <5>1. f \in Range(left) <=> \E k \in 1 .. Len(left) : left[k] = f   BY RangeElements
        <5> QED  BY <4>4, <5>1
      <4> QED  BY <3>1, <4>5 DEF Owed
    <3> QED  BY <3>2, <3>3
  <2> QED  BY <2>2, <2>3
<1>8. (d.firing <=> d.phase # "idle") /\ d.firingStart = 0   BY <1>1
<1>9. Orderly(d, left, subs, seen)   BY <1>1, <1>2, <1>4, <1>6, <1>7, <1>8 DEF Orderly
<1> QED  BY <1>9 DEF d

\* add() outside the loop, inside it, and to a list that remembers a firing.
LEMMA AddOrderly ==
  ASSUME NEW c, NEW left, NEW subs, NEW seen, Orderly(c, left, subs, seen),
         c.phase \in {"idle", "call"}, NEW f \in Fns, NEW left2,
         LET d == AddTo(c, f)
         IN  left2 = CASE d.phase # "idle" /\ c.phase = "idle" -> SubSeq(d.list, d.firingIndex + 2, Len(d.list))
                       [] Len(d.list) > Len(c.list) /\ c.phase = "call" -> Append(left, f)
                       [] OTHER -> left
  PROVE  Orderly(AddTo(c, f), left2, IF c.off THEN subs ELSE subs \union {f}, seen)
<1> DEFINE d == AddTo(c, f)
           subs2 == IF c.off THEN subs ELSE subs \union {f}
           added == IF "unique" \in c.flags /\ Has(c, f) THEN c.list ELSE Append(c.list, f)
<1>1. /\ c \in CallbackRecords /\ left \in Seq(Fns) /\ subs \subseteq Fns /\ seen \in [Fns -> Int]
      /\ (c.firing <=> c.phase # "idle") /\ c.firingStart = 0
      /\ Remembers(c) /\ HoldsSubscribed(c, subs)
      /\ c.phase = "call" => c.current \in Fns /\ (~c.off => LoopGoesOn(c, left))
      /\ c.memory > 0 => \A g \in subs : Owed(c, left, g, seen)
  BY DEF Orderly
<1>2. /\ c.list \in Seq(Fns) /\ Len(c.list) \in Nat /\ c.firingIndex \in Int /\ c.memory \in Int
      /\ c.flags \in SUBSET CallbackFlags
  <2>1. c.list \in Seq(Fns) /\ c.firingIndex \in Int /\ c.memory \in Int /\ c.flags \in SUBSET CallbackFlags
    BY <1>1 DEF CallbackRecords
  <2> QED  BY <2>1
<1>3. /\ added \in Seq(Fns) /\ Range(added) = Range(c.list) \union {f}
      /\ \/ added = c.list /\ f \in Range(c.list) /\ Len(added) = Len(c.list)
         \/ added = Append(c.list, f) /\ Len(added) = Len(c.list) + 1
  <2>1. CASE "unique" \in c.flags /\ Has(c, f)
    <3>1. added = c.list /\ f \in Range(c.list)   BY <2>1 DEF Has
    <3> QED  BY <1>2, <3>1
  <2>2. CASE ~("unique" \in c.flags /\ Has(c, f))
    <3>1. added = Append(c.list, f)   BY <2>2
    <3>2. Range(Append(c.list, f)) = Range(c.list) \union {f}   BY <1>2, AppendedRange
    <3>3. Append(c.list, f) \in Seq(Fns) /\ Len(Append(c.list, f)) = Len(c.list) + 1   BY <1>2, AppendProperties
    <3> QED  BY <3>1, <3>2, <3>3
  <2> QED  BY <2>1, <2>2
<1>4. d = CASE c.off                  -> c
          [] ~c.off /\ c.firing     -> [c EXCEPT !.list = added, !.firingLength = Len(added)]
          [] ~c.off /\ ~c.firing /\ c.memory > 0 ->
                FireList([c EXCEPT !.list = added, !.firingStart = Len(c.list)], c.memory)
          [] OTHER                  -> [c EXCEPT !.list = added]
  BY DEF AddTo
<1>5. left2 = CASE d.phase # "idle" /\ c.phase = "idle" -> SubSeq(d.list, d.firingIndex + 2, Len(d.list))
                [] Len(d.list) > Len(c.list) /\ c.phase = "call" -> Append(left, f)
                [] OTHER -> left
  OBVIOUS
<1> HIDE DEF d, added
<1>6. CASE c.off
  <2>1. d = c   BY <1>4, <1>6
  <2>2. ~(d.phase # "idle" /\ c.phase = "idle") /\ ~(Len(d.list) > Len(c.list))   BY <1>2, <2>1
  <2>3. left2 = left   BY <1>5, <2>2
  <2> QED  BY <1>6, <2>1, <2>3 DEF d
<1>7. CASE ~c.off /\ c.firing
  <2>1. d = [c EXCEPT !.list = added, !.firingLength = Len(added)]   BY <1>4, <1>7
  <2>2. Len(added) \in Int   BY <1>3
  <2>3. /\ d \in CallbackRecords /\ d.list = added /\ d.firingLength = Len(added)
        /\ d.flags = c.flags /\ d.off = c.off /\ d.memory = c.memory /\ d.args = c.args
        /\ d.current = c.current /\ d.phase = c.phase /\ d.firing = c.firing
        /\ d.firingStart = c.firingStart /\ d.firingIndex = c.firingIndex
    BY <1>1, <1>3, <2>1, <2>2 DEF CallbackRecords
  <2>4. c.phase = "call" /\ LoopGoesOn(c, left) /\ c.current \in Fns   BY <1>1, <1>7
  <2>5. /\ left2 \in Seq(Fns) /\ Behind(left2, added, c.firingIndex + 1)
        /\ Range(left2) \subseteq Range(left) \union {f}
        /\ Range(left) \subseteq Range(left2) /\ (f \in Range(left2) \/ f \in subs)
    <3>1. c.firingIndex + 1 \in 0 .. Len(c.list) /\ Behind(left, c.list, c.firingIndex + 1)
      BY <2>4 DEF LoopGoesOn
    <3>2. CASE added = c.list /\ f \in Range(c.list) /\ Len(added) = Len(c.list)
      <4>1. ~(Len(d.list) > Len(c.list)) /\ ~(d.phase # "idle" /\ c.phase = "idle")
        BY <1>2, <2>3, <2>4, <3>2
      <4>2. left2 = left   BY <1>5, <4>1
      <4>3. f \in subs   BY <1>1, <1>7, <3>2 DEF HoldsSubscribed
      <4> QED  BY <1>1, <3>1, <3>2, <4>2, <4>3
    <3>3. CASE added = Append(c.list, f) /\ Len(added) = Len(c.list) + 1
      <4>1. Len(d.list) > Len(c.list) /\ ~(d.phase # "idle" /\ c.phase = "idle")
        BY <1>2, <2>3, <2>4, <3>3
      <4>2. left2 = Append(left, f)   BY <1>5, <2>4, <4>1
      <4>3. left \in Seq(Fns) /\ c.list \in Seq(Fns)   BY <1>1, <1>2
      <4>4. /\ Append(left, f) \in Seq(Fns)
            /\ Behind(Append(left, f), Append(c.list, f), c.firingIndex + 1)
        BY <3>1, <4>3, BehindAppended
      <4>5. Range(Append(left, f)) = Range(left) \union {f}   BY <4>3, AppendedRange
      <4>6. left2 \in Seq(Fns) /\ Behind(left2, added, c.firingIndex + 1)   BY <3>3, <4>2, <4>4
      <4>7. Range(left2) = Range(left) \union {f}   BY <4>2, <4>5
      <4> QED  BY <4>6, <4>7
    <3> QED  BY <1>3, <3>2, <3>3
  <2>6. LoopGoesOn(d, left2)
    <3>1. c.firingIndex + 1 \in 0 .. Len(c.list)   BY <2>4 DEF LoopGoesOn
    <3>2. c.firingIndex + 1 \in 0 .. Len(added)   BY <1>2, <1>3, <3>1
    <3> QED  BY <2>3, <2>5, <3>2 DEF LoopGoesOn
  <2>7. HoldsSubscribed(d, subs \union {f})   BY <1>1, <1>3, <1>7, <2>3 DEF HoldsSubscribed
  <2>8. Remembers(d)   BY <1>1, <2>3 DEF Remembers
  <2>9. ASSUME d.memory > 0, NEW g \in subs \union {f}
        PROVE  Owed(d, left2, g, seen)
    <3>1. CASE g \in subs
      <4>1. Owed(c, left, g, seen)   BY <1>1, <2>3, <2>9, <3>1
      <4> QED  BY <2>3, <2>4, <2>5, <4>1 DEF Owed
    <3>2. CASE g \notin subs
      <4>1. g \in Range(left2)   BY <2>5, <2>9, <3>2
      <4> QED  BY <2>3, <2>4, <4>1 DEF Owed
    <3> QED  BY <3>1, <3>2
  <2>10. Orderly(d, left2, subs \union {f}, seen)
    BY <1>1, <2>3, <2>4, <2>5, <2>6, <2>7, <2>8, <2>9 DEF Orderly
  <2> QED  BY <1>7, <2>10 DEF d
<1>8. CASE ~c.off /\ ~c.firing /\ c.memory > 0
  <2> DEFINE b == [c EXCEPT !.list = added, !.firingStart = Len(c.list)]
  <2>1. d = FireList(b, c.memory)   BY <1>4, <1>8
  <2>2. /\ b \in CallbackRecords /\ b.list = added /\ b.firingStart = Len(c.list)
        /\ b.flags = c.flags /\ b.off = c.off
    <3>1. c \in CallbackRecords /\ added \in Seq(Fns) /\ Len(c.list) \in Int   BY <1>1, <1>2, <1>3
    <3> QED  BY <3>1 DEF CallbackRecords
  <2> HIDE DEF b
  <2>3. b.firingStart \in 0 .. Len(b.list)   BY <1>2, <1>3, <2>2
  <2>4. /\ d.flags = c.flags /\ d.list = added /\ d.off = c.off
        /\ d.memory = (IF "memory" \in c.flags THEN c.memory ELSE Halted)
        /\ d.firingIndex = Len(c.list) /\ d.phase \in {"call", "end"}
    BY <1>2, <2>1, <2>2, <2>3, FireListIs
  <2>5. d.memory = c.memory   BY <1>1, <1>8, <2>4 DEF Remembers
  <2>6. HoldsSubscribed(d, subs \union {f})
    BY <1>1, <1>3, <1>8, <2>4, <2>5 DEF HoldsSubscribed, Nothing
  <2>7. left2 = SubSeq(added, Len(c.list) + 2, Len(added)) /\ left2 \in Seq(Fns)
    <3>1. d.phase # "idle" /\ c.phase = "idle"   BY <1>1, <1>8, <2>4
    <3>2. left2 = SubSeq(added, Len(c.list) + 2, Len(added))   BY <1>5, <2>4, <3>1
    <3>3. Len(added) \in {Len(c.list), Len(c.list) + 1} /\ added \in Seq(Fns) /\ Len(c.list) \in Nat
      BY <1>2, <1>3
    <3>4. Len(c.list) + 2 > Len(added) /\ Len(c.list) + 2 \in Int /\ Len(added) \in Int   BY <3>3
    <3>5. SubSeq(added, Len(c.list) + 2, Len(added)) = << >>   BY <3>3, <3>4, SubSeqEmpty
    <3>6. << >> \in Seq(Fns)   BY EmptySeq
    <3> QED  BY <3>2, <3>5, <3>6
  <2>8. ASSUME NEW g \in subs \union {f}
        PROVE  seen[g] = c.memory \/ \E i \in b.firingStart + 1 .. Len(b.list) : b.list[i] = g
    <3>1. CASE g \in subs
      <4>1. Owed(c, left, g, seen) /\ c.phase = "idle"   BY <1>1, <1>8, <3>1
      <4> QED  BY <4>1 DEF Owed
    <3>2. CASE g \notin subs
      <4>1. g = f /\ f \notin Range(c.list)   BY <1>1, <1>8, <2>8, <3>2 DEF HoldsSubscribed
      <4>2. added = Append(c.list, f) /\ Len(added) = Len(c.list) + 1   BY <1>3, <4>1
      <4>3. added[Len(c.list) + 1] = g   BY <1>2, <4>1, <4>2
      <4>4. Len(c.list) + 1 \in b.firingStart + 1 .. Len(b.list)   BY <1>2, <2>2, <4>2
      <4> QED  BY <2>2, <4>3, <4>4
    <3> QED  BY <3>1, <3>2
  <2>9. subs \union {f} \in SUBSET Fns   BY <1>1
  <2>10. FireList(b, c.memory).phase = "call" => left2 = SubSeq(b.list, b.firingStart + 2, Len(b.list))
    BY <2>2, <2>7
  <2>11. Orderly(FireList(b, c.memory), left2, subs \union {f}, seen)
    BY <1>1, <1>2, <1>8, <2>1, <2>2, <2>3, <2>6, <2>7, <2>8, <2>9, <2>10, FireListOrderly
  <2> QED  BY <1>8, <2>1, <2>11 DEF d
<1>9. CASE ~c.off /\ ~c.firing /\ ~(c.memory > 0)
  <2>1. d = [c EXCEPT !.list = added]   BY <1>4, <1>9
  <2>2. /\ d \in CallbackRecords /\ d.list = added
        /\ d.flags = c.flags /\ d.off = c.off /\ d.memory = c.memory /\ d.args = c.args
        /\ d.phase = c.phase /\ d.firing = c.firing /\ d.firingStart = c.firingStart
    BY <1>1, <1>3, <2>1 DEF CallbackRecords
  <2>3. c.phase = "idle"   BY <1>1, <1>9
  <2>4. left2 = left   BY <1>5, <2>2, <2>3
  <2>5. HoldsSubscribed(d, subs \union {f})   BY <1>1, <1>3, <1>9, <2>2 DEF HoldsSubscribed
  <2>6. Remembers(d)   BY <1>1, <2>2 DEF Remembers
  <2>7. Orderly(d, left2, subs \union {f}, seen)
    BY <1>1, <1>9, <2>2, <2>3, <2>4, <2>5, <2>6 DEF Orderly
  <2> QED  BY <1>9, <2>7 DEF d
<1> QED  BY <1>6, <1>7, <1>8, <1>9

\* fireWith() of a list at rest.
LEMMA FireWithOrderly ==
  ASSUME NEW c, NEW left \in Seq(Fns), NEW subs, NEW seen, c \in CallbackRecords, subs \in SUBSET Fns,
         seen \in [Fns -> Int], ~c.firing, c.phase = "idle", c.firingStart = 0, Remembers(c), HoldsSubscribed(c, subs),
         c.memory > 0 => \A f \in subs : seen[f] = c.memory,
         NEW v \in Int, v > 0, NEW left2 \in Seq(Fns),
         LET d == FireWith(c, v)
         IN  d.phase = "call" => left2 = SubSeq(d.list, 2, Len(d.list))
  PROVE  Orderly(FireWith(c, v), left2, subs, seen)
<1> DEFINE d == FireWith(c, v)
<1>1. /\ c.list \in Seq(Fns) /\ Len(c.list) \in Nat /\ c.firingStart \in 0 .. Len(c.list)
  <2>1. c.list \in Seq(Fns)   BY DEF CallbackRecords
  <2> QED  BY <2>1
<1>2. CASE c.locked \/ ("once" \in c.flags /\ c.memory # Nothing)
  <2>1. d = c   BY <1>2 DEF FireWith
  <2> HIDE DEF d
  <2>2. c.memory > 0 => \A f \in subs : Owed(c, left2, f, seen)   BY <1>2 DEF Owed
  <2>3. Orderly(c, left2, subs, seen)   BY <2>2 DEF Orderly
  <2> QED  BY <2>1, <2>3 DEF d
<1>3. CASE ~c.locked /\ ~("once" \in c.flags /\ c.memory # Nothing)
  <2>1. d = FireList(c, v)   BY <1>3 DEF FireWith
  <2>3. d.phase = "call" => left2 = SubSeq(d.list, 2, Len(d.list))   OBVIOUS
  <2> HIDE DEF d
  <2>2. /\ d.flags = c.flags /\ d.list = c.list /\ d.off = c.off
    BY <1>1, <2>1, FireListIs
  <2>4. HoldsSubscribed(d, subs)   BY <1>3, <2>2 DEF HoldsSubscribed
  <2>5. ASSUME NEW f \in subs
        PROVE  \E i \in c.firingStart + 1 .. Len(c.list) : c.list[i] = f
    <3>1. HoldsSubscribed(c, subs) /\ c.firingStart + 1 = 1   OBVIOUS
    <3>2. ~c.off   BY <2>5, <3>1 DEF HoldsSubscribed
    <3>3. f \in Range(c.list)   BY <1>3, <2>5, <3>1, <3>2 DEF HoldsSubscribed
    <3>4. f \in Range(c.list) <=> \E i \in 1 .. Len(c.list) : c.list[i] = f   BY <1>1, RangeElements
    <3> QED  BY <3>1, <3>3, <3>4
  <2>6. FireList(c, v).phase = "call" => left2 = SubSeq(c.list, c.firingStart + 2, Len(c.list))
    BY <2>1, <2>2, <2>3
  <2>7. HoldsSubscribed(FireList(c, v), subs)   BY <2>1, <2>4
  <2>8. Orderly(FireList(c, v), left2, subs, seen)   BY <1>1, <2>5, <2>6, <2>7, FireListOrderly
  <2> QED  BY <2>1, <2>8 DEF d
<1> QED  BY <1>2, <1>3

\* fireWith() from outside, or from a callback, when it is remembered for later or
\* not at all.
LEMMA FireOrderly ==
  ASSUME NEW c, NEW left, NEW subs, NEW seen, Orderly(c, left, subs, seen),
         c.phase \in {"idle", "call"}, NEW v \in Int, v > 0, NEW left2,
         LET d == FireWith(c, v)
         IN  left2 = IF d.phase # "idle" /\ c.phase = "idle"
                     THEN SubSeq(d.list, d.firingIndex + 2, Len(d.list)) ELSE left
  PROVE  Orderly(FireWith(c, v), left2, subs, seen)
<1> DEFINE d == FireWith(c, v)
<1>1. /\ c \in CallbackRecords /\ left \in Seq(Fns) /\ subs \subseteq Fns /\ seen \in [Fns -> Int]
      /\ (c.firing <=> c.phase # "idle") /\ c.firingStart = 0
      /\ Remembers(c) /\ HoldsSubscribed(c, subs)
      /\ c.phase = "call" => c.current \in Fns /\ (~c.off => LoopGoesOn(c, left))
      /\ c.memory > 0 => \A g \in subs : Owed(c, left, g, seen)
  BY DEF Orderly
<1>2. left2 = IF d.phase # "idle" /\ c.phase = "idle"
              THEN SubSeq(d.list, d.firingIndex + 2, Len(d.list)) ELSE left
  OBVIOUS
<1>3. CASE c.phase = "call"
  <2>1. c.firing   BY <1>1, <1>3
  <2>2. CASE c.locked \/ "once" \in c.flags
    <3>1. d = c   BY <2>1, <2>2 DEF FireWith
    <3>2. left2 = left   BY <1>2, <1>3
    <3> QED  BY <3>1, <3>2
  <2>3. CASE ~c.locked /\ "once" \notin c.flags
    <3>1. d = [c EXCEPT !.stack = Append(@, v)]   BY <2>1, <2>3 DEF FireWith
    <3>2. c.stack \in Seq(Nat \ {0}) /\ v \in Nat \ {0}   BY <1>1 DEF CallbackRecords
    <3>3. Append(c.stack, v) \in Seq(Nat \ {0})   BY <3>2
    <3>4. c \in CallbackRecords   BY <1>1
    <3>5. /\ d \in CallbackRecords /\ d.list = c.list
          /\ d.flags = c.flags /\ d.off = c.off /\ d.memory = c.memory /\ d.args = c.args
          /\ d.current = c.current /\ d.phase = c.phase /\ d.firing = c.firing
          /\ d.firingStart = c.firingStart /\ d.firingIndex = c.firingIndex /\ d.firingLength = c.firingLength
      BY <3>1, <3>3, <3>4 DEF CallbackRecords
    <3>6. left2 = left   BY <1>2, <1>3
    <3> HIDE DEF d
    <3>7. LoopGoesOn(c, left) => LoopGoesOn(d, left)   BY <3>5 DEF LoopGoesOn
    <3>8. Remembers(d)   BY <1>1, <3>5 DEF Remembers
    <3>9. HoldsSubscribed(d, subs)   BY <1>1, <3>5 DEF HoldsSubscribed
    <3>10. \A g : Owed(c, left, g, seen) => Owed(d, left, g, seen)   BY <3>5 DEF Owed
    <3>11. Orderly(d, left2, subs, seen)   BY <1>1, <3>5, <3>6, <3>7, <3>8, <3>9, <3>10 DEF Orderly
    <3> QED  BY <3>11 DEF d
  <2> QED  BY <2>2, <2>3
<1>4. CASE c.phase = "idle"
  <2>1. ~c.firing   BY <1>1, <1>4
  <2>2. c.memory > 0 => \A f \in subs : seen[f] = c.memory   BY <1>1, <1>4 DEF Owed
  <2>3. c.list \in Seq(Fns) /\ Len(c.list) \in Nat /\ c.firingStart \in 0 .. Len(c.list)
    <3>1. c.list \in Seq(Fns)   BY <1>1 DEF CallbackRecords
    <3> QED  BY <1>1, <3>1
  <2>4. /\ left2 \in Seq(Fns)
        /\ d.phase = "call" => left2 = SubSeq(d.list, 2, Len(d.list))
    <3>1. CASE d = c
      <4>1. left2 = left   BY <1>2, <1>4, <3>1
      <4> QED  BY <1>1, <1>4, <3>1, <4>1
    <3>2. CASE d = FireList(c, v)
      <4> HIDE DEF d
      <4>1. d.list = c.list /\ d.phase \in {"end", "call"} /\ d.firingIndex = 0
        <5>1. c \in CallbackRecords   BY <1>1
        <5>2. /\ FireList(c, v).list = c.list /\ FireList(c, v).firingIndex = c.firingStart
              /\ FireList(c, v).phase \in {"end", "call"}
          BY <2>3, <5>1, FireListIs
        <5>3. c.firingStart = 0   BY <1>1
        <5> QED  BY <3>2, <5>2, <5>3
      <4>2. left2 = SubSeq(c.list, 2, Len(c.list))
        <5>1. d.phase # "idle" /\ c.phase = "idle" /\ d.firingIndex + 2 = 2   BY <1>4, <4>1
        <5>2. left2 = SubSeq(d.list, d.firingIndex + 2, Len(d.list))   BY <1>2, <5>1
        <5> QED  BY <4>1, <5>1, <5>2
      <4>3. left2 \in Seq(Fns)
        <5>1. CASE Len(c.list) = 0
          <6>1. SubSeq(c.list, 2, Len(c.list)) = << >>   BY <2>3, <5>1, SubSeqEmpty
          <6>2. << >> \in Seq(Fns)   BY EmptySeq
          <6> QED  BY <4>2, <6>1, <6>2
        <5>2. CASE Len(c.list) # 0
          <6>1. 1 \in 0 .. Len(c.list) /\ 1 + 1 = 2   BY <2>3, <5>2
          <6>2. SubSeq(c.list, 1 + 1, Len(c.list)) \in Seq(Fns)   BY <2>3, <6>1, BehindSubSeq
          <6> QED  BY <4>2, <6>1, <6>2
        <5> QED  BY <5>1, <5>2
      <4> QED  BY <4>1, <4>2, <4>3
    <3> QED  BY <2>1, <3>1, <3>2 DEF FireWith
  <2> HIDE DEF d
  <2>5. FireWith(c, v).phase = "call" => left2 = SubSeq(FireWith(c, v).list, 2, Len(FireWith(c, v).list))
    BY <2>4 DEF d
  <2> QED  BY <1>1, <1>4, <2>1, <2>2, <2>4, <2>5, FireWithOrderly
<1> QED  BY <1>3, <1>4

\* remove() outside the loop and inside it.
LEMMA RemoveOrderly ==
  ASSUME NEW c, NEW left, NEW subs, NEW seen, Orderly(c, left, subs, seen),
         c.phase \in {"idle", "call"}, NEW f \in Fns
  PROVE  Orderly(RemoveFrom(c, f), Without(left, f), subs \ {f}, seen)
<1> DEFINE d == RemoveFrom(c, f)
           upTo(n) == LET m == Min({n + 1, Len(c.list)}) IN m - Len(Spared(c.list, f)[m])
           rest == Without(left, f)
           kept == Without(c.list, f)
<1>1. /\ c \in CallbackRecords /\ left \in Seq(Fns) /\ subs \subseteq Fns /\ seen \in [Fns -> Int]
      /\ (c.firing <=> c.phase # "idle") /\ c.firingStart = 0
      /\ Remembers(c) /\ HoldsSubscribed(c, subs)
      /\ c.phase = "call" => c.current \in Fns /\ (~c.off => LoopGoesOn(c, left))
      /\ c.memory > 0 => \A g \in subs : Owed(c, left, g, seen)
  BY DEF Orderly
<1>2. c \in CallbackRecords /\ left \in Seq(Fns) /\ subs \subseteq Fns /\ seen \in [Fns -> Int]   BY <1>1
<1>3. c.list \in Seq(Fns) /\ Len(c.list) \in Nat /\ c.firingLength \in Int /\ c.firingIndex \in Int
  <2>1. c.list \in Seq(Fns) /\ c.firingLength \in Int /\ c.firingIndex \in Int   BY <1>2 DEF CallbackRecords
  <2> QED  BY <2>1
<1>4. kept \in Seq(Fns) /\ Range(kept) = Range(c.list) \ {f}   BY <1>3, WithoutElements
<1>5. rest \in Seq(Fns) /\ Range(rest) = Range(left) \ {f}   BY <1>2, WithoutElements
<1> HIDE DEF rest
<1>6. CASE c.off
  <2>1. d = c   BY <1>6 DEF RemoveFrom
  <2>2. subs = {}
    <3>1. HoldsSubscribed(c, subs)   BY <1>1
    <3> QED  BY <1>6, <3>1 DEF HoldsSubscribed
  <2> HIDE DEF d
  <2>3. HoldsSubscribed(d, subs \ {f})   BY <1>6, <2>1, <2>2 DEF HoldsSubscribed
  <2>4. Remembers(d)   BY <1>1, <2>1
  <2>5. subs \ {f} \subseteq Fns   BY <1>2
  <2>6. /\ d.phase = "call" => d.current \in Fns /\ (~d.off => LoopGoesOn(d, rest))
        /\ (d.firing <=> d.phase # "idle") /\ d.firingStart = 0
    BY <1>1, <1>6, <2>1
  <2>7. d \in CallbackRecords   BY <1>2, <2>1
  <2>8. Orderly(d, rest, subs \ {f}, seen)
    BY <1>2, <1>5, <2>2, <2>3, <2>4, <2>5, <2>6, <2>7 DEF Orderly
  <2> QED  BY <2>8 DEF d, rest
<1>7. CASE ~c.off
  <2>1. /\ d \in CallbackRecords /\ d.list = kept
        /\ d.flags = c.flags /\ d.off = c.off /\ d.memory = c.memory /\ d.args = c.args
        /\ d.current = c.current /\ d.phase = c.phase /\ d.firing = c.firing
        /\ d.firingStart = c.firingStart
        /\ d.phase = "call" => LoopGoesOn(d, rest)
    <3>1. CASE c.firing
      <4>1. c.phase = "call" /\ LoopGoesOn(c, left)   BY <1>1, <1>7, <3>1
      <4>2. PICK k \in Int : k = c.firingIndex + 1   BY <1>3
      <4>3. /\ c.firingLength = Len(c.list) /\ k \in 0 .. Len(c.list) /\ Behind(left, c.list, k)
        BY <4>1, <4>2 DEF LoopGoesOn
      <4>4. Min({c.firingLength + 1, Len(c.list)}) = Len(c.list)
        <5>1. c.firingLength + 1 \in Int /\ Len(c.list) \in Int   BY <1>3
        <5>2. Min({c.firingLength + 1, Len(c.list)}) = IF c.firingLength + 1 <= Len(c.list)
                                                       THEN c.firingLength + 1 ELSE Len(c.list)
          BY <5>1, LessOfTwo
        <5> QED  BY <1>3, <4>3, <5>2
      <4>5. Min({c.firingIndex, c.firingLength}) = c.firingIndex
        <5>2. Min({c.firingIndex, c.firingLength}) = IF c.firingIndex <= c.firingLength
                                                     THEN c.firingIndex ELSE c.firingLength
          BY <1>3, LessOfTwo
        <5> QED  BY <1>3, <4>2, <4>3, <5>2
      <4>6. Min({c.firingIndex + 1, Len(c.list)}) = k
        <5>2. Min({k, Len(c.list)}) = IF k <= Len(c.list) THEN k ELSE Len(c.list)
          BY <1>3, <4>3, LessOfTwo
        <5> QED  BY <1>3, <4>2, <4>3, <5>2
      <4>7. upTo(c.firingLength) = Len(c.list) - Len(kept)   BY <4>4 DEF Without
      <4>8. upTo(Min({c.firingIndex, c.firingLength})) = k - Len(Spared(c.list, f)[k])
        BY <4>5, <4>6
      <4>9. d = [c EXCEPT !.list = kept, !.firingLength = @ - upTo(c.firingLength),
                          !.firingIndex = @ - upTo(Min({c.firingIndex, c.firingLength}))]
        BY <1>7, <3>1 DEF RemoveFrom
      <4>10. Len(Spared(c.list, f)[k]) \in 0 .. Len(kept) /\ Behind(rest, kept, Len(Spared(c.list, f)[k]))
        <5>1. c.list \in Seq(Fns) /\ left \in Seq(Fns)   BY <1>2, <1>3
        <5>2. k \in 0 .. Len(c.list) /\ Behind(left, c.list, k)   BY <4>3
        <5> HIDE DEF d
        <5> QED  BY <5>1, <5>2, BehindWithout DEF rest, kept
      <4>11. PICK n \in Int : n = Len(Spared(c.list, f)[k])   BY <4>10
      <4>12. Len(kept) \in Nat   BY <1>4
      <4> HIDE DEF kept, upTo, d
      <4>13. /\ c.firingLength - upTo(c.firingLength) = Len(kept)
             /\ c.firingIndex - upTo(Min({c.firingIndex, c.firingLength})) = n - 1
        <5>1. PICK size \in Int : size = Len(c.list)   BY <1>3
        <5>2. size - (size - Len(kept)) = Len(kept)   BY <4>12
        <5>3. c.firingLength - upTo(c.firingLength) = Len(kept)   BY <4>3, <4>7, <5>1, <5>2
        <5>4. c.firingIndex = k - 1 /\ (k - 1) - (k - n) = n - 1   BY <1>3, <4>2
        <5>5. upTo(Min({c.firingIndex, c.firingLength})) = k - n   BY <4>8, <4>11
        <5> QED  BY <5>3, <5>4, <5>5
      <4>14. d = [c EXCEPT !.list = kept, !.firingLength = Len(kept), !.firingIndex = n - 1]
        BY <4>9, <4>13
      <4>15. /\ d \in CallbackRecords /\ d.list = kept
             /\ d.flags = c.flags /\ d.off = c.off /\ d.memory = c.memory /\ d.args = c.args
             /\ d.current = c.current /\ d.phase = c.phase /\ d.firing = c.firing
             /\ d.firingStart = c.firingStart /\ d.firingIndex = n - 1 /\ d.firingLength = Len(kept)
        <5>1. Len(kept) \in Int /\ n - 1 \in Int   BY <4>12
        <5>2. c \in CallbackRecords /\ kept \in Seq(Fns)   BY <1>2, <1>4
        <5> QED  BY <4>14, <5>1, <5>2 DEF CallbackRecords
      <4>16. d.firingIndex + 1 = n   BY <4>15
      <4>17. LoopGoesOn(d, rest)   BY <4>10, <4>11, <4>15, <4>16 DEF LoopGoesOn
      <4> QED  BY <4>15, <4>17
    <3>2. CASE ~c.firing
      <4>1. d = [c EXCEPT !.list = kept]   BY <1>7, <3>2 DEF RemoveFrom
      <4>2. c.phase = "idle"   BY <1>1, <3>2
      <4> HIDE DEF d, kept
      <4> QED  BY <1>2, <1>4, <4>1, <4>2 DEF CallbackRecords
    <3> QED  BY <3>1, <3>2
  <2> HIDE DEF d, kept
  <2>2. Remembers(d)   BY <1>1, <2>1 DEF Remembers
  <2>3. HoldsSubscribed(d, subs \ {f})   BY <1>1, <1>4, <2>1 DEF HoldsSubscribed
  <2>4. ASSUME d.memory > 0, NEW g \in subs \ {f}
        PROVE  Owed(d, rest, g, seen)
    <3>1. Owed(c, left, g, seen)   BY <1>1, <2>1, <2>4
    <3> QED  BY <1>5, <2>1, <2>4, <3>1 DEF Owed
  <2>5. subs \ {f} \subseteq Fns   BY <1>2
  <2>6. /\ (d.firing <=> d.phase # "idle") /\ d.firingStart = 0
        /\ d.phase = "call" => d.current \in Fns /\ (~d.off => LoopGoesOn(d, rest))
    BY <1>1, <2>1
  <2>7. d \in CallbackRecords   BY <2>1
  <2>8. Orderly(d, rest, subs \ {f}, seen)
    BY <1>2, <1>5, <2>2, <2>3, <2>4, <2>5, <2>6, <2>7 DEF Orderly
  <2> QED  BY <2>8 DEF d, rest
<1> QED  BY <1>6, <1>7

\* A list that is off holds nothing and owes nothing.
LEMMA OffOrderly ==
  ASSUME NEW c \in CallbackRecords, NEW seen \in [Fns -> Int], c.off, c.memory = Nothing,
         c.firing <=> c.phase # "idle", c.firingStart = 0, c.phase = "call" => c.current \in Fns
  PROVE  Orderly(c, << >>, {}, seen)
<1>1. << >> \in Seq(Fns)   BY EmptySeq
<1>2. Remembers(c)   BY DEF Remembers, Nothing
<1>3. HoldsSubscribed(c, {})   BY DEF HoldsSubscribed
<1> QED  BY <1>1, <1>2, <1>3 DEF Orderly

\* disable().
LEMMA DisableOrderly ==
  ASSUME NEW c \in CallbackRecords, NEW seen \in [Fns -> Int],
         c.firing <=> c.phase # "idle", c.firingStart = 0, c.phase = "call" => c.current \in Fns
  PROVE  Disable(c).off /\ Orderly(Disable(c), << >>, {}, seen)
<1> DEFINE d == Disable(c)
<1>1. << >> \in Seq(Fns) /\ << >> \in Seq(Nat \ {0}) /\ Nothing \in Int   BY EmptySeq DEF Nothing
<1>2. d = [c EXCEPT !.off = TRUE, !.list = << >>, !.locked = TRUE, !.stack = << >>, !.memory = Nothing]
  BY DEF Disable
<1> HIDE DEF d
<1>3. /\ d \in CallbackRecords /\ d.off /\ d.memory = Nothing /\ d.firing = c.firing
      /\ d.phase = c.phase /\ d.firingStart = c.firingStart /\ d.current = c.current
  BY <1>1, <1>2 DEF CallbackRecords
<1>4. Orderly(d, << >>, {}, seen)   BY <1>3, OffOrderly
<1> QED  BY <1>3, <1>4 DEF d

\* disable() and lock().
LEMMA TurnOffOrderly ==
  ASSUME NEW c, NEW left, NEW subs, NEW seen, Orderly(c, left, subs, seen),
         NEW d \in {Disable(c), Lock(c)}
  PROVE  Orderly(d, IF d.off THEN << >> ELSE left, IF d.off THEN {} ELSE subs, seen)
<1>1. /\ c \in CallbackRecords /\ left \in Seq(Fns) /\ subs \subseteq Fns /\ seen \in [Fns -> Int]
      /\ (c.firing <=> c.phase # "idle") /\ c.firingStart = 0
      /\ Remembers(c) /\ HoldsSubscribed(c, subs)
      /\ c.phase = "call" => c.current \in Fns /\ (~c.off => LoopGoesOn(c, left))
      /\ c.memory > 0 => \A g \in subs : Owed(c, left, g, seen)
  BY DEF Orderly
<1>2. c \in CallbackRecords /\ left \in Seq(Fns) /\ subs \subseteq Fns /\ seen \in [Fns -> Int]   BY <1>1
<1>3. CASE d = Disable(c)
  <2>1. Disable(c).off /\ Orderly(Disable(c), << >>, {}, seen)   BY <1>1, <1>2, DisableOrderly
  <2> QED  BY <1>3, <2>1
<1>4. CASE d # Disable(c)
  <2>1. d = [c EXCEPT !.locked = TRUE, !.stack = << >>]   BY <1>4 DEF Lock
  <2>2. << >> \in Seq(Nat \ {0})   BY EmptySeq
  <2>3. /\ d \in CallbackRecords /\ d.list = c.list
        /\ d.flags = c.flags /\ d.off = c.off /\ d.memory = c.memory /\ d.args = c.args
        /\ d.current = c.current /\ d.phase = c.phase /\ d.firing = c.firing
        /\ d.firingStart = c.firingStart /\ d.firingIndex = c.firingIndex /\ d.firingLength = c.firingLength
    BY <1>2, <2>1, <2>2 DEF CallbackRecords
  <2> DEFINE left2 == IF d.off THEN << >> ELSE left
             subs2 == IF d.off THEN {} ELSE subs
  <2>4. left2 \in Seq(Fns) /\ (~c.off => left2 = left)   BY <1>2, <2>3, EmptySeq
  <2>5. subs2 = subs
    <3>1. HoldsSubscribed(c, subs)   BY <1>1
    <3> QED  BY <2>3, <3>1 DEF HoldsSubscribed
  <2> HIDE DEF left2, subs2
  <2>6. Remembers(d)   BY <1>1, <2>3 DEF Remembers
  <2>7. HoldsSubscribed(d, subs)   BY <1>1, <2>3 DEF HoldsSubscribed
  <2>8. d.phase = "call" => d.current \in Fns /\ (~d.off => LoopGoesOn(d, left2))
    BY <1>1, <2>3, <2>4 DEF LoopGoesOn
  <2>9. ASSUME d.memory > 0, NEW g \in subs
        PROVE  Owed(d, left2, g, seen)
    <3>1. HoldsSubscribed(c, subs)   BY <1>1
    <3>2. ~c.off   BY <2>9, <3>1 DEF HoldsSubscribed
    <3>3. Owed(c, left, g, seen)   BY <1>1, <2>3, <2>9
    <3> QED  BY <2>3, <2>4, <3>2, <3>3 DEF Owed
  <2>10. (d.firing <=> d.phase # "idle") /\ d.firingStart = 0   BY <1>1, <2>3
  <2>11. Orderly(d, left2, subs, seen)
    BY <1>2, <2>3, <2>4, <2>6, <2>7, <2>8, <2>9, <2>10 DEF Orderly
  <2>12. Orderly(d, left2, subs2, seen)   BY <2>5, <2>11
  <2> QED  BY <2>12 DEF left2, subs2
<1> QED  BY <1>3, <1>4

\* empty() of a list at rest.
LEMMA EmptyOrderly ==
  ASSUME NEW c, NEW left, NEW subs, NEW seen, Orderly(c, left, subs, seen), ~c.firing
  PROVE  Orderly(EmptyList(c), << >>, {}, seen)
<1> DEFINE d == EmptyList(c)
<1>1. /\ c \in CallbackRecords /\ seen \in [Fns -> Int] /\ c.phase = "idle" /\ c.firingStart = 0
      /\ Remembers(c)
  BY DEF Orderly
<1>2. << >> \in Seq(Fns)   BY EmptySeq
<1>3. d = [c EXCEPT !.list = << >>, !.off = FALSE]   BY DEF EmptyList
<1> HIDE DEF d
<1>4. /\ d \in CallbackRecords /\ d.list = << >> /\ ~d.off /\ d.firing = c.firing
      /\ d.phase = c.phase /\ d.firingStart = c.firingStart
      /\ d.flags = c.flags /\ d.memory = c.memory
  BY <1>1, <1>2, <1>3 DEF CallbackRecords
<1>5. Remembers(d)   BY <1>1, <1>4 DEF Remembers
<1>6. HoldsSubscribed(d, {})
  <2>1. Range(<< >>) = {<< >>[i] : i \in 1 .. Len(<< >>)}   BY <1>2, RangeEquality
  <2>2. Range(<< >>) = {}   BY <2>1
  <2> QED  BY <1>4, <2>2 DEF HoldsSubscribed
<1>7. Orderly(d, << >>, {}, seen)   BY <1>1, <1>2, <1>4, <1>5, <1>6 DEF Orderly
<1> QED  BY <1>7 DEF d

\* A callback that returns has had what the list was fired with, and the next in
\* line is now running.
LEMMA ReturnOrderly ==
  ASSUME NEW c, NEW left, NEW subs, NEW seen, Orderly(c, left, subs, seen), c.phase = "call",
         NEW result \in BOOLEAN, NEW left2,
         left2 = IF Return(c, result).phase = "call" /\ left # << >> THEN Tail(left) ELSE << >>
  PROVE  /\ Return(c, result).phase # "idle"
         /\ Orderly(Return(c, result), left2, subs, [seen EXCEPT ![c.current] = c.args])
<1> DEFINE d == Return(c, result)
           seen2 == [seen EXCEPT ![c.current] = c.args]
<1>1. /\ c \in CallbackRecords /\ left \in Seq(Fns) /\ subs \subseteq Fns /\ seen \in [Fns -> Int]
      /\ (c.firing <=> c.phase # "idle") /\ c.firingStart = 0
      /\ Remembers(c) /\ HoldsSubscribed(c, subs)
      /\ c.phase = "call" => c.current \in Fns /\ (~c.off => LoopGoesOn(c, left))
      /\ c.memory > 0 => \A g \in subs : Owed(c, left, g, seen)
  BY DEF Orderly
<1>2. /\ c \in CallbackRecords /\ left \in Seq(Fns) /\ subs \subseteq Fns /\ seen \in [Fns -> Int]
      /\ c.firing /\ c.firingStart = 0 /\ c.current \in Fns
  BY <1>1
<1>3. /\ c.args \in Int /\ c.firingIndex \in Int /\ c.list \in Seq(Fns) /\ Len(c.list) \in Nat
  <2>1. c.args \in Int /\ c.firingIndex \in Int /\ c.list \in Seq(Fns)   BY <1>2 DEF CallbackRecords
  <2> QED  BY <2>1
<1>4. /\ seen2 \in [Fns -> Int] /\ seen2[c.current] = c.args
      /\ \A g \in Fns \ {c.current} : seen2[g] = seen[g]
  BY <1>2, <1>3
<1>5. << >> \in Seq(Fns)   BY EmptySeq
<1>6. left2 = IF d.phase = "call" /\ left # << >> THEN Tail(left) ELSE << >>   OBVIOUS
<1> HIDE DEF seen2
<1>7. CASE ~result /\ "stopOnFalse" \in c.flags
  <2>1. d = [c EXCEPT !.memory = Halted, !.phase = "end"]   BY <1>7 DEF Return
  <2> HIDE DEF d
  <2>2. Halted \in Int /\ ~(Halted > 0) /\ Halted # Nothing   BY DEF Halted, Nothing
  <2>3. /\ d \in CallbackRecords /\ d.list = c.list /\ d.flags = c.flags /\ d.off = c.off
        /\ d.memory = Halted /\ d.phase = "end" /\ d.firing = c.firing /\ d.firingStart = c.firingStart
    BY <1>2, <2>1, <2>2 DEF CallbackRecords
  <2>4. left2 = << >>   BY <1>6, <2>3
  <2>5. HoldsSubscribed(d, subs)
    <3>1. HoldsSubscribed(c, subs)   BY <1>1
    <3> QED  BY <2>2, <2>3, <3>1 DEF HoldsSubscribed
  <2>6. Remembers(d)   BY <2>2, <2>3 DEF Remembers
  <2>7. Orderly(d, left2, subs, seen2)
    BY <1>2, <1>4, <1>5, <2>2, <2>3, <2>4, <2>5, <2>6 DEF Orderly
  <2> QED  BY <2>3, <2>7 DEF d, seen2
<1>8. CASE ~(~result /\ "stopOnFalse" \in c.flags)
  <2> DEFINE b == [c EXCEPT !.firingIndex = @ + 1]
  <2>1. d = LoopTest(b)   BY <1>8 DEF Return
  <2>2. /\ b \in CallbackRecords /\ b.firingIndex = c.firingIndex + 1
        /\ b.list = c.list /\ b.flags = c.flags /\ b.off = c.off /\ b.memory = c.memory
        /\ b.args = c.args /\ b.firing = c.firing /\ b.firingStart = c.firingStart
        /\ b.firingLength = c.firingLength
    <3>1. c \in CallbackRecords /\ c.firingIndex + 1 \in Int   BY <1>2, <1>3
    <3> QED  BY <3>1 DEF CallbackRecords
  <2>3. PICK k \in Int : k = c.firingIndex + 1   BY <1>3
  <2>4. ~c.off => c.firingLength = Len(c.list) /\ k \in 0 .. Len(c.list) /\ Behind(left, c.list, k)
    BY <1>1, <1>2, <2>3 DEF LoopGoesOn
  <2> HIDE DEF b, d
  <2>5. b.off \/ (b.firingLength = Len(b.list) /\ b.firingIndex \in Nat)   BY <1>3, <2>2, <2>3, <2>4
  <2>6. /\ d \in CallbackRecords
        /\ d.flags = b.flags /\ d.list = b.list /\ d.off = b.off
        /\ d.memory = b.memory /\ d.args = b.args
        /\ d.firing = b.firing /\ d.firingStart = b.firingStart
        /\ d.firingLength = b.firingLength /\ d.firingIndex = b.firingIndex
        /\ \/ (b.off \/ b.firingIndex >= b.firingLength) /\ d.phase = "end"
           \/ /\ ~b.off /\ b.firingIndex < Len(b.list) /\ d.phase = "call"
              /\ d.current = b.list[b.firingIndex + 1] /\ d.current \in Fns
    BY <2>1, <2>2, <2>5, LoopTestIs
  <2>7. /\ d \in CallbackRecords
        /\ d.flags = c.flags /\ d.list = c.list /\ d.off = c.off
        /\ d.memory = c.memory /\ d.args = c.args
        /\ d.firing = c.firing /\ d.firingStart = c.firingStart
        /\ d.firingLength = c.firingLength /\ d.firingIndex = k
    BY <2>2, <2>3, <2>6
  <2>8. \/ (c.off \/ k >= c.firingLength) /\ d.phase = "end"
        \/ /\ ~c.off /\ k < Len(c.list) /\ d.phase = "call"
           /\ d.current = c.list[k + 1] /\ d.current \in Fns
    BY <2>2, <2>3, <2>6
  <2>9. HoldsSubscribed(d, subs)
    <3>1. HoldsSubscribed(c, subs)   BY <1>1
    <3> QED  BY <2>7, <3>1 DEF HoldsSubscribed
  <2>10. d.phase # "idle"   BY <2>8
  <2>11. Remembers(c)   BY <1>1
  <2>12. Remembers(d)   BY <2>7, <2>10, <2>11 DEF Remembers
  <2>13. c.memory > 0 => c.args = c.memory   BY <2>11 DEF Remembers
  <2>14. CASE d.phase = "end"
    <3>1. left2 = << >>   BY <1>6, <2>14
    <3>2. ASSUME d.memory > 0, NEW g \in subs
          PROVE  Owed(d, left2, g, seen2)
      <4>1. HoldsSubscribed(c, subs)   BY <1>1
      <4>2. ~c.off   BY <3>2, <4>1 DEF HoldsSubscribed
      <4>3. k = Len(c.list)
        <5>1. c.firingLength = Len(c.list) /\ k \in 0 .. Len(c.list)   BY <2>4, <4>2
        <5>2. k >= c.firingLength   BY <2>8, <2>14, <4>2
        <5> QED  BY <1>3, <5>1, <5>2
      <4>4. left = << >>
        <5>1. k \in 0 .. Len(c.list) /\ Behind(left, c.list, k)   BY <2>4, <4>2
        <5>2. k = Len(c.list) <=> left = << >>   BY <1>2, <1>3, <5>1, BehindTail
        <5> QED  BY <4>3, <5>2
      <4>5. Range(left) = {}
        <5>1. Range(left) = {left[i] : i \in 1 .. Len(left)}   BY <1>2, RangeEquality
        <5> QED  BY <4>4, <5>1
      <4>6. Owed(c, left, g, seen)   BY <1>1, <2>7, <3>2
      <4>7. seen[g] = c.memory \/ g = c.current   BY <4>5, <4>6 DEF Owed
      <4>8. g \in Fns /\ c.args = c.memory   BY <1>2, <2>7, <2>13, <3>2
      <4>9. seen2[g] = d.memory   BY <1>4, <2>7, <4>7, <4>8
      <4> QED  BY <4>9 DEF Owed
    <3>3. Orderly(d, left2, subs, seen2)
      BY <1>2, <1>4, <1>5, <2>7, <2>9, <2>12, <2>14, <3>1, <3>2 DEF Orderly
    <3> QED  BY <2>10, <3>3 DEF d, seen2
  <2>15. CASE d.phase = "call"
    <3>1. /\ ~c.off /\ k < Len(c.list) /\ d.current = c.list[k + 1] /\ d.current \in Fns
          /\ k \in 0 .. Len(c.list) /\ Behind(left, c.list, k) /\ c.firingLength = Len(c.list)
      BY <2>4, <2>8, <2>15
    <3>2. /\ k = Len(c.list) <=> left = << >>
          /\ Tail(left) \in Seq(Fns) /\ Behind(Tail(left), c.list, k + 1)
          /\ Range(left) = {c.list[k + 1]} \union Range(Tail(left))
      BY <1>2, <1>3, <3>1, BehindTail
    <3>3. left2 = Tail(left)   BY <1>3, <1>6, <2>15, <3>1, <3>2
    <3>4. LoopGoesOn(d, left2)
      <4>1. k + 1 \in 0 .. Len(c.list)   BY <1>3, <3>1
      <4> QED  BY <2>7, <3>1, <3>2, <3>3, <4>1 DEF LoopGoesOn
    <3>5. ASSUME d.memory > 0, NEW g \in subs
          PROVE  Owed(d, left2, g, seen2)
      <4>1. Owed(c, left, g, seen)   BY <1>1, <2>7, <3>5
      <4>2. seen[g] = c.memory \/ g = c.current \/ g = d.current \/ g \in Range(left2)
        BY <3>1, <3>2, <3>3, <4>1 DEF Owed
      <4>3. g \in Fns /\ c.args = c.memory   BY <1>2, <2>7, <2>13, <3>5
      <4>4. (seen[g] = c.memory \/ g = c.current) => seen2[g] = d.memory   BY <1>4, <2>7, <4>3
      <4> QED  BY <2>15, <4>2, <4>4 DEF Owed
    <3>6. left2 \in Seq(Fns)   BY <3>2, <3>3
    <3>7. Orderly(d, left2, subs, seen2)
      BY <1>2, <1>4, <2>7, <2>9, <2>12, <2>15, <3>1, <3>4, <3>5, <3>6 DEF Orderly
    <3> QED  BY <2>10, <3>7 DEF d, seen2
  <2> QED  BY <2>8, <2>14, <2>15
<1> QED  BY <1>7, <1>8

\* The rest of fire() leaves a list at rest, off, or in the next of its firings.
LEMMA FinishOrderly ==
  ASSUME NEW c, NEW left, NEW subs, NEW seen, Orderly(c, left, subs, seen), c.phase = "end", NEW left2,
         left2 = IF Finish(c).phase = "call" THEN Tail(Finish(c).list) ELSE << >>
  PROVE  Orderly(Finish(c), left2, IF Finish(c).off THEN {} ELSE subs, seen)
<1> DEFINE d == Finish(c)
           b == [c EXCEPT !.firing = FALSE, !.phase = "idle"]
           subs2 == IF d.off THEN {} ELSE subs
<1>1. /\ c \in CallbackRecords /\ left \in Seq(Fns) /\ subs \subseteq Fns /\ seen \in [Fns -> Int]
      /\ (c.firing <=> c.phase # "idle") /\ c.firingStart = 0
      /\ Remembers(c) /\ HoldsSubscribed(c, subs)
      /\ c.phase = "call" => c.current \in Fns /\ (~c.off => LoopGoesOn(c, left))
      /\ c.memory > 0 => \A g \in subs : Owed(c, left, g, seen)
  BY DEF Orderly
<1>2. /\ c \in CallbackRecords /\ subs \in SUBSET Fns /\ seen \in [Fns -> Int] /\ c.firingStart = 0
      /\ Remembers(c) /\ HoldsSubscribed(c, subs)
  BY <1>1
<1>3. /\ b \in CallbackRecords /\ b.firing = FALSE /\ b.phase = "idle" /\ b.list = c.list
      /\ b.flags = c.flags /\ b.off = c.off /\ b.memory = c.memory /\ b.args = c.args
      /\ b.firingStart = 0 /\ b.stack = c.stack
  <2>1. c \in CallbackRecords /\ c.firingStart = 0   BY <1>2
  <2> QED  BY <2>1 DEF CallbackRecords
<1>4. d = CASE ~b.off /\ "once" \notin b.flags /\ b.stack # << >> ->
                 FireWith([b EXCEPT !.stack = Tail(@)], Head(b.stack))
            [] ~b.off /\ "once" \in b.flags /\ b.memory = Halted -> Disable(b)
            [] ~b.off /\ "once" \in b.flags /\ b.memory # Halted -> [b EXCEPT !.list = << >>]
            [] OTHER -> b
  BY <1>3 DEF Finish
<1>5. << >> \in Seq(Fns)   BY EmptySeq
<1>6. ASSUME c.memory > 0, NEW g \in subs PROVE seen[g] = c.memory
  <2>1. Owed(c, left, g, seen) /\ c.phase = "end"   BY <1>1, <1>6
  <2> QED  BY <2>1 DEF Owed
<1>7. left2 = IF d.phase = "call" THEN Tail(d.list) ELSE << >>   OBVIOUS
<1> HIDE DEF b, d
<1>8. CASE ~b.off /\ "once" \notin b.flags /\ b.stack # << >>
  <2> DEFINE a == [b EXCEPT !.stack = Tail(@)]
             v == Head(b.stack)
  <2>1. d = FireWith(a, v)   BY <1>4, <1>8
  <2>2. b.stack \in Seq(Nat \ {0})   BY <1>3 DEF CallbackRecords
  <2>3. v \in Nat \ {0} /\ Tail(b.stack) \in Seq(Nat \ {0})   BY <1>8, <2>2, HeadTailProperties
  <2>4. v \in Int /\ v > 0   BY <2>3
  <2>5. /\ a \in CallbackRecords /\ a.firing = FALSE /\ a.phase = "idle" /\ a.list = c.list
        /\ a.flags = c.flags /\ a.off = c.off /\ a.memory = c.memory /\ a.args = c.args
        /\ a.firingStart = 0
    BY <1>3, <2>3 DEF CallbackRecords
  <2> HIDE DEF a, v
  <2>6. Remembers(a)   BY <1>2, <2>5 DEF Remembers
  <2>7. HoldsSubscribed(a, subs)   BY <1>2, <2>5 DEF HoldsSubscribed
  <2>8. a.memory > 0 => \A f \in subs : seen[f] = a.memory   BY <1>6, <2>5
  <2>9. c.list \in Seq(Fns) /\ a.list = c.list   BY <1>2, <2>5 DEF CallbackRecords
  <2>10. /\ d.list = c.list /\ ~d.off /\ (d.phase = "call" => c.list # << >>)
    <3>1. CASE FireWith(a, v) = a   BY <1>3, <1>8, <2>1, <2>5, <3>1
    <3>2. CASE FireWith(a, v) = FireList(a, v)
      <4>1. 0 \in 0 .. Len(a.list) /\ Len(a.list) \in Nat   BY <2>9
      <4>2. /\ FireList(a, v).list = a.list /\ FireList(a, v).off = a.off
            /\ FireList(a, v).phase = "call" => a.firingStart < Len(a.list)
        BY <2>4, <2>5, <4>1, FireListIs
      <4>3. 0 < Len(a.list) => c.list # << >>   BY <2>9
      <4> QED  BY <1>3, <1>8, <2>1, <2>5, <3>2, <4>2, <4>3
    <3> QED  BY <2>5, <3>1, <3>2 DEF FireWith
  <2>11. left2 \in Seq(Fns) /\ (d.phase = "call" => left2 = SubSeq(d.list, 2, Len(d.list)))
    <3>1. CASE d.phase = "call"
      <4>1. left2 = Tail(c.list) /\ c.list # << >>   BY <1>7, <2>10, <3>1
      <4>2. Tail(c.list) = SubSeq(c.list, 2, Len(c.list)) /\ Tail(c.list) \in Seq(Fns)
        BY <2>9, <4>1, TailIsSubSeq, HeadTailProperties
      <4> QED  BY <2>10, <4>1, <4>2
    <3>2. CASE d.phase # "call"   BY <1>5, <1>7, <3>2
    <3> QED  BY <3>1, <3>2
  <2>12. Orderly(FireWith(a, v), left2, subs, seen)
    BY <1>2, <2>1, <2>4, <2>5, <2>6, <2>7, <2>8, <2>11, FireWithOrderly
  <2>13. subs2 = subs   BY <2>10
  <2>14. Orderly(d, left2, subs2, seen)   BY <2>1, <2>12, <2>13
  <2> QED  BY <2>14 DEF d
<1>9. CASE ~b.off /\ "once" \in b.flags /\ b.memory = Halted
  <2>1. d = Disable(b)   BY <1>4, <1>9
  <2>2. Disable(b).off /\ Orderly(Disable(b), << >>, {}, seen)   BY <1>2, <1>3, DisableOrderly
  <2>3. subs2 = {}   BY <2>1, <2>2
  <2>4. left2 = << >>
    <3>1. Disable(b).phase = "idle"   BY <1>3 DEF Disable, CallbackRecords
    <3> QED  BY <1>7, <2>1, <3>1
  <2>5. Orderly(d, left2, subs2, seen)   BY <2>1, <2>2, <2>3, <2>4
  <2> QED  BY <2>5 DEF d
<1>10. CASE ~b.off /\ "once" \in b.flags /\ b.memory # Halted
  <2>1. d = [b EXCEPT !.list = << >>]   BY <1>4, <1>10
  <2>2. /\ d \in CallbackRecords /\ d.list = << >> /\ ~d.off /\ d.firing = FALSE
        /\ d.phase = "idle" /\ d.firingStart = 0 /\ d.flags = c.flags /\ d.memory = c.memory
    BY <1>3, <1>5, <1>10, <2>1 DEF CallbackRecords
  <2>3. left2 = << >> /\ subs2 = subs   BY <1>7, <2>2
  <2>4. Remembers(d)   BY <1>2, <2>2 DEF Remembers
  <2>5. HoldsSubscribed(d, subs)
    <3>1. Range(<< >>) = {<< >>[i] : i \in 1 .. Len(<< >>)}   BY <1>5, RangeEquality
    <3>2. Range(<< >>) = {}   BY <3>1
    <3>3. ~c.off /\ "once" \in d.flags   BY <1>3, <1>10, <2>2
    <3>4. c.memory # Nothing   BY <1>1, <3>3 DEF Remembers
    <3> QED  BY <2>2, <3>2, <3>3, <3>4 DEF HoldsSubscribed
  <2>6. d.memory > 0 => \A g \in subs : Owed(d, left2, g, seen)   BY <1>6, <2>2 DEF Owed
  <2>7. Orderly(d, left2, subs, seen)
    BY <1>2, <1>5, <2>2, <2>3, <2>4, <2>5, <2>6 DEF Orderly
  <2>8. Orderly(d, left2, subs2, seen)   BY <2>3, <2>7
  <2> QED  BY <2>8 DEF d
<1>11. CASE b.off \/ ("once" \notin b.flags /\ b.stack = << >>)
  <2>1. d = b   BY <1>4, <1>11
  <2>2. left2 = << >>   BY <1>3, <1>7, <2>1
  <2>3. subs2 = subs   BY <1>2, <1>3, <2>1 DEF HoldsSubscribed
  <2>4. Remembers(b)   BY <1>2, <1>3 DEF Remembers
  <2>5. HoldsSubscribed(b, subs)   BY <1>2, <1>3 DEF HoldsSubscribed
  <2>6. b.memory > 0 => \A g \in subs : Owed(b, left2, g, seen)   BY <1>3, <1>6 DEF Owed
  <2>7. Orderly(b, left2, subs, seen)
    BY <1>2, <1>3, <1>5, <2>2, <2>4, <2>5, <2>6 DEF Orderly
  <2>8. Orderly(d, left2, subs2, seen)   BY <2>1, <2>3, <2>7
  <2> QED  BY <2>8 DEF d
<1> QED  BY <1>8, <1>9, <1>10, <1>11

\* A list keeps order until it is emptied inside its loop.
CallbacksInv ==
    /\ ops \in Nat
    /\ ~emptied => Orderly(cb, todo, subscribed, got)

\* A new list is orderly.
LEMMA CallbacksInitInv == CallbacksInit => CallbacksInv
<1> SUFFICES ASSUME CallbacksInit PROVE CallbacksInv
  OBVIOUS
<1>1. PICK flags \in FlagSets : cb = NewList(flags)   BY DEF CallbacksInit
<1>2. flags \in SUBSET CallbackFlags   BY <1>1, CallbacksAssumption DEF CallbackFlags
<1>3. << >> \in Seq(Fns) /\ << >> \in Seq(Nat \ {0})   BY EmptySeq
<1>4. /\ cb \in CallbackRecords /\ cb.list = << >> /\ ~cb.off /\ cb.memory = 0
      /\ cb.phase = "idle" /\ ~cb.firing /\ cb.firingStart = 0
  BY <1>1, <1>2, <1>3 DEF NewList, Nothing, CallbackRecords
<1>5. /\ ops = 0 /\ emptied = FALSE /\ todo = << >> /\ subscribed = {}
      /\ got \in [Fns -> Int]
  BY DEF CallbacksInit, Nothing
<1>6. Remembers(cb)   BY <1>4 DEF Remembers
<1>7. HoldsSubscribed(cb, {})
  <2>1. Range(<< >>) = {<< >>[i] : i \in 1 .. Len(<< >>)}   BY <1>3, RangeEquality
  <2>2. Range(<< >>) = {}   BY <2>1
  <2> QED  BY <1>4, <2>2 DEF HoldsSubscribed
<1>8. Orderly(cb, << >>, {}, got)   BY <1>3, <1>4, <1>5, <1>6, <1>7 DEF Orderly
<1> QED  BY <1>5, <1>8 DEF CallbacksInv

\* Every method and every end of a callback keeps it so.
LEMMA CallbacksStep == CallbacksInv /\ [CallbacksNext]_cbVars => CallbacksInv'
<1> SUFFICES ASSUME CallbacksInv, [CallbacksNext]_cbVars
             PROVE  CallbacksInv'
  OBVIOUS
<1>1. /\ ops \in Nat
      /\ ~emptied => Orderly(cb, todo, subscribed, got)
  BY DEF CallbacksInv
<1>2. ASSUME NEW f \in Fns, AddCallback(f) PROVE CallbacksInv'
  <2>1. /\ cb.phase \in {"idle", "call"} /\ ops' = ops + 1 /\ cb' = AddTo(cb, f)
        /\ subscribed' = (IF cb.off THEN subscribed ELSE subscribed \union {f})
        /\ got' = got /\ emptied' = emptied
        /\ todo' = CASE cb'.phase # "idle" /\ cb.phase = "idle" ->
                          SubSeq(cb'.list, cb'.firingIndex + 2, Len(cb'.list))
                     [] Len(cb'.list) > Len(cb.list) /\ cb.phase = "call" -> Append(todo, f)
                     [] OTHER -> todo
    BY <1>2 DEF AddCallback, CallbackTurn, Begins, Started
  <2>2. ASSUME ~emptied PROVE Orderly(cb', todo', subscribed', got')
    <3>1. Orderly(cb, todo, subscribed, got)   BY <1>1, <2>2
    <3> DEFINE left2 == CASE AddTo(cb, f).phase # "idle" /\ cb.phase = "idle" ->
                               SubSeq(AddTo(cb, f).list, AddTo(cb, f).firingIndex + 2, Len(AddTo(cb, f).list))
                          [] Len(AddTo(cb, f).list) > Len(cb.list) /\ cb.phase = "call" -> Append(todo, f)
                          [] OTHER -> todo
    <3>2. todo' = left2   BY <2>1
    <3>3. Orderly(AddTo(cb, f), left2, IF cb.off THEN subscribed ELSE subscribed \union {f}, got)
      BY <2>1, <3>1, AddOrderly
    <3> HIDE DEF left2
    <3> QED  BY <2>1, <3>2, <3>3
  <2> QED  BY <1>1, <2>1, <2>2 DEF CallbacksInv
<1>3. ASSUME NEW f \in Fns, RemoveCallback(f) PROVE CallbacksInv'
  <2>1. /\ cb.phase \in {"idle", "call"} /\ ops' = ops + 1 /\ cb' = RemoveFrom(cb, f)
        /\ subscribed' = subscribed \ {f} /\ got' = got /\ emptied' = emptied
        /\ todo' = Without(todo, f)
    BY <1>3 DEF RemoveCallback, CallbackTurn
  <2>2. ASSUME ~emptied PROVE Orderly(cb', todo', subscribed', got')
    <3>1. Orderly(cb, todo, subscribed, got)   BY <1>1, <2>2
    <3>2. Orderly(RemoveFrom(cb, f), Without(todo, f), subscribed \ {f}, got)
      BY <2>1, <3>1, RemoveOrderly
    <3> QED  BY <2>1, <3>2
  <2> QED  BY <1>1, <2>1, <2>2 DEF CallbacksInv
<1>4. CASE EmptyCallbacks
  <2>1. /\ ops' = ops + 1 /\ cb' = EmptyList(cb) /\ subscribed' = {} /\ todo' = << >>
        /\ got' = got /\ emptied' = (emptied \/ cb.firing)
    BY <1>4 DEF EmptyCallbacks, CallbackTurn
  <2>2. ASSUME ~emptied, ~cb.firing PROVE Orderly(cb', todo', subscribed', got')
    <3>1. Orderly(cb, todo, subscribed, got)   BY <1>1, <2>2
    <3>2. Orderly(EmptyList(cb), << >>, {}, got)   BY <2>2, <3>1, EmptyOrderly
    <3> QED  BY <2>1, <3>2
  <2>3. ~emptied' => ~emptied /\ ~cb.firing
    <3>1. emptied' = (emptied \/ cb.firing)   BY <2>1
    <3> QED  BY <3>1, Zenon
  <2>4. ops' \in Nat   BY <1>1, <2>1
  <2> QED  BY <2>2, <2>3, <2>4 DEF CallbacksInv
<1>5. CASE FireCallbacks
  <2>1. /\ cb.phase \in {"idle", "call"} /\ ops' = ops + 1 /\ cb' = FireWith(cb, ops + 1)
        /\ subscribed' = subscribed /\ got' = got /\ emptied' = emptied
        /\ todo' = IF cb'.phase # "idle" /\ cb.phase = "idle"
                   THEN SubSeq(cb'.list, cb'.firingIndex + 2, Len(cb'.list)) ELSE todo
    BY <1>5 DEF FireCallbacks, CallbackTurn, Begins, Started
  <2>2. ASSUME ~emptied PROVE Orderly(cb', todo', subscribed', got')
    <3>1. Orderly(cb, todo, subscribed, got)   BY <1>1, <2>2
    <3> DEFINE v == ops + 1
               left2 == IF FireWith(cb, v).phase # "idle" /\ cb.phase = "idle"
                        THEN SubSeq(FireWith(cb, v).list, FireWith(cb, v).firingIndex + 2, Len(FireWith(cb, v).list))
                        ELSE todo
    <3>2. v \in Int /\ v > 0   BY <1>1
    <3>3. todo' = left2   BY <2>1
    <3>4. cb' = FireWith(cb, v)   BY <2>1
    <3> HIDE DEF v
    <3>5. Orderly(FireWith(cb, v), left2, subscribed, got)   BY <2>1, <3>1, <3>2, FireOrderly
    <3> HIDE DEF left2
    <3> QED  BY <2>1, <3>3, <3>4, <3>5
  <2> QED  BY <1>1, <2>1, <2>2 DEF CallbacksInv
<1>6. CASE TurnOff
  <2>1. /\ ops' = ops + 1 /\ cb' \in {Disable(cb), Lock(cb)} /\ got' = got /\ emptied' = emptied
        /\ IF cb'.off THEN todo' = << >> /\ subscribed' = {}
                      ELSE todo' = todo /\ subscribed' = subscribed
    BY <1>6 DEF TurnOff, CallbackTurn
  <2>2. ASSUME ~emptied PROVE Orderly(cb', todo', subscribed', got')
    <3>1. Orderly(cb, todo, subscribed, got)   BY <1>1, <2>2
    <3>2. Orderly(cb', IF cb'.off THEN << >> ELSE todo, IF cb'.off THEN {} ELSE subscribed, got)
      BY <2>1, <3>1, TurnOffOrderly
    <3> QED  BY <2>1, <3>2
  <2> QED  BY <1>1, <2>1, <2>2 DEF CallbacksInv
<1>7. CASE Returns
  <2>1. PICK result \in BOOLEAN : cb' = Return(cb, result)   BY <1>7 DEF Returns
  <2>2. /\ cb.phase = "call" /\ got' = [got EXCEPT ![cb.current] = cb.args]
        /\ todo' = (IF cb'.phase = "call" /\ todo # << >> THEN Tail(todo) ELSE << >>)
        /\ emptied' = (emptied \/ cb'.phase = "idle") /\ ops' = ops /\ subscribed' = subscribed
    BY <1>7 DEF Returns, Ran
  <2>3. ASSUME ~emptied PROVE Orderly(cb', todo', subscribed', got') /\ cb'.phase # "idle"
    <3>1. Orderly(cb, todo, subscribed, got)   BY <1>1, <2>3
    <3> DEFINE left2 == IF Return(cb, result).phase = "call" /\ todo # << >> THEN Tail(todo) ELSE << >>
    <3>2. todo' = left2   BY <2>1, <2>2
    <3>3. /\ Return(cb, result).phase # "idle"
          /\ Orderly(Return(cb, result), left2, subscribed, [got EXCEPT ![cb.current] = cb.args])
      BY <2>2, <3>1, ReturnOrderly
    <3> HIDE DEF left2
    <3> QED  BY <2>1, <2>2, <3>2, <3>3
  <2> QED  BY <1>1, <2>2, <2>3 DEF CallbacksInv
<1>8. CASE Throws   BY <1>1, <1>8 DEF Throws, CallbacksInv
<1>9. CASE FinishFire
  <2>1. /\ cb.phase = "end" /\ cb' = Finish(cb) /\ got' = got /\ emptied' = emptied /\ ops' = ops
        /\ todo' = (IF cb'.phase = "call" THEN Tail(cb'.list) ELSE << >>)
        /\ subscribed' = (IF cb'.off THEN {} ELSE subscribed)
    BY <1>9 DEF FinishFire
  <2>2. ASSUME ~emptied PROVE Orderly(cb', todo', subscribed', got')
    <3>1. Orderly(cb, todo, subscribed, got)   BY <1>1, <2>2
    <3> DEFINE left2 == IF Finish(cb).phase = "call" THEN Tail(Finish(cb).list) ELSE << >>
    <3>2. todo' = left2   BY <2>1
    <3>3. Orderly(Finish(cb), left2, IF Finish(cb).off THEN {} ELSE subscribed, got)
      BY <2>1, <3>1, FinishOrderly
    <3> HIDE DEF left2
    <3> QED  BY <2>1, <3>2, <3>3
  <2> QED  BY <1>1, <2>1, <2>2 DEF CallbacksInv
<1>10. CASE UNCHANGED cbVars   BY <1>1, <1>10 DEF cbVars, CallbacksInv
<1> QED  BY <1>2, <1>3, <1>4, <1>5, <1>6, <1>7, <1>8, <1>9, <1>10 DEF CallbacksNext

\* A list is orderly as long as it is not emptied or left by an exception inside its
\* loop: the loop goes through what is left, whoever is subscribed has had the last
\* value or will have it in this firing (jquery-1.7.2.js 989-1199).
THEOREM CallbacksInvariance == CallbacksSpec => []CallbacksInv
<1> QED  BY CallbacksInitInv, CallbacksStep, PTL DEF CallbacksSpec

\* What an orderly list promises.
LEMMA CallbacksInvImplies == CallbacksInv => CalledAsPromised
<1> SUFFICES ASSUME CallbacksInv, ~emptied PROVE CalledAsPromised
  BY DEF CalledAsPromised, NothingSkipped, LatestForAll
<1>1. /\ cb \in CallbackRecords /\ todo \in Seq(Fns)
      /\ cb.phase = "call" => cb.current \in Fns /\ (~cb.off => LoopGoesOn(cb, todo))
      /\ cb.memory > 0 => \A g \in subscribed : Owed(cb, todo, g, got)
  BY DEF CallbacksInv, Orderly
<1>2. ASSUME cb.phase = "call", ~cb.off
      PROVE  cb.firingLength <= Len(cb.list) /\ todo = SubSeq(cb.list, cb.firingIndex + 2, cb.firingLength)
  <2>1. cb.list \in Seq(Fns) /\ cb.firingIndex \in Int   BY <1>1 DEF CallbackRecords
  <2>2. PICK k \in Int : k = cb.firingIndex + 1   BY <2>1
  <2>3. cb.firingLength = Len(cb.list) /\ k \in 0 .. Len(cb.list) /\ Behind(todo, cb.list, k)
    BY <1>1, <1>2, <2>2 DEF LoopGoesOn
  <2>4. todo = SubSeq(cb.list, k + 1, Len(cb.list))   BY <1>1, <2>1, <2>3, BehindSubSeq
  <2>5. k + 1 = cb.firingIndex + 2 /\ Len(cb.list) <= Len(cb.list)   BY <2>1, <2>2
  <2> QED  BY <2>3, <2>4, <2>5
<1>3. ASSUME cb.phase = "idle", cb.memory > 0, NEW f \in subscribed
      PROVE  got[f] = cb.memory
  <2>1. Owed(cb, todo, f, got)   BY <1>1, <1>3
  <2> QED  BY <1>3, <2>1 DEF Owed
<1> QED  BY <1>2, <1>3 DEF CalledAsPromised, NothingSkipped, LatestForAll

\* No callback is skipped and none is run twice in a firing, whatever callbacks do to
\* the list, and a list with memory at rest owes its subscribers nothing.
THEOREM CallbacksCalledAsPromised == CallbacksSpec => []CalledAsPromised
<1> QED  BY CallbacksInvariance, CallbacksInvImplies, PTL

=============================================================================
