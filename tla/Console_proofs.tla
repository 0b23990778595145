--------------------------- MODULE Console_proofs ---------------------------
(***************************************************************************)
(* Proofs about the pages of the console, LSGiViewer and SettingsPage, for *)
(* every number of starts, requests, iterations and files.                 *)
(*                                                                         *)
(* Both pages keep what they have sent in a sequence, from which an answer *)
(* may take any element: an invariant says of each request in flight what  *)
(* its answer may find on the page by then.                                *)
(***************************************************************************)
EXTENDS LSGiViewer, SettingsPage, SequenceTheorems, FiniteSetTheorems, TLAPS

-----------------------------------------------------------------------------
(***************************************************************************)
(* Requests in flight                                                      *)
(***************************************************************************)
\* Where what is the k-th element without the i-th was before.
Before(i, k) == IF k < i THEN k ELSE k + 1

\* RemoveAt takes one element away and keeps the others in their order.
LEMMA Removed ==
  ASSUME NEW S, NEW s \in Seq(S), NEW i \in 1 .. Len(s)
  PROVE  /\ RemoveAt(s, i) \in Seq(S)
         /\ Len(RemoveAt(s, i)) = Len(s) - 1
         /\ \A k \in 1 .. Len(s) - 1 : RemoveAt(s, i)[k] = s[Before(i, k)]
<1> DEFINE a == SubSeq(s, 1, i - 1)
           b == SubSeq(s, i + 1, Len(s))
<1>1. /\ a \in Seq(S) /\ Len(a) = i - 1
      /\ \A k \in 1 .. i - 1 : a[k] = s[k]
  <2>1. \A k \in 1 .. i - 1 : s[k] \in S
    OBVIOUS
  <2> QED  BY <2>1, SubSeqProperties
<1>2. /\ b \in Seq(S) /\ Len(b) = Len(s) - i
      /\ \A k \in 1 .. Len(s) - i : b[k] = s[i + k]
  <2>1. \A k \in i + 1 .. Len(s) : s[k] \in S
    OBVIOUS
  <2> QED  BY <2>1, SubSeqProperties
<1>3. RemoveAt(s, i) = a \o b
  BY DEF RemoveAt
<1> HIDE DEF a, b
<1>4. a \o b \in Seq(S) /\ Len(a \o b) = Len(s) - 1
  BY <1>1, <1>2
<1>5. ASSUME NEW k \in 1 .. Len(s) - 1
      PROVE  (a \o b)[k] = s[Before(i, k)]
  <2>1. CASE k < i
    BY <1>1, <1>2, <2>1 DEF Before
  <2>2. CASE ~(k < i)
    <3>1. (a \o b)[k] = b[k - (i - 1)]
      BY <1>1, <1>2, <2>2
    <3>2. b[k - (i - 1)] = s[k + 1]
      BY <1>2, <2>2
    <3> QED  BY <3>1, <3>2, <2>2 DEF Before
  <2> QED  BY <2>1, <2>2
<1> QED  BY <1>3, <1>4, <1>5

\* The elements kept come from all places but one, each from its own.
LEMMA PlacesKept ==
  ASSUME NEW n \in Nat, NEW i \in 1 .. n
  PROVE  /\ \A k \in 1 .. n - 1 : Before(i, k) \in (1 .. n) \ {i}
         /\ \A j \in (1 .. n) \ {i} : \E k \in 1 .. n - 1 : Before(i, k) = j
         /\ \A k, l \in 1 .. n - 1 : Before(i, k) = Before(i, l) => k = l
         /\ \A k, l \in 1 .. n - 1 : k < l => Before(i, k) < Before(i, l)
<1>1. \A k \in 1 .. n - 1 : Before(i, k) \in (1 .. n) \ {i}
  BY DEF Before
<1>2. ASSUME NEW j \in (1 .. n) \ {i}
      PROVE  \E k \in 1 .. n - 1 : Before(i, k) = j
  <2>1. CASE j < i
    BY <2>1 DEF Before
  <2>2. CASE j > i
    <3>1. j - 1 \in 1 .. n - 1 /\ Before(i, j - 1) = j
      BY <2>2 DEF Before
    <3> QED  BY <3>1
  <2> QED  BY <2>1, <2>2
<1> QED  BY <1>1, <1>2 DEF Before

-----------------------------------------------------------------------------
(***************************************************************************)
(* The settings page                                                       *)
(***************************************************************************)
FileOrNone == Files \union {NoFile}
Contents   == [of : FileOrNone, version : Nat, form : Forms]
Stages     == {"sent", "opened", "success", "error"}
Request    == [kind : {"load", "save"}, file : FileOrNone, content : Contents, stage : Stages]

SettingsType ==
    /\ selected \in FileOrNone /\ showContent \in BOOLEAN /\ jsonFile \in Contents
    /\ requests \in Seq(Request) /\ sent \in Nat
    /\ disk \in [Files -> [content : Contents, junk : BOOLEAN]]
    /\ settingsFaults \in Nat
    /\ damaged \subseteq Files /\ raced \subseteq Files /\ switched \in BOOLEAN
    /\ lastSent \in [Files -> Contents]

\* A request as the buttons and the service leave it.  Only a save has its file open,
\* and what it saves is JSON; a load that succeeds has read a list.
SoundRequest(r) ==
    /\ r.kind = "load" => /\ r.file \in Files /\ r.stage # "opened"
                          /\ r.stage = "success" => r.content.form = "list"
    /\ r.kind = "save" => /\ IsJson(r.content)
                          /\ r.stage \in {"opened", "success"} => r.file \in Files

\* Until its user selects another file with a load in flight, all there is on the page and on
\* its way is about the file selected, and each file holds contents of its own.
OwnRequest(r) ==
    /\ r.kind = "load" => r.file = selected
    /\ r.file \in Files /\ (r.kind = "save" \/ r.stage = "success") => r.content.of = r.file

\* How far the one save of f has got, and what it has made of the file.
Saving(f, r) ==
    /\ r.content = lastSent[f]
    /\ r.stage # "error"
    /\ r.stage = "opened"  => disk[f] = [content |-> Emptied, junk |-> FALSE]
    /\ r.stage = "success" => disk[f] = [content |-> r.content, junk |-> FALSE]

SoundRequests == \A i \in DOMAIN requests : SoundRequest(requests[i])

\* A file without JSON is one that a save has opened and is still to write.
TextIsOpened(f) ==
    f \notin damaged /\ disk[f].content.form = "text" =>
      \E i \in SavesOf(f) : requests[i].stage = "opened"

\* Saves that are never in flight together leave in the file what the last one sent.
SavesInTurn(f) ==
    f \notin raced \union damaged =>
      /\ \A i, j \in SavesOf(f) : i = j
      /\ \A i \in SavesOf(f) : Saving(f, requests[i])
      /\ SavesOf(f) = {} => disk[f] = [content |-> lastSent[f], junk |-> FALSE]

FilesInTurn == \A f \in Files : TextIsOpened(f) /\ SavesInTurn(f)

OwnContents ==
    ~switched => /\ \A i \in DOMAIN requests : OwnRequest(requests[i])
                 /\ showContent => jsonFile.of = selected
                 /\ \A f \in Files : disk[f].content # Emptied => disk[f].content.of = f

SettingsInv == /\ SettingsType /\ SoundRequests /\ OwnContents /\ FilesInTurn

LEMMA EmptiedIsText ==
  /\ Emptied \in Contents /\ Emptied.form = "text"
  /\ \A f \in Files : Original(f) \in Contents /\ Original(f).of = f /\ Original(f).form = "list"
  BY DEF Contents, Emptied, Original, Forms, FileOrNone

LEMMA RequestsInFlight ==
  ASSUME SettingsType
  PROVE  /\ Len(requests) \in Nat /\ DOMAIN requests = 1 .. Len(requests)
         /\ \A i \in DOMAIN requests : requests[i] \in Request
         /\ \A f, i : i \in SavesOf(f) <=> /\ i \in DOMAIN requests
                                           /\ requests[i].kind = "save" /\ requests[i].file = f
  BY DEF SettingsType, SavesOf, InFlight

LEMMA RequestsInFlightNext ==
  ASSUME SettingsType'
  PROVE  /\ Len(requests') \in Nat /\ DOMAIN requests' = 1 .. Len(requests')
         /\ \A i \in DOMAIN requests' : requests'[i] \in Request
         /\ \A f, i : i \in SavesOf(f)' <=> /\ i \in DOMAIN requests'
                                            /\ requests'[i].kind = "save" /\ requests'[i].file = f
  BY DEF SettingsType, SavesOf, InFlight

\* What happens to other files does not matter to f.
LEMMA SameFile ==
  ASSUME NEW f \in Files, TextIsOpened(f) /\ SavesInTurn(f),
         SavesOf(f)' = SavesOf(f), \A i \in SavesOf(f) : requests'[i] = requests[i],
         disk'[f] = disk[f], lastSent'[f] = lastSent[f],
         f \in damaged' <=> f \in damaged, f \in raced' <=> f \in raced
  PROVE  (TextIsOpened(f) /\ SavesInTurn(f))'
<1>1. TextIsOpened(f)'
  BY DEF TextIsOpened
<1>2. ASSUME NEW i \in SavesOf(f), Saving(f, requests[i])
      PROVE  Saving(f, requests[i])'
  BY <1>2 DEF Saving
<1>3. SavesInTurn(f)'
  BY <1>2 DEF SavesInTurn
<1> QED  BY <1>1, <1>3

LEMMA SettingsInitInv ==
  ASSUME SettingsInit
  PROVE  SettingsInv
<1> USE DEF SettingsInit
<1>1. SettingsType
  <2>1. requests \in Seq(Request)
    BY EmptySeq
  <2>2. /\ disk \in [Files -> [content : Contents, junk : BOOLEAN]]
        /\ lastSent \in [Files -> Contents]
    BY EmptiedIsText
  <2> QED  BY <2>1, <2>2, EmptiedIsText DEF SettingsType, FileOrNone
<1>2. requests = << >> /\ DOMAIN requests = {}
  OBVIOUS
<1>3. \A f \in Files : SavesOf(f) = {}
  BY <1>2 DEF SavesOf, InFlight
<1>4. SoundRequests /\ OwnContents
  BY <1>2, EmptiedIsText DEF SoundRequests, OwnContents
<1>5. FilesInTurn
  BY <1>3, EmptiedIsText DEF FilesInTurn, TextIsOpened, SavesInTurn
<1> QED  BY <1>1, <1>4, <1>5 DEF SettingsInv

\* What Select and Edit leave alone.
LEMMA OnlyPageChanges ==
  ASSUME SettingsInv, UNCHANGED <<requests, disk, damaged, raced, lastSent>>
  PROVE  SoundRequests' /\ FilesInTurn'
<1> USE DEF SettingsInv
<1>1. SoundRequests'
  BY DEF SoundRequests
<1>2. \A f : SavesOf(f)' = SavesOf(f)
  BY DEF SavesOf, InFlight
<1>3. FilesInTurn'
  BY <1>2, SameFile DEF FilesInTurn
<1> QED  BY <1>1, <1>3

LEMMA SelectKeeps ==
  ASSUME SettingsInv, NEW f \in FileOrNone, Select(f)
  PROVE  SettingsInv'
<1> USE DEF SettingsInv, Select
<1>1. SettingsType'
  <2>1. switched' \in BOOLEAN
    <3> HIDE DEF SettingsInv
    <3>1. switched' = (switched \/ InFlight("load") # {})
      OBVIOUS
    <3> QED  BY <3>1, Zenon
  <2> QED  BY <2>1 DEF SettingsType
<1>2. SoundRequests' /\ FilesInTurn'
  BY OnlyPageChanges
<1>3. OwnContents'
  <2>1. ASSUME ~switched', NEW i \in DOMAIN requests
        PROVE  OwnRequest(requests[i])' /\ OwnRequest(requests[i])
    BY <2>1 DEF OwnContents, OwnRequest, InFlight
  <2> QED  BY <2>1 DEF OwnContents
<1> QED  BY <1>1, <1>2, <1>3

\* What Load and Save have in common: a request of its own place, before which none changes.
LEMMA Posted ==
  ASSUME SettingsType, NEW kind \in {"load", "save"}, NEW content \in Contents, Post(kind, content)
  PROVE  /\ requests' \in Seq(Request) /\ sent' \in Nat
         /\ Len(requests') = Len(requests) + 1
         /\ \A i \in 1 .. Len(requests) : requests'[i] = requests[i]
         /\ requests'[Len(requests) + 1] =
              [kind |-> kind, file |-> selected, content |-> content, stage |-> "sent"]
<1> DEFINE r == [kind |-> kind, file |-> selected, content |-> content, stage |-> "sent"]
<1>1. r \in Request
  BY DEF SettingsType, Request, Stages
<1>2. requests \in Seq(Request) /\ requests' = Append(requests, r) /\ sent' \in Nat
  BY DEF Post, SettingsType
<1> HIDE DEF r
<1>3. /\ Append(requests, r) \in Seq(Request)
      /\ Len(Append(requests, r)) = Len(requests) + 1
      /\ \A i \in 1 .. Len(requests) : Append(requests, r)[i] = requests[i]
      /\ Append(requests, r)[Len(requests) + 1] = r
  BY <1>1, <1>2, AppendProperties
<1> QED  BY <1>2, <1>3 DEF r

LEMMA LoadKeeps ==
  ASSUME SettingsInv, Load
  PROVE  SettingsInv'
<1> DEFINE n == Len(requests) + 1
<1>1. SettingsType /\ SoundRequests /\ OwnContents /\ FilesInTurn
  BY DEF SettingsInv
<1>2. /\ requests' \in Seq(Request) /\ sent' \in Nat /\ Len(requests') = n
      /\ \A i \in 1 .. Len(requests) : requests'[i] = requests[i]
      /\ requests'[n] = [kind |-> "load", file |-> selected, content |-> Emptied, stage |-> "sent"]
  BY <1>1, Posted, EmptiedIsText DEF Load
<1>3. /\ UNCHANGED <<pageVars, disk, settingsFaults, pastVars>>
      /\ selected \in Files
  BY <1>1 DEF Load, SettingsType, FileOrNone
<1>4. SettingsType'
  BY <1>1, <1>2, <1>3 DEF SettingsType, pageVars, pastVars
<1>5. DOMAIN requests = 1 .. Len(requests) /\ DOMAIN requests' = 1 .. n /\ Len(requests) \in Nat
  BY <1>1, <1>2, <1>4, RequestsInFlight, RequestsInFlightNext
<1>6. ASSUME NEW f \in Files
      PROVE  SavesOf(f)' = SavesOf(f)
  <2>1. \A i : i \in SavesOf(f)' <=> i \in SavesOf(f)
    <3>1. \A i : i \in SavesOf(f) <=> /\ i \in 1 .. Len(requests)
                                      /\ requests[i].kind = "save" /\ requests[i].file = f
      BY <1>1, <1>5, RequestsInFlight
    <3>2. \A i : i \in SavesOf(f)' <=> /\ i \in 1 .. n
                                       /\ requests'[i].kind = "save" /\ requests'[i].file = f
      BY <1>4, <1>5, RequestsInFlightNext
    <3> QED  BY <1>2, <1>5, <3>1, <3>2
  <2> QED  BY <2>1
<1>7. SoundRequests'
  BY <1>1, <1>2, <1>3, <1>5 DEF SoundRequests, SoundRequest
<1>8. OwnContents'
  BY <1>1, <1>2, <1>3, <1>5 DEF OwnContents, OwnRequest, pageVars, pastVars
<1>9. \A f \in Files : \A i \in SavesOf(f) : requests'[i] = requests[i]
  BY <1>1, <1>2, <1>5, RequestsInFlight
<1>10. UNCHANGED <<disk, damaged, raced, lastSent>>
  BY <1>3 DEF pastVars
<1>11. FilesInTurn'
  BY <1>1, <1>6, <1>9, <1>10, SameFile DEF FilesInTurn
<1> QED  BY <1>4, <1>7, <1>8, <1>11 DEF SettingsInv

LEMMA EditKeeps ==
  ASSUME SettingsInv, Edit
  PROVE  SettingsInv'
<1> USE DEF SettingsInv, pastVars
<1>0. UNCHANGED <<selected, showContent, requests, sent, disk, settingsFaults>>
      /\ UNCHANGED <<damaged, switched, raced, lastSent>>
  BY DEF Edit
<1>1. /\ jsonFile' \in Contents /\ jsonFile'.of = jsonFile.of
  <2>1. PICK form \in Forms : jsonFile' = [jsonFile EXCEPT !.version = sent, !.form = form]
    BY DEF Edit
  <2> QED  BY <2>1 DEF SettingsType, Contents
<1> USE <1>0
<1>2. SettingsType'
  BY <1>1 DEF SettingsType
<1>3. SoundRequests' /\ FilesInTurn'
  BY OnlyPageChanges
<1>4. OwnContents'
  BY <1>1 DEF OwnContents, OwnRequest
<1> QED  BY <1>2, <1>3, <1>4

LEMMA SaveKeeps ==
  ASSUME SettingsInv, Save
  PROVE  SettingsInv'
<1> DEFINE n == Len(requests) + 1
           r == [kind |-> "save", file |-> selected, content |-> jsonFile, stage |-> "sent"]
<1>1. SettingsType /\ SoundRequests /\ OwnContents /\ FilesInTurn
  BY DEF SettingsInv
<1>2. /\ requests' \in Seq(Request) /\ sent' \in Nat /\ Len(requests') = n
      /\ \A i \in 1 .. Len(requests) : requests'[i] = requests[i]
      /\ requests'[n] = r
  <2>1. jsonFile \in Contents /\ Post("save", jsonFile)
    BY <1>1 DEF Save, SettingsType
  <2> QED  BY <1>1, <2>1, Posted
<1>3. /\ UNCHANGED <<selected, showContent, jsonFile, disk, settingsFaults, damaged, switched>>
      /\ showContent /\ IsJson(jsonFile)
      /\ selected = NoFile => UNCHANGED <<raced, lastSent>>
      /\ selected # NoFile =>
           /\ raced' = IF SavesOf(selected) = {} THEN raced ELSE raced \union {selected}
           /\ lastSent' = [lastSent EXCEPT ![selected] = jsonFile]
  BY DEF Save, pageVars
<1>4. SettingsType'
  <2>1. CASE selected = NoFile
    BY <1>1, <1>2, <1>3, <2>1 DEF SettingsType
  <2>2. CASE selected # NoFile
    <3>1. raced' \subseteq Files
      BY <1>1, <1>3, <2>2 DEF SettingsType, FileOrNone
    <3>2. lastSent' \in [Files -> Contents]
      BY <1>1, <1>3, <2>2 DEF SettingsType, FileOrNone
    <3> QED  BY <1>1, <1>2, <1>3, <3>1, <3>2 DEF SettingsType
  <2> QED  BY <2>1, <2>2
<1>5. DOMAIN requests = 1 .. Len(requests) /\ DOMAIN requests' = 1 .. n /\ Len(requests) \in Nat
  BY <1>1, <1>2, <1>4, RequestsInFlight, RequestsInFlightNext
<1>6. SoundRequests'
  BY <1>1, <1>2, <1>3, <1>5 DEF SoundRequests, SoundRequest
<1>7. OwnContents'
  BY <1>1, <1>2, <1>3, <1>5 DEF OwnContents, OwnRequest
<1>8. \A f \in Files : \A i :
         /\ i \in SavesOf(f)' <=> i \in SavesOf(f) \/ (i = n /\ f = selected)
         /\ i \in SavesOf(f) => i # n /\ requests'[i] = requests[i]
  <2>1. \A f, i : i \in SavesOf(f) <=> /\ i \in 1 .. Len(requests)
                                       /\ requests[i].kind = "save" /\ requests[i].file = f
    BY <1>1, <1>5, RequestsInFlight
  <2>2. \A f, i : i \in SavesOf(f)' <=> /\ i \in 1 .. n
                                        /\ requests'[i].kind = "save" /\ requests'[i].file = f
    BY <1>4, <1>5, RequestsInFlightNext
  <2> QED  BY <1>2, <1>5, <2>1, <2>2
<1> HIDE DEF n
<1>9. ASSUME NEW f \in Files
      PROVE  (TextIsOpened(f) /\ SavesInTurn(f))'
  <2>0. TextIsOpened(f) /\ SavesInTurn(f)
    BY <1>1 DEF FilesInTurn
  <2>1. CASE f # selected
    <3>1. SavesOf(f)' = SavesOf(f)
      BY <1>8, <2>1
    <3>2. lastSent'[f] = lastSent[f] /\ (f \in raced' <=> f \in raced)
      BY <1>1, <1>3, <2>1 DEF SettingsType, FileOrNone
    <3>3. \A i \in SavesOf(f) : requests'[i] = requests[i]
      BY <1>8
    <3> QED  BY <2>0, <3>1, <3>2, <3>3, <1>3, SameFile
  <2>2. CASE f = selected
    <3>1. TextIsOpened(f)'
      BY <2>0, <1>3, <1>8 DEF TextIsOpened
    <3>2. ASSUME f \notin raced' \union damaged'
          PROVE  /\ SavesOf(f)' = {n}
                 /\ \A i \in SavesOf(f)' : Saving(f, requests[i])'
      <4>1. SavesOf(f) = {} /\ lastSent'[f] = jsonFile
        BY <1>1, <1>3, <2>2, <3>2, SettingsAssumption DEF SettingsType
      <4>2. SavesOf(f)' = {n}
        BY <4>1, <1>8, <2>2
      <4>3. ASSUME NEW i, i = n
            PROVE  Saving(f, requests[i])'
        BY <4>1, <4>3, <1>2 DEF Saving
      <4> QED  BY <4>2, <4>3
    <3>3. SavesInTurn(f)'
      BY <3>2 DEF SavesInTurn
    <3> QED  BY <3>1, <3>3
  <2> QED  BY <2>1, <2>2
<1> QED  BY <1>4, <1>6, <1>7, <1>9 DEF SettingsInv, FilesInTurn

\* What the handlers of the service have in common: one request in flight goes on to r.
LEMMA Advanced ==
  ASSUME SettingsInv, NEW i \in DOMAIN requests, NEW r \in Request, SoundRequest(r),
         r.kind = requests[i].kind, r.file = requests[i].file,
         requests' = [requests EXCEPT ![i] = r],
         UNCHANGED <<pageVars, sent, switched>>
  PROVE  /\ requests' \in Seq(Request) /\ DOMAIN requests' = DOMAIN requests
         /\ requests'[i] = r /\ \A j \in DOMAIN requests : j # i => requests'[j] = requests[j]
         /\ \A f : SavesOf(f)' = SavesOf(f)
         /\ SoundRequests'
         /\ ~switched /\ OwnRequest(r) => \A j \in DOMAIN requests : OwnRequest(requests[j])'
<1>1. SettingsType /\ SoundRequests /\ OwnContents
  BY DEF SettingsInv
<1>2. requests \in Seq(Request) /\ DOMAIN requests = 1 .. Len(requests)
  BY <1>1, RequestsInFlight DEF SettingsType
<1>3. requests' \in Seq(Request)
  BY <1>2, ExceptSeq
<1>4. /\ DOMAIN requests' = DOMAIN requests
      /\ requests'[i] = r /\ \A j \in DOMAIN requests : j # i => requests'[j] = requests[j]
  BY <1>2
<1>5. ASSUME NEW f
      PROVE  SavesOf(f)' = SavesOf(f)
  BY <1>4 DEF SavesOf, InFlight
<1>6. SoundRequests'
  BY <1>1, <1>4 DEF SoundRequests
<1>7. ASSUME ~switched, OwnRequest(r), NEW j \in DOMAIN requests
      PROVE  OwnRequest(requests[j])'
  BY <1>1, <1>4, <1>7 DEF OwnContents, OwnRequest, pageVars
<1> QED  BY <1>3, <1>4, <1>5, <1>6, <1>7

LEMMA LoadFileKeeps ==
  ASSUME SettingsInv, NEW i \in DOMAIN requests, LoadFile(i)
  PROVE  SettingsInv'
<1> DEFINE c == disk[requests[i].file].content
           s == IF c.form = "list" THEN "success" ELSE "error"
           r == [requests[i] EXCEPT !.stage = s, !.content = c]
<1>1. SettingsType /\ SoundRequests /\ OwnContents /\ FilesInTurn
  BY DEF SettingsInv
<1>2. /\ requests[i] \in Request /\ requests[i].kind = "load" /\ requests[i].file \in Files
      /\ SoundRequest(requests[i])
  BY <1>1, RequestsInFlight DEF LoadFile, SoundRequests, SoundRequest
<1>3. c \in Contents
  BY <1>1, <1>2 DEF SettingsType
<1>4. /\ r \in Request /\ r.kind = "load" /\ r.file = requests[i].file
      /\ r.stage = s /\ r.content = c
  BY <1>2, <1>3 DEF Request, Stages
<1>5. /\ requests' = [requests EXCEPT ![i] = r]
      /\ UNCHANGED <<pageVars, sent, disk, settingsFaults, pastVars>>
  BY DEF LoadFile
<1> HIDE DEF r
<1>6. SoundRequest(r)
  BY <1>2, <1>4 DEF SoundRequest
<1>7. /\ requests' \in Seq(Request) /\ DOMAIN requests' = DOMAIN requests
      /\ requests'[i] = r /\ \A j \in DOMAIN requests : j # i => requests'[j] = requests[j]
      /\ \A f : SavesOf(f)' = SavesOf(f)
      /\ SoundRequests'
      /\ ~switched /\ OwnRequest(r) => \A j \in DOMAIN requests : OwnRequest(requests[j])'
  BY <1>2, <1>4, <1>5, <1>6, Advanced DEF pastVars
<1>8. SettingsType'
  BY <1>1, <1>5, <1>7 DEF SettingsType, pageVars, pastVars
<1>9. OwnContents'
  <2>1. ~switched => OwnRequest(requests[i])
    BY <1>1 DEF OwnContents
  <2>2. ASSUME ~switched, s = "success"
        PROVE  c.of = requests[i].file
    BY <1>1, <1>2, <2>2, EmptiedIsText DEF OwnContents
  <2>3. ~switched => OwnRequest(r)
    BY <1>2, <1>4, <2>1, <2>2 DEF OwnRequest
  <2> QED  BY <1>1, <1>5, <1>7, <2>3 DEF OwnContents, pageVars, pastVars
<1>10. \A f \in Files : \A j \in SavesOf(f) : requests'[j] = requests[j]
  BY <1>1, <1>2, <1>7, RequestsInFlight
<1>11. FilesInTurn'
  BY <1>1, <1>5, <1>7, <1>10, SameFile DEF FilesInTurn, pastVars
<1> QED  BY <1>7, <1>8, <1>9, <1>11 DEF SettingsInv

LEMMA OpenFileKeeps ==
  ASSUME SettingsInv, NEW i \in DOMAIN requests, OpenFile(i)
  PROVE  SettingsInv'
<1> DEFINE g == requests[i].file
           s == IF g = NoFile THEN "error" ELSE "opened"
           r == [requests[i] EXCEPT !.stage = s]
<1>1. SettingsType /\ SoundRequests /\ OwnContents /\ FilesInTurn
  BY DEF SettingsInv
<1>2. /\ requests[i] \in Request /\ requests[i].kind = "save" /\ g \in FileOrNone
      /\ SoundRequest(requests[i])
  BY <1>1, RequestsInFlight DEF OpenFile, SoundRequests, Request
<1>3. /\ r \in Request /\ r.kind = "save" /\ r.file = g
      /\ r.stage = s /\ r.content = requests[i].content
  BY <1>2 DEF Request, Stages
<1>4. /\ requests' = [requests EXCEPT ![i] = r]
      /\ UNCHANGED <<pageVars, sent, settingsFaults, pastVars>>
      /\ g = NoFile => disk' = disk
      /\ g # NoFile => disk' = [disk EXCEPT ![g] = [content |-> Emptied, junk |-> FALSE]]
  BY DEF OpenFile, Stage
<1> HIDE DEF r
<1>5. SoundRequest(r)
  BY <1>2, <1>3 DEF SoundRequest, FileOrNone
<1>6. /\ requests' \in Seq(Request) /\ DOMAIN requests' = DOMAIN requests
      /\ requests'[i] = r /\ \A j \in DOMAIN requests : j # i => requests'[j] = requests[j]
      /\ \A f : SavesOf(f)' = SavesOf(f)
      /\ SoundRequests'
      /\ ~switched /\ OwnRequest(r) => \A j \in DOMAIN requests : OwnRequest(requests[j])'
  BY <1>2, <1>3, <1>4, <1>5, Advanced DEF pastVars
<1>7. SettingsType'
  <2>1. disk' \in [Files -> [content : Contents, junk : BOOLEAN]]
    <3>1. /\ [content |-> Emptied, junk |-> FALSE] \in [content : Contents, junk : BOOLEAN]
          /\ disk \in [Files -> [content : Contents, junk : BOOLEAN]]
      BY <1>1, EmptiedIsText DEF SettingsType
    <3> QED  BY <1>4, <3>1
  <2> QED  BY <2>1, <1>1, <1>4, <1>6 DEF SettingsType, pageVars, pastVars
<1>8. OwnContents'
  <2>1. ~switched => OwnRequest(r)
    BY <1>1, <1>2, <1>3 DEF OwnContents, OwnRequest
  <2>2. ASSUME ~switched, NEW f \in Files, disk'[f].content # Emptied
        PROVE  disk'[f].content.of = f
    <3>1. disk'[f] = disk[f] \/ disk'[f] = [content |-> Emptied, junk |-> FALSE]
      BY <1>1, <1>4 DEF SettingsType
    <3>2. disk'[f] = disk[f]
      BY <2>2, <3>1
    <3> QED  BY <1>1, <2>2, <3>2 DEF OwnContents
  <2> QED  BY <1>1, <1>4, <1>6, <2>1, <2>2 DEF OwnContents, pageVars, pastVars
<1>9. ASSUME NEW f \in Files
      PROVE  (TextIsOpened(f) /\ SavesInTurn(f))'
  <2>0. TextIsOpened(f) /\ SavesInTurn(f)
    BY <1>1 DEF FilesInTurn
  <2>1. CASE f # g
    <3>1. \A j \in SavesOf(f) : requests'[j] = requests[j]
      BY <1>1, <1>6, <2>1, RequestsInFlight
    <3>2. disk'[f] = disk[f]
      BY <1>1, <1>2, <1>4, <2>1 DEF SettingsType, FileOrNone
    <3> QED  BY <2>0, <3>1, <3>2, <1>4, <1>6, SameFile DEF pastVars
  <2>2. CASE f = g
    <3>1. /\ disk'[f] = [content |-> Emptied, junk |-> FALSE]
          /\ i \in SavesOf(f) /\ r.stage = "opened"
      BY <1>1, <1>2, <1>3, <1>4, <2>2, SettingsAssumption, RequestsInFlight DEF SettingsType
    <3>2. TextIsOpened(f)'
      BY <1>6, <3>1 DEF TextIsOpened
    <3>3. ASSUME f \notin raced \union damaged
          PROVE  \A j \in SavesOf(f) : j = i /\ Saving(f, requests[j])'
      <4>1. \A j \in SavesOf(f) : j = i
        BY <2>0, <3>1, <3>3 DEF SavesInTurn
      <4>2. requests[i].content = lastSent[f]
        BY <2>0, <3>1, <3>3 DEF SavesInTurn, Saving
      <4>3. Saving(f, requests[i])'
        BY <1>3, <1>4, <1>6, <3>1, <4>2 DEF Saving, pastVars
      <4> QED  BY <4>1, <4>3
    <3>4. SavesInTurn(f)'
      BY <1>4, <1>6, <3>1, <3>3 DEF SavesInTurn, pastVars
    <3> QED  BY <3>2, <3>4
  <2> QED  BY <2>1, <2>2
<1> QED  BY <1>6, <1>7, <1>8, <1>9 DEF SettingsInv, FilesInTurn

LEMMA WriteFileKeeps ==
  ASSUME SettingsInv, NEW i \in DOMAIN requests, WriteFile(i)
  PROVE  SettingsInv'
<1> DEFINE g == requests[i].file
           c == requests[i].content
           r == [requests[i] EXCEPT !.stage = "success"]
<1>1. SettingsType /\ SoundRequests /\ OwnContents /\ FilesInTurn
  BY DEF SettingsInv
<1>2. /\ requests[i] \in Request /\ requests[i].kind = "save" /\ requests[i].stage = "opened"
      /\ SoundRequest(requests[i]) /\ g \in Files /\ c \in Contents /\ c.form # "text"
  BY <1>1, RequestsInFlight DEF WriteFile, SoundRequests, SoundRequest, Request, IsJson
<1>3. /\ r \in Request /\ r.kind = "save" /\ r.file = g
      /\ r.stage = "success" /\ r.content = c
  BY <1>2 DEF Request, Stages
<1>4. PICK junk \in BOOLEAN :
        /\ junk => disk[g].content # Emptied
        /\ disk' = [disk EXCEPT ![g] = [content |-> c, junk |-> junk]]
  BY DEF WriteFile
<1>5. /\ requests' = [requests EXCEPT ![i] = r]
      /\ UNCHANGED <<pageVars, sent, settingsFaults, pastVars>>
  BY DEF WriteFile, Stage
<1> HIDE DEF r
<1>6. SoundRequest(r)
  BY <1>2, <1>3 DEF SoundRequest
<1>7. /\ requests' \in Seq(Request) /\ DOMAIN requests' = DOMAIN requests
      /\ requests'[i] = r /\ \A j \in DOMAIN requests : j # i => requests'[j] = requests[j]
      /\ \A f : SavesOf(f)' = SavesOf(f)
      /\ SoundRequests'
      /\ ~switched /\ OwnRequest(r) => \A j \in DOMAIN requests : OwnRequest(requests[j])'
  BY <1>2, <1>3, <1>5, <1>6, Advanced DEF pastVars
<1>8. /\ disk' \in [Files -> [content : Contents, junk : BOOLEAN]]
      /\ disk'[g] = [content |-> c, junk |-> junk]
      /\ \A f \in Files : f # g => disk'[f] = disk[f]
  BY <1>1, <1>2, <1>4 DEF SettingsType
<1>9. SettingsType'
  BY <1>1, <1>5, <1>7, <1>8 DEF SettingsType, pageVars, pastVars
<1>10. OwnContents'
  <2>1. ~switched => OwnRequest(r) /\ c.of = g
    BY <1>1, <1>2, <1>3 DEF OwnContents, OwnRequest
  <2>2. ~switched => \A f \in Files : disk'[f].content # Emptied => disk'[f].content.of = f
    BY <1>1, <1>8, <2>1 DEF OwnContents
  <2> QED  BY <1>1, <1>5, <1>7, <2>1, <2>2 DEF OwnContents, pageVars, pastVars
<1>11. ASSUME NEW f \in Files
       PROVE  (TextIsOpened(f) /\ SavesInTurn(f))'
  <2>0. TextIsOpened(f) /\ SavesInTurn(f)
    BY <1>1 DEF FilesInTurn
  <2>1. CASE f # g
    <3>1. \A j \in SavesOf(f) : requests'[j] = requests[j]
      BY <1>1, <1>7, <2>1, RequestsInFlight
    <3> QED  BY <2>0, <2>1, <3>1, <1>5, <1>7, <1>8, SameFile DEF pastVars
  <2>2. CASE f = g
    <3>1. TextIsOpened(f)'
      BY <1>2, <1>8, <2>2 DEF TextIsOpened
    <3>2. i \in SavesOf(f)
      BY <1>1, <1>2, <2>2, RequestsInFlight
    <3>3. ASSUME f \notin raced \union damaged
          PROVE  \A j \in SavesOf(f) : j = i /\ Saving(f, requests[j])'
      <4>1. \A j \in SavesOf(f) : j = i
        BY <2>0, <3>2, <3>3 DEF SavesInTurn
      <4>2. c = lastSent[f] /\ disk[f] = [content |-> Emptied, junk |-> FALSE]
        BY <2>0, <1>2, <3>2, <3>3 DEF SavesInTurn, Saving
      <4>3. disk'[f] = [content |-> c, junk |-> FALSE]
        <5>1. disk[g].content = Emptied
          BY <2>2, <4>2
        <5>2. junk = FALSE
          BY <1>4, <5>1
        <5> QED  BY <1>8, <2>2, <5>2
      <4>4. Saving(f, requests[i])'
        BY <1>3, <1>5, <1>7, <4>2, <4>3 DEF Saving, pastVars
      <4> QED  BY <4>1, <4>4
    <3>4. SavesInTurn(f)'
      BY <1>5, <1>7, <3>2, <3>3 DEF SavesInTurn, pastVars
    <3> QED  BY <3>1, <3>4
  <2> QED  BY <2>1, <2>2
<1> QED  BY <1>7, <1>9, <1>10, <1>11 DEF SettingsInv, FilesInTurn

LEMMA FailKeeps ==
  ASSUME SettingsInv, NEW i \in DOMAIN requests, Fail(i)
  PROVE  SettingsInv'
<1> DEFINE g == requests[i].file
           r == [requests[i] EXCEPT !.stage = "error"]
<1>1. SettingsType /\ SoundRequests /\ OwnContents /\ FilesInTurn
  BY DEF SettingsInv
<1>2. requests[i] \in Request /\ g \in FileOrNone /\ SoundRequest(requests[i])
  BY <1>1, RequestsInFlight DEF SoundRequests, Request
<1>3. /\ r \in Request /\ r.kind = requests[i].kind /\ r.file = g
      /\ r.stage = "error" /\ r.content = requests[i].content
  BY <1>2 DEF Request, Stages
<1>4. /\ requests' = [requests EXCEPT ![i] = r]
      /\ UNCHANGED <<pageVars, sent, disk, switched, raced, lastSent>>
      /\ settingsFaults' = settingsFaults + 1
      /\ damaged' = IF requests[i].kind = "save" THEN damaged \union ({g} \ {NoFile})
                                                ELSE damaged
  BY DEF Fail, Stage
<1> HIDE DEF r
<1>5. SoundRequest(r)
  BY <1>2, <1>3 DEF SoundRequest
<1>6. /\ requests' \in Seq(Request) /\ DOMAIN requests' = DOMAIN requests
      /\ requests'[i] = r /\ \A j \in DOMAIN requests : j # i => requests'[j] = requests[j]
      /\ \A f : SavesOf(f)' = SavesOf(f)
      /\ SoundRequests'
      /\ ~switched /\ OwnRequest(r) => \A j \in DOMAIN requests : OwnRequest(requests[j])'
  BY <1>2, <1>3, <1>4, <1>5, Advanced
<1>7. SettingsType'
  <2>1. damaged' \subseteq Files /\ settingsFaults' \in Nat
    BY <1>1, <1>2, <1>4 DEF SettingsType, FileOrNone
  <2> QED  BY <1>1, <1>4, <1>6, <2>1 DEF SettingsType, pageVars
<1>8. OwnContents'
  <2>1. ~switched => OwnRequest(r)
    BY <1>1, <1>3 DEF OwnContents, OwnRequest
  <2> QED  BY <1>1, <1>4, <1>6, <2>1 DEF OwnContents, pageVars
<1>9. ASSUME NEW f \in Files
      PROVE  (TextIsOpened(f) /\ SavesInTurn(f))'
  <2>0. TextIsOpened(f) /\ SavesInTurn(f)
    BY <1>1 DEF FilesInTurn
  <2>1. CASE i \notin SavesOf(f)
    <3>1. \A j \in SavesOf(f) : requests'[j] = requests[j]
      BY <1>1, <1>6, <2>1, RequestsInFlight
    <3>2. f \in damaged' <=> f \in damaged
      BY <1>1, <1>4, <2>1, RequestsInFlight
    <3> QED  BY <2>0, <3>1, <3>2, <1>4, <1>6, SameFile
  <2>2. CASE i \in SavesOf(f)
    <3>1. f \in damaged'
      BY <1>1, <1>4, <2>2, RequestsInFlight, SettingsAssumption
    <3> QED  BY <3>1 DEF TextIsOpened, SavesInTurn
  <2> QED  BY <2>1, <2>2
<1> QED  BY <1>6, <1>7, <1>8, <1>9 DEF SettingsInv, FilesInTurn

LEMMA AnsweredKeeps ==
  ASSUME SettingsInv, NEW i \in DOMAIN requests, Answered(i)
  PROVE  SettingsInv'
<1> DEFINE r == requests[i]
<1>1. SettingsType /\ SoundRequests /\ OwnContents /\ FilesInTurn
  BY DEF SettingsInv
<1>2. /\ DOMAIN requests = 1 .. Len(requests) /\ Len(requests) \in Nat
      /\ r \in Request /\ r.stage \in {"success", "error"} /\ SoundRequest(r)
  BY <1>1, RequestsInFlight DEF Answered, SoundRequests
<1>3. /\ requests' = RemoveAt(requests, i)
      /\ UNCHANGED <<selected, sent, disk, settingsFaults, damaged, switched, raced, lastSent>>
      /\ IF r.kind = "load" /\ r.stage = "success"
         THEN jsonFile' = r.content /\ showContent' = TRUE
         ELSE UNCHANGED <<jsonFile, showContent>>
  BY DEF Answered, pastVars
<1>4. /\ requests' \in Seq(Request) /\ Len(requests') = Len(requests) - 1
      /\ \A k \in 1 .. Len(requests) - 1 : requests'[k] = requests[Before(i, k)]
  <2>1. requests \in Seq(Request) /\ i \in 1 .. Len(requests)
    BY <1>1, <1>2 DEF SettingsType
  <2> QED  BY <1>3, <2>1, Removed
<1>5. SettingsType'
  <2>1. jsonFile' \in Contents /\ showContent' \in BOOLEAN
    BY <1>1, <1>2, <1>3 DEF SettingsType, Request
  <2> QED  BY <1>1, <1>3, <1>4, <2>1 DEF SettingsType
<1>6. /\ DOMAIN requests' = 1 .. Len(requests) - 1
      /\ \A k \in DOMAIN requests' : /\ Before(i, k) \in DOMAIN requests \ {i}
                                     /\ requests'[k] = requests[Before(i, k)]
      /\ \A j \in DOMAIN requests \ {i} : \E k \in DOMAIN requests' : Before(i, k) = j
      /\ \A k, l \in DOMAIN requests' : Before(i, k) = Before(i, l) => k = l
  <2>1. DOMAIN requests' = 1 .. Len(requests) - 1
    BY <1>4, <1>5, RequestsInFlightNext
  <2>2. /\ \A k \in 1 .. Len(requests) - 1 : Before(i, k) \in (1 .. Len(requests)) \ {i}
        /\ \A j \in (1 .. Len(requests)) \ {i} : \E k \in 1 .. Len(requests) - 1 : Before(i, k) = j
        /\ \A k, l \in 1 .. Len(requests) - 1 : Before(i, k) = Before(i, l) => k = l
    BY <1>2, PlacesKept
  <2> QED  BY <1>2, <1>4, <2>1, <2>2
<1>7. SoundRequests'
  BY <1>1, <1>6 DEF SoundRequests
<1>8. OwnContents'
  <2>1. ASSUME ~switched, NEW k \in DOMAIN requests'
        PROVE  OwnRequest(requests'[k]) /\ selected' = selected
    BY <1>1, <1>3, <1>6, <2>1 DEF OwnContents
  <2>2. ASSUME ~switched
        PROVE  \A k \in DOMAIN requests' : OwnRequest(requests[k])'
    BY <2>1, <2>2 DEF OwnRequest
  <2>3. ASSUME ~switched, showContent'
        PROVE  jsonFile'.of = selected
    BY <1>1, <1>2, <1>3, <2>3 DEF OwnContents, OwnRequest, SoundRequest
  <2> QED  BY <1>1, <1>3, <2>2, <2>3 DEF OwnContents
<1>9. ASSUME NEW f \in Files
      PROVE  (TextIsOpened(f) /\ SavesInTurn(f))'
  <2>0. TextIsOpened(f) /\ SavesInTurn(f)
    BY <1>1 DEF FilesInTurn
  <2>1. \A k : k \in SavesOf(f)' <=> k \in DOMAIN requests' /\ Before(i, k) \in SavesOf(f)
    <3>1. \A k : k \in SavesOf(f)' <=> /\ k \in DOMAIN requests'
                                       /\ requests'[k].kind = "save" /\ requests'[k].file = f
      BY <1>5, RequestsInFlightNext
    <3>2. \A j : j \in SavesOf(f) <=> /\ j \in DOMAIN requests
                                      /\ requests[j].kind = "save" /\ requests[j].file = f
      BY <1>1, RequestsInFlight
    <3> QED  BY <1>6, <3>1, <3>2
  <2>2. TextIsOpened(f)'
    <3>1. ASSUME NEW j \in SavesOf(f), requests[j].stage = "opened"
          PROVE  \E k \in SavesOf(f)' : requests'[k].stage = "opened"
      <4>1. j \in DOMAIN requests \ {i}
        BY <1>1, <1>2, <3>1, RequestsInFlight
      <4>2. PICK k \in DOMAIN requests' : Before(i, k) = j
        BY <1>6, <4>1
      <4> QED  BY <1>6, <2>1, <3>1, <4>2
    <3> QED  BY <1>3, <2>0, <3>1 DEF TextIsOpened
  <2>3. ASSUME f \notin raced \union damaged
        PROVE  /\ \A k, l \in SavesOf(f)' : k = l
               /\ \A k \in SavesOf(f)' : Saving(f, requests[k])'
               /\ SavesOf(f)' = {} => disk[f] = [content |-> lastSent[f], junk |-> FALSE]
    <3>1. /\ \A j, l \in SavesOf(f) : j = l
          /\ \A j \in SavesOf(f) : Saving(f, requests[j])
          /\ SavesOf(f) = {} => disk[f] = [content |-> lastSent[f], junk |-> FALSE]
      BY <2>0, <2>3 DEF SavesInTurn
    <3>2. \A k, l \in SavesOf(f)' : k = l
      BY <1>6, <2>1, <3>1
    <3>3. ASSUME NEW k \in SavesOf(f)'
          PROVE  Saving(f, requests[k])'
      <4>1. requests'[k] = requests[Before(i, k)] /\ Before(i, k) \in SavesOf(f)
        BY <1>6, <2>1, <3>3
      <4>2. Saving(f, requests[Before(i, k)])
        BY <3>1, <4>1
      <4> QED  BY <1>3, <4>1, <4>2 DEF Saving
    <3>4. ASSUME SavesOf(f)' = {}
          PROVE  disk[f] = [content |-> lastSent[f], junk |-> FALSE]
      <4>1. CASE i \in SavesOf(f)
        BY <1>2, <3>1, <4>1 DEF Saving
      <4>2. CASE i \notin SavesOf(f)
        <5>1. SavesOf(f) = {}
          BY <1>1, <1>6, <2>1, <3>4, <4>2, RequestsInFlight
        <5> QED  BY <3>1, <5>1
      <4> QED  BY <4>1, <4>2
    <3> QED  BY <3>2, <3>3, <3>4
  <2>4. SavesInTurn(f)'
    BY <1>3, <2>3 DEF SavesInTurn
  <2> QED  BY <2>2, <2>4
<1> QED  BY <1>5, <1>7, <1>8, <1>9 DEF SettingsInv, FilesInTurn

LEMMA SettingsUnmoved ==
  ASSUME SettingsInv, UNCHANGED settingsVars
  PROVE  SettingsInv'
<1>1. UNCHANGED <<selected, showContent, jsonFile, requests, sent, disk, settingsFaults,
                  damaged, switched, raced, lastSent>>
  BY DEF settingsVars, pageVars, pastVars
<1>2. SettingsType' /\ OwnContents'
  BY <1>1 DEF SettingsInv, SettingsType, OwnContents, OwnRequest
<1> QED  BY <1>1, <1>2, OnlyPageChanges DEF SettingsInv

\* The inductive invariant of the settings page, for every number of files, requests and
\* failures, whatever the threads of LSGiSettingsController interleave.
THEOREM SettingsInvariance == SettingsSpec => []SettingsInv
<1>1. SettingsInv /\ SettingsNext => SettingsInv'
  <2> SUFFICES ASSUME SettingsInv, SettingsNext
               PROVE  SettingsInv'
    OBVIOUS
  <2>1. ASSUME NEW f \in FileOrNone, Select(f) PROVE SettingsInv'
    BY <2>1, SelectKeeps
  <2>2. CASE Load
    BY <2>2, LoadKeeps
  <2>3. CASE Edit
    BY <2>3, EditKeeps
  <2>4. CASE Save
    BY <2>4, SaveKeeps
  <2>5. ASSUME NEW i \in DOMAIN requests, LoadFile(i) PROVE SettingsInv'
    BY <2>5, LoadFileKeeps
  <2>6. ASSUME NEW i \in DOMAIN requests, OpenFile(i) PROVE SettingsInv'
    BY <2>6, OpenFileKeeps
  <2>7. ASSUME NEW i \in DOMAIN requests, WriteFile(i) PROVE SettingsInv'
    BY <2>7, WriteFileKeeps
  <2>8. ASSUME NEW i \in DOMAIN requests, Fail(i) PROVE SettingsInv'
    BY <2>8, FailKeeps
  <2>9. ASSUME NEW i \in DOMAIN requests, Answered(i) PROVE SettingsInv'
    BY <2>9, AnsweredKeeps
  <2> QED  BY <2>1, <2>2, <2>3, <2>4, <2>5, <2>6, <2>7, <2>8, <2>9 DEF SettingsNext, FileOrNone
<1>2. SettingsInv /\ [SettingsNext]_settingsVars => SettingsInv'
  BY <1>1, SettingsUnmoved
<1> QED  BY <1>2, SettingsInitInv, PTL DEF SettingsSpec

\* What the settings page promises ("Saves changes in configuration file"): no file is left
\* without JSON but by a save under way or failed, a file holds its own content if its user waits
\* for what he loads, and what the last save sent if saves of it do not overlap.
THEOREM FilesHold == SettingsSpec => []FilesHoldWhatWasSaved
<1>1. SettingsInv => FilesHoldWhatWasSaved
  <2> SUFFICES ASSUME SettingsInv, NEW f \in Files
               PROVE  /\ SavesOf(f) = {} /\ f \notin damaged => disk[f].content.form # "text"
                      /\ ~switched =>
                           /\ disk[f].content # Emptied => disk[f].content.of = f
                           /\ SavesOf(f) = {} /\ f \notin raced \union damaged =>
                                disk[f] = [content |-> lastSent[f], junk |-> FALSE]
    BY DEF FilesHoldWhatWasSaved
  <2>1. TextIsOpened(f) /\ SavesInTurn(f) /\ OwnContents
    BY DEF SettingsInv, FilesInTurn
  <2>2. SavesOf(f) = {} /\ f \notin damaged => disk[f].content.form # "text"
    BY <2>1 DEF TextIsOpened
  <2>3. ~switched /\ disk[f].content # Emptied => disk[f].content.of = f
    BY <2>1 DEF OwnContents
  <2>4. SavesOf(f) = {} /\ f \notin raced \union damaged =>
           disk[f] = [content |-> lastSent[f], junk |-> FALSE]
    BY <2>1 DEF SavesInTurn
  <2> QED  BY <2>2, <2>3, <2>4
<1> QED  BY <1>1, SettingsInvariance, PTL
-----------------------------------------------------------------------------
(***************************************************************************)
(* The viewer page                                                         *)
(***************************************************************************)
Iterations == 1 .. NIterations

\* The entries of iteration i in the two charts.
BarOf(i)   == [x |-> i, y |-> (100 * State0[i]) \div Vertices]
StackOf(i) == [x   |-> i,
               y   |-> <<[val |-> State0[i], accum |-> 0],
                         [val |-> Vertices - State0[i], accum |-> State0[i]]>>,
               sum |-> Vertices]
Bars   == {BarOf(i)   : i \in Iterations}
Stacks == {StackOf(i) : i \in Iterations}

\* Without a configuration some environment is selected, if there are any.
Selectable == Environments \union {CHOOSE e \in Environments : TRUE}

Scopes == [environment : Selectable, dataset : Datasets \union {NoDataset},
           inputTab : BOOLEAN, showStopBtn : BOOLEAN, showResults : BOOLEAN,
           showGraphStats : BOOLEAN, intervalID : Nat,
           iteration : 0 .. NIterations, lastIteration : -1 .. NIterations,
           convergenceData : 0 .. NIterations,
           convergenceChart : Seq(Bars), stateChart : Seq(Stacks)]
Timers == [act : {"hideStats", "startPolling"}, start : Nat]
Calls  == [kind : {"launch", "stop", "search"},
           to : [environment : Environments, dataset : Datasets \union {NoDataset}],
           start : Nat, answer : {"refused", "empty", "unserved", "success", "stats", "null"},
           iteration : 0 .. NIterations]

ViewerType ==
    /\ config \in {"loading", "ready", "missing"}
    /\ scope \in Scopes /\ timers \subseteq Timers /\ intervals \subseteq Nat
    /\ inFlight \in Seq(Calls)
    /\ jobs \in [Environments -> Datasets \union {NoDataset}]
    /\ engine \in [Environments -> 0 .. NIterations]
    /\ starts \in Nat /\ faults \in Nat
    /\ overlapped \in BOOLEAN /\ strayed \in BOOLEAN /\ disordered \in BOOLEAN

\* Nothing happens on the page before it has its configuration.
QuietUntilReady ==
    /\ config = "ready" => scope.environment \in Environments
    /\ config # "ready" => /\ inFlight = << >> /\ timers = {} /\ intervals = {}
                           /\ ~scope.showStopBtn /\ scope.convergenceChart = << >>

\* Every request belongs to a start that has been made, and only a search brings statistics.
OfAStart ==
    /\ \A i \in DOMAIN inFlight : inFlight[i].start <= starts
    /\ \A i \in DOMAIN inFlight : inFlight[i].answer = "stats" => inFlight[i].kind = "search"

\* The charts hold the same iterations, with the values of each.
ChartsAgree ==
    /\ Len(scope.convergenceChart) = Len(scope.stateChart)
    /\ \A i \in DOMAIN scope.convergenceChart : scope.convergenceChart[i].x = scope.stateChart[i].x

Launching == {i \in DOMAIN inFlight : inFlight[i].kind = "launch"}
Waiting   == {t \in timers : t.act = "startPolling"}

\* As long as starts do not overlap: a start is pending in one place only, it is the
\* last one made, and while it is no interval runs.
StartsInTurn ==
    ~overlapped =>
      /\ \A i \in Launching : inFlight[i].start = starts
      /\ \A t \in Waiting : t.start = starts
      /\ \A i, j \in Launching : i = j
      /\ Waiting # {} => Launching = {}
      /\ StartPending => intervals = {}
      /\ intervals \subseteq {scope.intervalID}

InOrder  == ~overlapped /\ ~strayed /\ ~disordered
\* The searches of the start the page is about.
Searches == {i \in DOMAIN inFlight : inFlight[i].kind = "search" /\ inFlight[i].start = starts}
Brought(i) == inFlight[i].answer = "stats"
\* The last iteration drawn.
LastDrawn == IF scope.convergenceChart = << >> THEN 0
             ELSE scope.convergenceChart[Len(scope.convergenceChart)].x

\* What a search may still bring is not older than what is drawn, nor newer than the
\* engine; answers are fixed in the order of sending.
SearchesInOrder ==
    InOrder =>
      /\ StartPending => Searches = {}
      /\ \A i \in Searches :
           /\ inFlight[i].to.environment = scope.environment
           /\ Brought(i) =>
                /\ inFlight[i].iteration \in LastDrawn .. engine[scope.environment]
                /\ \A k \in 1 .. i - 1 : inFlight[k].answer # Unserved
                /\ \A k \in Searches : k < i /\ Brought(k) =>
                                         inFlight[k].iteration <= inFlight[i].iteration

ChartsInOrder ==
    InOrder =>
      LET bars == scope.convergenceChart
      IN  /\ StartPending => bars = << >>
          /\ \A i, j \in DOMAIN bars : i < j => bars[i].x < bars[j].x
          /\ bars # << >> => /\ scope.lastIteration = LastDrawn
                             /\ scope.convergenceData = LastDrawn
                             /\ LastDrawn <= engine[scope.environment]
          /\ bars = << >> => scope.lastIteration <= 0 /\ ~scope.showResults
          /\ scope.iteration # 0 => scope.showResults

ViewerInv == /\ ViewerType /\ QuietUntilReady /\ OfAStart /\ ChartsAgree
             /\ StartsInTurn /\ SearchesInOrder /\ ChartsInOrder

LEMMA VertexCounts ==
  /\ Vertices \in Nat \ {0} /\ NIterations \in Nat \ {0}
  /\ \A i \in Iterations : /\ State0[i] \in 0 .. Vertices
                           /\ (100 * State0[i]) \div Vertices \in Nat
                           /\ BarOf(i).x = i /\ StackOf(i).x = i
<1>1. /\ Vertices \in Nat \ {0} /\ NIterations \in Nat \ {0}
      /\ \A i \in Iterations : State0[i] \in 0 .. Vertices
  BY ViewerAssumption DEF Iterations
<1>2. \A a, b \in Nat : b # 0 => a \div b \in Nat
  OBVIOUS
<1>3. ASSUME NEW i \in Iterations
      PROVE  (100 * State0[i]) \div Vertices \in Nat
  <2>1. 100 * State0[i] \in Nat
    BY <1>1
  <2> QED  BY <1>1, <1>2, <2>1
<1> QED  BY <1>1, <1>3 DEF BarOf, StackOf

\* Every field of a stack lies on the sum of the fields before it.
LEMMA StackPutIsStackOf ==
  ASSUME NEW map, NEW i \in Iterations
  PROVE  StackPut(map, i, <<State0[i], Vertices - State0[i]>>) = PutEntry(map, StackOf(i))
<1> DEFINE fields == <<State0[i], Vertices - State0[i]>>
           sum[k \in 0 .. Len(fields)] == IF k = 0 THEN 0 ELSE sum[k - 1] + fields[k]
           known == [k \in 0 .. 2 |-> IF k = 0 THEN 0 ELSE IF k = 1 THEN State0[i] ELSE Vertices]
<1>1. State0[i] \in Nat /\ Vertices \in Nat
  BY VertexCounts
<1>2. Len(fields) = 2 /\ DOMAIN fields = 1 .. 2
      /\ fields[1] = State0[i] /\ fields[2] = Vertices - State0[i]
  OBVIOUS
<1>3. known = [k \in 0 .. Len(fields) |-> IF k = 0 THEN 0 ELSE known[k - 1] + fields[k]]
  BY <1>1, <1>2
<1>4. sum = [k \in 0 .. Len(fields) |-> IF k = 0 THEN 0 ELSE sum[k - 1] + fields[k]]
  <2> HIDE DEF known
  <2> QED  BY <1>3
<1>5. StackPut(map, i, fields) =
        PutEntry(map, [x   |-> i,
                       y   |-> [k \in DOMAIN fields |-> [val |-> fields[k], accum |-> sum[k - 1]]],
                       sum |-> sum[Len(fields)]])
  BY DEF StackPut
<1> HIDE DEF sum
<1>6. sum[0] = 0 /\ sum[1] = State0[i] /\ sum[2] = Vertices
  BY <1>1, <1>2, <1>4
<1>7. [k \in DOMAIN fields |-> [val |-> fields[k], accum |-> sum[k - 1]]] = StackOf(i).y
  BY <1>2, <1>6 DEF StackOf
<1> QED  BY <1>2, <1>5, <1>6, <1>7 DEF StackOf

\* An entry that is put again is the one that is there.
LEMMA PutKnown ==
  ASSUME NEW S, NEW map \in Seq(S), NEW e,
         \A k \in 1 .. Len(map) : map[k].x = e.x => map[k] = e,
         NEW j \in 1 .. Len(map), map[j].x = e.x
  PROVE  PutEntry(map, e) = map
<1> DEFINE again == [k \in DOMAIN map |-> IF map[k].x = e.x THEN e ELSE map[k]]
<1>1. DOMAIN map = 1 .. Len(map)
  OBVIOUS
<1>2. PutEntry(map, e) = again
  BY <1>1 DEF PutEntry
<1>3. \A k \in DOMAIN map : again[k] = map[k]
  BY <1>1
<1>4. again = map
  BY <1>3
<1> QED  BY <1>2, <1>4

\* A new one goes behind the others.
LEMMA PutNew ==
  ASSUME NEW S, NEW map \in Seq(S), NEW e, \A k \in 1 .. Len(map) : map[k].x # e.x
  PROVE  PutEntry(map, e) = Append(map, e)
  BY DEF PutEntry

LEMMA EntriesByIteration ==
  /\ \A i \in Iterations : BarOf(i) \in Bars /\ StackOf(i) \in Stacks
  /\ \A b \in Bars : b.x \in Iterations /\ b = BarOf(b.x)
  /\ \A s \in Stacks : s.x \in Iterations /\ s = StackOf(s.x)
  BY VertexCounts DEF Bars, Stacks

\* Results puts an iteration into both charts, in the same place.
LEMMA BothPut ==
  ASSUME NEW bars \in Seq(Bars), NEW stacks \in Seq(Stacks), NEW i \in Iterations,
         Len(bars) = Len(stacks), \A k \in 1 .. Len(bars) : bars[k].x = stacks[k].x,
         NEW bars2, bars2 = BarPut(bars, i, (100 * State0[i]) \div Vertices),
         NEW stacks2, stacks2 = StackPut(stacks, i, <<State0[i], Vertices - State0[i]>>)
  PROVE  /\ bars2 \in Seq(Bars) /\ stacks2 \in Seq(Stacks)
         /\ Len(bars2) = Len(stacks2)
         /\ \A k \in 1 .. Len(bars2) : bars2[k].x = stacks2[k].x
         /\ (\E k \in 1 .. Len(bars) : bars[k].x = i) \/ bars2 = Append(bars, BarOf(i))
<1>1. bars2 = PutEntry(bars, BarOf(i)) /\ stacks2 = PutEntry(stacks, StackOf(i))
  BY StackPutIsStackOf DEF BarPut, BarOf
<1>2. /\ BarOf(i) \in Bars /\ BarOf(i).x = i /\ \A b \in Bars : b.x = i => b = BarOf(i)
      /\ StackOf(i) \in Stacks /\ StackOf(i).x = i /\ \A s \in Stacks : s.x = i => s = StackOf(i)
  BY EntriesByIteration, VertexCounts
<1>3. CASE \E k \in 1 .. Len(bars) : bars[k].x = i
  <2>1. PICK j \in 1 .. Len(bars) : bars[j].x = i /\ stacks[j].x = i
    BY <1>3
  <2>2. bars2 = bars
    <3>1. bars[j].x = BarOf(i).x
      BY <1>2, <2>1
    <3>2. \A k \in 1 .. Len(bars) : bars[k].x = BarOf(i).x => bars[k] = BarOf(i)
      BY <1>2
    <3>3. PutEntry(bars, BarOf(i)) = bars
      BY <3>1, <3>2, PutKnown
    <3> QED  BY <1>1, <3>3
  <2>3. stacks2 = stacks
    <3>1. stacks[j].x = StackOf(i).x
      BY <1>2, <2>1
    <3>2. \A k \in 1 .. Len(stacks) : stacks[k].x = StackOf(i).x => stacks[k] = StackOf(i)
      BY <1>2
    <3>3. PutEntry(stacks, StackOf(i)) = stacks
      BY <3>1, <3>2, PutKnown
    <3> QED  BY <1>1, <3>3
  <2> QED  BY <1>3, <2>2, <2>3
<1>4. CASE ~(\E k \in 1 .. Len(bars) : bars[k].x = i)
  <2>1. /\ bars2 = Append(bars, BarOf(i)) /\ bars2 \in Seq(Bars)
        /\ Len(bars2) = Len(bars) + 1
        /\ \A k \in 1 .. Len(bars) : bars2[k] = bars[k]
        /\ bars2[Len(bars) + 1] = BarOf(i)
    <3>1. \A k \in 1 .. Len(bars) : bars[k].x # BarOf(i).x
      BY <1>2, <1>4
    <3>2. bars2 = Append(bars, BarOf(i))
      BY <1>1, <3>1, PutNew
    <3>3. BarOf(i) \in Bars
      BY <1>2
    <3>4. /\ Append(bars, BarOf(i)) \in Seq(Bars)
          /\ Len(Append(bars, BarOf(i))) = Len(bars) + 1
          /\ \A k \in 1 .. Len(bars) : Append(bars, BarOf(i))[k] = bars[k]
          /\ Append(bars, BarOf(i))[Len(bars) + 1] = BarOf(i)
      BY <3>3, AppendProperties
    <3> QED  BY <3>2, <3>4
  <2>2. /\ stacks2 \in Seq(Stacks)
        /\ Len(stacks2) = Len(stacks) + 1
        /\ \A k \in 1 .. Len(stacks) : stacks2[k] = stacks[k]
        /\ stacks2[Len(stacks) + 1] = StackOf(i)
    <3>1. \A k \in 1 .. Len(stacks) : stacks[k].x # StackOf(i).x
      BY <1>2, <1>4
    <3>2. stacks2 = Append(stacks, StackOf(i))
      BY <1>1, <3>1, PutNew
    <3>3. StackOf(i) \in Stacks
      BY <1>2
    <3>4. /\ Append(stacks, StackOf(i)) \in Seq(Stacks)
          /\ Len(Append(stacks, StackOf(i))) = Len(stacks) + 1
          /\ \A k \in 1 .. Len(stacks) : Append(stacks, StackOf(i))[k] = stacks[k]
          /\ Append(stacks, StackOf(i))[Len(stacks) + 1] = StackOf(i)
      BY <3>3, AppendProperties
    <3> QED  BY <3>2, <3>4
  <2>3. ASSUME NEW k \in 1 .. Len(bars2)
        PROVE  bars2[k].x = stacks2[k].x
    <3>1. CASE k = Len(bars) + 1
      BY <1>2, <2>1, <2>2, <3>1
    <3>2. CASE k \in 1 .. Len(bars)
      BY <2>1, <2>2, <3>2
    <3>3. Len(bars) \in Nat
      OBVIOUS
    <3> QED  BY <2>1, <3>1, <3>2, <3>3
  <2> QED  BY <2>1, <2>2, <2>3
<1> QED  BY <1>3, <1>4

LEMMA ResetScope ==
  ASSUME NEW s \in Scopes
  PROVE  /\ Reset(s) \in Scopes
         /\ Reset(s).environment = s.environment /\ Reset(s).dataset = s.dataset
         /\ ~Reset(s).showStopBtn /\ ~Reset(s).showResults
         /\ Reset(s).intervalID = NoInterval
         /\ Reset(s).iteration = 0 /\ Reset(s).lastIteration = -1
         /\ Reset(s).convergenceChart = << >> /\ Reset(s).stateChart = << >>
<1>1. << >> \in Seq(Bars) /\ << >> \in Seq(Stacks) /\ 0 \in 0 .. NIterations
      /\ -1 \in -1 .. NIterations /\ NoInterval \in Nat
  BY VertexCounts DEF NoInterval
<1> QED  BY <1>1 DEF Reset, Scopes, Cleared, NoInterval

-----------------------------------------------------------------------------
(***************************************************************************)
(* What charts in order look like                                          *)
(***************************************************************************)
\* Every set of natural numbers has a least one: no interval 0 .. n is smaller than all
\* that are given.
LEMMA LeastNumber ==
  ASSUME NEW T, T \subseteq Nat, T # {}
  PROVE  \E x \in T : \A y \in T : x <= y
<1> DEFINE Up == {0 .. n : n \in T}
<1>1. \A n \in Nat : 0 .. n \in SUBSET Nat
  OBVIOUS
<1>2. Up \subseteq FiniteSubsetsOf(Nat) /\ Up # {}
  <2>1. \A n \in Nat : 0 .. n \in SUBSET Nat /\ IsFiniteSet(0 .. n)
    BY FS_Interval
  <2>2. \A n \in Nat : 0 .. n \in FiniteSubsetsOf(Nat)
    BY <2>1, Zenon DEF FiniteSubsetsOf
  <2> QED  BY <2>2
<1>3. PICK U \in Up : \A V \in Up : ~ (<<V, U>> \in StrictSubsetOrdering(Nat))
  <2> HIDE DEF Up
  <2> QED  BY <1>2, WFMin, FS_StrictSubsetOrderingWellFounded
<1>4. PICK x \in T : U = 0 .. x
  OBVIOUS
<1>5. ASSUME NEW y \in T, y < x
      PROVE  FALSE
  <2>1. 0 .. y \subseteq 0 .. x /\ x \in 0 .. x /\ x \notin 0 .. y
    BY <1>5
  <2>2. <<0 .. y, 0 .. x>> \in StrictSubsetOrdering(Nat)
    BY <1>1, <2>1 DEF StrictSubsetOrdering
  <2> QED  BY <1>3, <1>4, <2>2
<1> QED BY <1>5

\* So a bounded set of them has a largest one.
LEMMA LargestNumber ==
  ASSUME NEW T, T \subseteq Nat, T # {}, NEW b \in Nat, \A t \in T : t <= b
  PROVE  \E x \in T : \A y \in T : y <= x
<1> DEFINE Down == {b - t : t \in T}
<1>1. Down \subseteq Nat /\ Down # {}
  <2>1. \A t \in T : b - t \in Nat
    OBVIOUS
  <2>2. PICK t \in T : TRUE
    OBVIOUS
  <2>3. b - t \in Down
    OBVIOUS
  <2> QED  BY <2>1, <2>3
<1>2. PICK d \in Down : \A e \in Down : d <= e
  <2> HIDE DEF Down
  <2> QED  BY <1>1, LeastNumber
<1>3. PICK x \in T : d = b - x
  OBVIOUS
<1>4. \A y \in T : b - x <= b - y
  BY <1>2, <1>3
<1> QED  BY <1>4

LEMMA StackFields ==
  ASSUME NEW i \in Iterations
  PROVE  /\ StackOf(i).x = i /\ StackOf(i).sum = Vertices
         /\ Len(StackOf(i).y) = 2 /\ DOMAIN StackOf(i).y = 1 .. 2
         /\ StackOf(i).y[1] = [val |-> State0[i], accum |-> 0]
         /\ StackOf(i).y[2] = [val |-> Vertices - State0[i], accum |-> State0[i]]
         /\ State0[i] \in Nat /\ Vertices \in Nat /\ State0[i] <= Vertices
  BY VertexCounts DEF StackOf

LEMMA QuotientIsLess ==
  ASSUME NEW a \in Nat, NEW b \in Nat \ {0}
  PROVE  a \div b \in Nat /\ a \div b <= a
<1> DEFINE q == a \div b
<1>1. q \in Nat /\ b * q <= a
  <2>1. a \div b \in Nat
    OBVIOUS
  <2>2. b * (a \div b) <= a
    OBVIOUS
  <2> QED  BY <2>1, <2>2
<1> HIDE DEF q
<1>2. q <= b * q
  <2>1. \A c \in Nat : 0 <= c * q
    BY <1>1
  <2>2. 0 <= (b - 1) * q
    BY <2>1
  <2>3. b * q = (b - 1) * q + q
    BY <1>1
  <2>4. b * q \in Nat /\ (b - 1) * q \in Nat
    BY <1>1
  <2> QED  BY <1>1, <2>2, <2>3, <2>4
<1>3. b * q \in Nat
  BY <1>1
<1> QED  BY <1>1, <1>2, <1>3 DEF q

\* Charts in the order of their iterations lie inside their axes.
LEMMA OrderedChartsFit ==
  ASSUME NEW bars \in Seq(Bars), NEW stacks \in Seq(Stacks),
         Len(bars) = Len(stacks), \A k \in 1 .. Len(bars) : bars[k].x = stacks[k].x,
         \A i, j \in 1 .. Len(bars) : i < j => bars[i].x < bars[j].x
  PROVE  BarsInSlots(bars) /\ StacksFillAxis(stacks)
<1> DEFINE n == Len(bars)
           X(k) == bars[k].x
<1>1. n \in Nat /\ DOMAIN bars = 1 .. n /\ DOMAIN stacks = 1 .. n
  OBVIOUS
<1>2. \A k \in 1 .. n : /\ bars[k] \in Bars /\ stacks[k] \in Stacks
                        /\ X(k) \in Iterations
                        /\ bars[k] = BarOf(X(k)) /\ stacks[k] = StackOf(X(k))
  BY EntriesByIteration
<1>3. CASE n = 0
  BY <1>1, <1>3 DEF BarsInSlots, StacksFillAxis
<1>4. CASE n # 0
  <2>1. \A k \in 1 .. n : X(1) <= X(k) /\ X(k) <= X(n)
    BY <1>1, <1>2, <1>4 DEF Iterations
  <2>2. Axis(bars) = [from |-> X(1), slots |-> X(n) - X(1) + 1]
        /\ Axis(stacks) = Axis(bars)
    BY <1>4 DEF Axis
  <2>3. \A k \in 1 .. n : /\ Slot(bars, bars[k]) = X(k) - X(1)
                          /\ X(k) - X(1) \in 0 .. Axis(bars).slots - 1
    BY <1>2, <1>4, <2>1, <2>2 DEF Slot, Iterations
  <2>4. \A i, j \in 1 .. n : X(i) - X(1) = X(j) - X(1) => i = j
    BY <1>1, <1>2, <1>4 DEF Iterations
  <2>5. Axis(bars).slots > 0
    BY <1>2, <1>4, <2>1, <2>2 DEF Iterations
  <2>6. \A k \in 1 .. n : bars[k].y \in 0 .. BarTop(bars)
    <3> DEFINE T == {bars[k].y : k \in DOMAIN bars}
    <3>1. \A k \in 1 .. n : bars[k].y \in Nat /\ bars[k].y <= 100 * Vertices
      <4>1. \A i \in Iterations : /\ State0[i] \in 0 .. Vertices /\ Vertices \in Nat \ {0}
                                  /\ BarOf(i).y = (100 * State0[i]) \div Vertices
        BY VertexCounts DEF BarOf
      <4>2. \A i \in Iterations : 100 * State0[i] \in Nat /\ 100 * State0[i] <= 100 * Vertices
        BY <4>1
      <4>3. ASSUME NEW i \in Iterations
            PROVE  BarOf(i).y \in Nat /\ BarOf(i).y <= 100 * Vertices
        BY <4>1, <4>2, QuotientIsLess, VertexCounts
      <4> QED  BY <1>2, <4>3
    <3>2. T \subseteq Nat /\ T # {} /\ \A t \in T : t <= 100 * Vertices
      BY <1>1, <1>4, <3>1
    <3>3. \E t \in T : \A u \in T : u <= t
      <4>1. 100 * Vertices \in Nat
        BY VertexCounts
      <4> HIDE DEF T
      <4> QED  BY <3>2, <4>1, LargestNumber
    <3>4. \E t \in T : \A k \in DOMAIN bars : bars[k].y <= t
      BY <3>3
    <3>5. BarTop(bars) \in T /\ \A k \in DOMAIN bars : bars[k].y <= BarTop(bars)
      BY <3>4 DEF BarTop
    <3> QED  BY <1>1, <3>1, <3>2, <3>5
  <2>7. BarsInSlots(bars)
    BY <1>1, <2>3, <2>4, <2>5, <2>6 DEF BarsInSlots
  <2>8. StackTop(stacks) = Vertices
    <3>1. ASSUME NEW k \in 1 .. n
          PROVE  stacks[k].sum = Vertices
      <4>1. stacks[k] = StackOf(X(k)) /\ X(k) \in Iterations
        BY <1>2
      <4> HIDE DEF X
      <4> QED  BY <4>1, StackFields
    <3>2. {stacks[k].sum : k \in DOMAIN stacks} = {Vertices}
      BY <1>1, <1>4, <3>1
    <3>3. \A k \in DOMAIN stacks : stacks[k].sum <= Vertices
      BY <1>1, <3>1, VertexCounts
    <3> QED  BY <3>2, <3>3 DEF StackTop
  <2>9. ASSUME NEW i \in 1 .. n
        PROVE  /\ DOMAIN stacks[i].y = 1 .. 2 /\ Len(stacks[i].y) = 2
               /\ Segment(stacks, stacks[i], 1) = [slot |-> X(i) - X(1), bottom |-> 0,
                                                   top |-> State0[X(i)]]
               /\ Segment(stacks, stacks[i], 2) = [slot |-> X(i) - X(1), bottom |-> State0[X(i)],
                                                   top |-> Vertices]
    <3>1. stacks[i] = StackOf(X(i)) /\ X(i) \in Iterations
      BY <1>2
    <3>2. StackAxis(stacks).from = X(1) /\ X(i) - X(1) \in Int
      BY <1>2, <1>4, <2>2 DEF StackAxis, Iterations
    <3>3. /\ DOMAIN stacks[i].y = 1 .. 2 /\ Len(stacks[i].y) = 2
          /\ stacks[i].x = X(i)
          /\ stacks[i].y[1] = [val |-> State0[X(i)], accum |-> 0]
          /\ stacks[i].y[2] = [val |-> Vertices - State0[X(i)], accum |-> State0[X(i)]]
          /\ State0[X(i)] \in Nat /\ Vertices \in Nat
      BY <3>1, StackFields
    <3> QED  BY <3>2, <3>3 DEF Segment
  <2>10. ASSUME NEW i \in 1 .. n, NEW j \in 1 .. n, NEW f \in 1 .. 2, NEW g \in 1 .. 2
         PROVE  LET of(h) == Segment(stacks, stacks[i], h)
                IN  /\ of(f).slot \in 0 .. StackAxis(stacks).slots - 1
                    /\ of(f).slot = Segment(stacks, stacks[j], 1).slot => i = j
                    /\ of(f).bottom = (IF f = 1 THEN 0 ELSE of(f - 1).top)
                    /\ of(f).top <= StackTop(stacks)
    <3> DEFINE of(h) == Segment(stacks, stacks[i], h)
    <3>1. Segment(stacks, stacks[j], 1).slot = X(j) - X(1)
      <4>1. Segment(stacks, stacks[j], 1) = [slot |-> X(j) - X(1), bottom |-> 0,
                                             top |-> State0[X(j)]]
        BY <2>9
      <4> HIDE DEF X
      <4> QED  BY <4>1
    <3>2. State0[X(i)] <= Vertices /\ Vertices <= Vertices
      BY <1>2, VertexCounts
    <3>3. X(i) - X(1) \in 0 .. StackAxis(stacks).slots - 1
      BY <2>2, <2>3 DEF StackAxis
    <3>4. /\ of(1) = [slot |-> X(i) - X(1), bottom |-> 0, top |-> State0[X(i)]]
          /\ of(2) = [slot |-> X(i) - X(1), bottom |-> State0[X(i)], top |-> Vertices]
      BY <2>9
    <3> HIDE DEF of
    <3>5. of(f).slot = X(i) - X(1) /\ of(f).top <= Vertices
      BY <3>2, <3>4
    <3>6. of(f).bottom = (IF f = 1 THEN 0 ELSE of(f - 1).top)
      BY <3>4
    <3>7. X(i) - X(1) = X(j) - X(1) => i = j
      BY <2>4
    <3> QED  BY <2>8, <3>1, <3>3, <3>5, <3>6, <3>7 DEF of
  <2>11. Segment(stacks, stacks[1], Len(stacks[1].y)).top = StackTop(stacks) /\ 1 \in DOMAIN stacks
    <3>1. 1 \in 1 .. n
      BY <1>1, <1>4
    <3>2. /\ Len(stacks[1].y) = 2
          /\ Segment(stacks, stacks[1], 2) = [slot |-> X(1) - X(1), bottom |-> State0[X(1)],
                                              top |-> Vertices]
      BY <2>9, <3>1
    <3> QED  BY <1>1, <2>8, <3>1, <3>2
  <2>12. StacksFillAxis(stacks)
    <3>1. ASSUME NEW i \in DOMAIN stacks, NEW j \in DOMAIN stacks
          PROVE  LET ys == DOMAIN stacks[i].y
                     of(f) == Segment(stacks, stacks[i], f)
                 IN  \A f, g \in ys :
                       /\ of(f).slot \in 0 .. StackAxis(stacks).slots - 1
                       /\ of(f).slot = Segment(stacks, stacks[j], 1).slot => i = j
                       /\ of(f).bottom = (IF f = 1 THEN 0 ELSE of(f - 1).top)
                       /\ of(f).top <= StackTop(stacks)
      <4>1. DOMAIN stacks[i].y = 1 .. 2 /\ i \in 1 .. n /\ j \in 1 .. n
        BY <1>1, <2>9
      <4> QED  BY <2>10, <4>1
    <3>2. \E i \in DOMAIN stacks : Segment(stacks, stacks[i], Len(stacks[i].y)).top = StackTop(stacks)
      BY <2>11
    <3> HIDE DEF n, X
    <3> QED  BY <3>1, <3>2 DEF StacksFillAxis
  <2> QED  BY <2>7, <2>12
<1> QED  BY <1>3, <1>4
-----------------------------------------------------------------------------
(***************************************************************************)
(* What a step that leaves a part alone keeps of it                        *)
(***************************************************************************)
LEMMA Pending ==
  /\ StartPending  <=> Waiting  # {} \/ Launching  # {}
  /\ StartPending' <=> Waiting' # {} \/ Launching' # {}
  BY DEF StartPending, Waiting, Launching

LEMMA Indices ==
  ASSUME ViewerType
  PROVE  /\ Len(inFlight) \in Nat /\ DOMAIN inFlight = 1 .. Len(inFlight)
         /\ \A i \in DOMAIN inFlight : inFlight[i] \in Calls
  BY DEF ViewerType

\* No new start, nothing pending that was not, no interval that was not.
LEMMA StartsCarried ==
  ASSUME StartsInTurn, overlapped' = overlapped, starts' = starts,
         Launching' = Launching, Waiting' = Waiting,
         \A i \in Launching : inFlight'[i].start = inFlight[i].start,
         intervals' \subseteq intervals,
         intervals' = {} \/ scope'.intervalID = scope.intervalID
  PROVE  StartsInTurn'
<1> SUFFICES ASSUME ~overlapped'
             PROVE  StartsInTurn'
  BY DEF StartsInTurn
<1>1. /\ \A i \in Launching : inFlight[i].start = starts
      /\ \A t \in Waiting : t.start = starts
      /\ \A i, j \in Launching : i = j
      /\ Waiting # {} => Launching = {}
      /\ StartPending => intervals = {}
      /\ intervals \subseteq {scope.intervalID}
  BY DEF StartsInTurn
<1>2. StartPending' <=> StartPending
  BY Pending
<1>3. intervals' \subseteq {scope'.intervalID}
  BY <1>1
<1> QED  BY <1>1, <1>2, <1>3 DEF StartsInTurn

\* The requests of the next state are some of those of this one, in their order, none
\* with an answer it loses or with statistics it did not bring.
LEMMA OrderCarried ==
  ASSUME SearchesInOrder, InOrder' => InOrder, starts' = starts,
         scope'.environment = scope.environment, StartPending' => StartPending,
         NEW m,
         \A k \in DOMAIN inFlight' :
            /\ m[k] \in DOMAIN inFlight
            /\ inFlight'[k].kind = inFlight[m[k]].kind
            /\ inFlight'[k].start = inFlight[m[k]].start
            /\ inFlight'[k].to = inFlight[m[k]].to
            /\ inFlight[m[k]].answer # Unserved => inFlight'[k].answer # Unserved
            /\ Brought(k)' => /\ Brought(m[k])
                              /\ inFlight'[k].iteration = inFlight[m[k]].iteration,
         \A j, k \in DOMAIN inFlight' : j < k => m[j] < m[k],
         NEW len \in Nat, DOMAIN inFlight' = 1 .. len,
         NEW len0 \in Nat, DOMAIN inFlight = 1 .. len0,
         InOrder' => \A k \in Searches' : Brought(k)' =>
            inFlight'[k].iteration \in LastDrawn' .. engine'[scope.environment]
  PROVE  SearchesInOrder'
<1> SUFFICES ASSUME InOrder'
             PROVE  SearchesInOrder'
  BY DEF SearchesInOrder
<1>1. /\ StartPending => Searches = {}
      /\ \A i \in Searches :
           /\ inFlight[i].to.environment = scope.environment
           /\ Brought(i) =>
                /\ \A k \in 1 .. i - 1 : inFlight[k].answer # Unserved
                /\ \A k \in Searches : k < i /\ Brought(k) =>
                                         inFlight[k].iteration <= inFlight[i].iteration
  BY DEF SearchesInOrder
<1>2. \A k \in Searches' : k \in 1 .. len /\ m[k] \in Searches /\ m[k] \in 1 .. len0
  BY DEF Searches
<1>3. StartPending' => Searches' = {}
  BY <1>1, <1>2
<1>4. ASSUME NEW i \in Searches'
      PROVE  /\ inFlight'[i].to.environment = scope'.environment
             /\ Brought(i)' =>
                  /\ inFlight'[i].iteration \in LastDrawn' .. engine'[scope'.environment]
                  /\ \A k \in 1 .. i - 1 : inFlight'[k].answer # Unserved
                  /\ \A k \in Searches' : k < i /\ Brought(k)' =>
                                           inFlight'[k].iteration <= inFlight'[i].iteration
  <2>1. inFlight'[i].to.environment = scope'.environment
    BY <1>1, <1>2
  <2>2. ASSUME Brought(i)', NEW k \in 1 .. i - 1
        PROVE  inFlight'[k].answer # Unserved
    <3>1. k \in 1 .. len /\ k < i
      BY <1>2
    <3>2. m[k] < m[i] /\ m[k] \in 1 .. len0 /\ m[i] \in 1 .. len0 /\ m[i] \in Searches
      BY <1>2, <3>1
    <3>3. m[k] \in 1 .. m[i] - 1
      BY <3>2
    <3>4. Brought(m[i])
      BY <1>2, <2>2
    <3> QED  BY <1>1, <3>1, <3>2, <3>3, <3>4
  <2>3. ASSUME Brought(i)', NEW k \in Searches', k < i, Brought(k)'
        PROVE  inFlight'[k].iteration <= inFlight'[i].iteration
    <3>1. m[k] < m[i] /\ m[k] \in Searches /\ m[i] \in Searches
      BY <1>2, <2>3
    <3>2. Brought(m[i]) /\ Brought(m[k])
      BY <1>2, <2>3
    <3>3. inFlight[m[k]].iteration <= inFlight[m[i]].iteration
      BY <1>1, <3>1, <3>2
    <3> QED  BY <1>2, <2>3, <3>3
  <2> QED  BY <2>1, <2>2, <2>3
<1> QED  BY <1>3, <1>4 DEF SearchesInOrder

\* The requests stay as they are.
LEMMA OrderUnmoved ==
  ASSUME ViewerType, SearchesInOrder, InOrder' => InOrder, UNCHANGED <<starts, inFlight>>,
         scope'.environment = scope.environment, StartPending' => StartPending,
         LastDrawn' = LastDrawn, engine' \in [Environments -> Nat],
         \A e \in Environments : engine[e] <= engine'[e]
  PROVE  SearchesInOrder'
<1>1. /\ Len(inFlight) \in Nat /\ DOMAIN inFlight = 1 .. Len(inFlight)
      /\ \A i \in DOMAIN inFlight : inFlight[i] \in Calls
  BY Indices
<1> DEFINE m == [k \in DOMAIN inFlight |-> k]
<1>2. \A k \in Searches' : k \in Searches /\ (Brought(k)' => Brought(k))
  BY DEF Searches, Brought
<1>3. ASSUME InOrder', NEW k \in Searches', Brought(k)'
      PROVE  inFlight'[k].iteration \in LastDrawn' .. engine'[scope.environment]
  <2>1. /\ k \in Searches /\ Brought(k) /\ inFlight[k] \in Calls
    BY <1>1, <1>2, <1>3 DEF Searches
  <2>2. /\ inFlight[k].to.environment = scope.environment
        /\ inFlight[k].iteration \in LastDrawn .. engine[scope.environment]
    BY <1>3, <2>1 DEF SearchesInOrder
  <2>3. scope.environment \in Environments
    BY <2>1, <2>2 DEF Calls
  <2>4. engine[scope.environment] \in Nat /\ engine'[scope.environment] \in Nat
        /\ engine[scope.environment] <= engine'[scope.environment]
    BY <2>3 DEF ViewerType
  <2> QED  BY <2>2, <2>4
<1>4. /\ \A k \in DOMAIN inFlight' :
            /\ m[k] \in DOMAIN inFlight
            /\ inFlight'[k].kind = inFlight[m[k]].kind
            /\ inFlight'[k].start = inFlight[m[k]].start
            /\ inFlight'[k].to = inFlight[m[k]].to
            /\ inFlight[m[k]].answer # Unserved => inFlight'[k].answer # Unserved
            /\ Brought(k)' => /\ Brought(m[k])
                              /\ inFlight'[k].iteration = inFlight[m[k]].iteration
      /\ \A j, k \in DOMAIN inFlight' : j < k => m[j] < m[k]
      /\ DOMAIN inFlight' = 1 .. Len(inFlight)
  BY <1>1 DEF Brought
<1> HIDE DEF m
<1> QED  BY <1>1, <1>3, <1>4, OrderCarried

\* The charts stay as they are.
LEMMA ChartsCarried ==
  ASSUME ViewerType, ChartsInOrder, ChartsAgree, QuietUntilReady,
         InOrder' => InOrder, StartPending' => StartPending,
         scope'.environment = scope.environment \/ scope.convergenceChart = << >>,
         scope'.convergenceChart = scope.convergenceChart, scope'.stateChart = scope.stateChart,
         scope'.lastIteration = scope.lastIteration,
         scope'.convergenceData = scope.convergenceData,
         scope'.showResults = scope.showResults, scope'.iteration = scope.iteration,
         engine' \in [Environments -> Nat],
         \A e \in Environments : engine[e] <= engine'[e]
  PROVE  ChartsInOrder' /\ ChartsAgree' /\ LastDrawn' = LastDrawn
<1>1. ChartsAgree' /\ LastDrawn' = LastDrawn
  BY DEF ChartsAgree, LastDrawn
<1>2. scope.convergenceChart # << >> => scope.environment \in Environments
  BY DEF QuietUntilReady
<1> SUFFICES ASSUME InOrder'
             PROVE  ChartsInOrder'
  BY <1>1 DEF ChartsInOrder
<1>3. /\ StartPending => scope.convergenceChart = << >>
      /\ \A i, j \in DOMAIN scope.convergenceChart :
            i < j => scope.convergenceChart[i].x < scope.convergenceChart[j].x
      /\ scope.convergenceChart # << >> => /\ scope.lastIteration = LastDrawn
                                           /\ scope.convergenceData = LastDrawn
                                           /\ LastDrawn <= engine[scope.environment]
      /\ scope.convergenceChart = << >> => scope.lastIteration <= 0 /\ ~scope.showResults
      /\ scope.iteration # 0 => scope.showResults
  BY DEF ChartsInOrder
<1>4. scope.convergenceChart # << >> => LastDrawn' <= engine'[scope'.environment]
  <2> SUFFICES ASSUME scope.convergenceChart # << >>
               PROVE  LastDrawn' <= engine'[scope'.environment]
    OBVIOUS
  <2>1. scope.environment \in Environments /\ scope'.environment = scope.environment
    BY <1>2
  <2>2. scope.convergenceData \in Int
    BY VertexCounts DEF ViewerType, Scopes
  <2>3. LastDrawn \in Int
    BY <1>3, <2>2
  <2>4. engine[scope.environment] \in Nat /\ engine'[scope.environment] \in Nat
        /\ engine[scope.environment] <= engine'[scope.environment]
    BY <2>1 DEF ViewerType
  <2> QED  BY <1>1, <1>3, <2>1, <2>3, <2>4
<1> QED  BY <1>1, <1>3, <1>4 DEF ChartsInOrder

\* The charts are cleared.
LEMMA ChartsCleared ==
  ASSUME scope'.convergenceChart = << >>, scope'.stateChart = << >>,
         scope'.lastIteration = -1, scope'.iteration = 0, ~scope'.showResults
  PROVE  ChartsInOrder' /\ ChartsAgree' /\ LastDrawn' = 0
  BY DEF ChartsInOrder, ChartsAgree, LastDrawn

-----------------------------------------------------------------------------
(***************************************************************************)
(* The steps of the viewer page                                            *)
(***************************************************************************)
LEMMA FirstDataset ==
  ASSUME NEW s \in Scopes, NEW e \in Environments
  PROVE  /\ SelectFirst(e).environment = e
         /\ SelectFirst(e) = [scope EXCEPT !.environment = e, !.dataset = Head(Available[e])]
         /\ Head(Available[e]) \in Datasets /\ e \in Selectable
<1>1. Available[e] \in Seq(Datasets) /\ Available[e] # << >>
  BY ViewerAssumption
<1>2. Head(Available[e]) \in Datasets
  BY <1>1
<1> QED  BY <1>2 DEF SelectFirst, Selectable

LEMMA ViewerInitInv == ViewerInit => ViewerInv
<1> SUFFICES ASSUME ViewerInit
             PROVE  ViewerInv
  OBVIOUS
<1>1. /\ config = "loading" /\ timers = {} /\ intervals = {} /\ inFlight = << >>
      /\ scope = [environment |-> CHOOSE e \in Environments : TRUE, dataset |-> NoDataset,
                inputTab |-> TRUE, showStopBtn |-> FALSE, showResults |-> FALSE,
                showGraphStats |-> FALSE, intervalID |-> NoInterval,
                iteration |-> 0, lastIteration |-> -1, convergenceData |-> 0,
                convergenceChart |-> << >>, stateChart |-> << >>]
      /\ starts = 0 /\ faults = 0
      /\ overlapped = FALSE /\ strayed = FALSE /\ disordered = FALSE
  BY DEF ViewerInit, Cleared
<1>2. ViewerType
  <2>1. << >> \in Seq(Bars) /\ << >> \in Seq(Stacks) /\ << >> \in Seq(Calls)
        /\ 0 \in 0 .. NIterations /\ -1 \in -1 .. NIterations /\ NoInterval \in Nat
    BY VertexCounts DEF NoInterval
  <2>2. scope \in Scopes
    BY <1>1, <2>1 DEF Scopes, Selectable
  <2>3. engine \in [Environments -> 0 .. NIterations]
        /\ jobs \in [Environments -> Datasets \union {NoDataset}]
    BY <2>1 DEF ViewerInit
  <2> QED  BY <1>1, <2>1, <2>2, <2>3 DEF ViewerType
<1>3. QuietUntilReady /\ OfAStart /\ ChartsAgree
  BY <1>1 DEF QuietUntilReady, OfAStart, ChartsAgree
<1>4. StartsInTurn /\ SearchesInOrder /\ ChartsInOrder
  <2>1. Launching = {} /\ Waiting = {} /\ Searches = {}
    BY <1>1 DEF Launching, Waiting, Searches
  <2> QED  BY <1>1, <2>1, Pending DEF StartsInTurn, SearchesInOrder, ChartsInOrder
<1> QED  BY <1>2, <1>3, <1>4 DEF ViewerInv

\* Steps that change neither the requests, nor what is pending, nor the charts.
LEMMA AsideKeeps ==
  ASSUME ViewerInv, UNCHANGED <<intervals, inFlight, starts, overlapped, disordered>>,
         strayed' = strayed \/ strayed' = TRUE,
         strayed' = FALSE => scope'.environment = scope.environment,
         Waiting' = Waiting,
         scope'.intervalID = scope.intervalID,
         scope'.convergenceChart = scope.convergenceChart, scope'.stateChart = scope.stateChart,
         scope'.lastIteration = scope.lastIteration,
         scope'.convergenceData = scope.convergenceData,
         scope'.showResults = scope.showResults, scope'.iteration = scope.iteration,
         engine' \in [Environments -> Nat],
         \A e \in Environments : engine[e] <= engine'[e]
  PROVE  OfAStart' /\ ChartsAgree' /\ StartsInTurn' /\ SearchesInOrder' /\ ChartsInOrder'
<1>1. ViewerType /\ QuietUntilReady /\ OfAStart /\ ChartsAgree
      /\ StartsInTurn /\ SearchesInOrder /\ ChartsInOrder
  BY DEF ViewerInv
<1>2. OfAStart' /\ ChartsAgree' /\ LastDrawn' = LastDrawn
  BY <1>1 DEF OfAStart, ChartsAgree, LastDrawn
<1>3. Launching' = Launching
  BY DEF Launching
<1>4. StartsInTurn'
  BY <1>1, <1>3, StartsCarried
<1>5. (StartPending' <=> StartPending) /\ (InOrder' => InOrder)
  BY <1>3, Pending DEF InOrder
<1>6. strayed' = TRUE => SearchesInOrder' /\ ChartsInOrder'
  BY DEF SearchesInOrder, ChartsInOrder, InOrder
<1>7. CASE scope'.environment = scope.environment
  <2>1. SearchesInOrder'
    BY <1>1, <1>2, <1>5, <1>7, OrderUnmoved
  <2>2. ChartsInOrder'
    BY <1>1, <1>5, <1>7, ChartsCarried
  <2> QED  BY <1>2, <1>4, <2>1, <2>2
<1>8. CASE scope'.environment # scope.environment
  <2>1. strayed' = TRUE
    BY <1>1, <1>8 DEF ViewerType
  <2> QED  BY <1>2, <1>4, <1>6, <2>1
<1> QED  BY <1>7, <1>8

LEMMA EngineIsNat ==
  ASSUME ViewerType, engine' = engine
  PROVE  engine' \in [Environments -> Nat] /\ \A e \in Environments : engine[e] <= engine'[e]
  BY VertexCounts DEF ViewerType

LEMMA LoadKeepsViewer == ViewerInv /\ LoadExecutionEnvironments => ViewerInv'
<1> SUFFICES ASSUME ViewerInv, LoadExecutionEnvironments
             PROVE  ViewerInv'
  OBVIOUS
<1>1. ViewerType /\ QuietUntilReady
  BY DEF ViewerInv
<1>2. /\ config = "loading" /\ UNCHANGED <<timers, intervals, inFlight, jobs, engine>>
      /\ UNCHANGED <<starts, overlapped, strayed, disordered>>
  BY DEF LoadExecutionEnvironments, historyVars
<1>3. /\ inFlight = << >> /\ timers = {} /\ intervals = {}
      /\ ~scope.showStopBtn /\ scope.convergenceChart = << >>
  BY <1>1, <1>2 DEF QuietUntilReady
<1>4. /\ Launching' = {} /\ Waiting' = {} /\ Searches' = {}
  BY <1>2, <1>3 DEF Launching, Waiting, Searches
<1>5. InOrder => /\ scope.lastIteration <= 0 /\ ~scope.showResults
                 /\ scope.iteration # 0 => scope.showResults
  BY <1>3 DEF ViewerInv, ChartsInOrder
<1>6. ~StartPending'
  BY <1>4, Pending
<1>7. /\ scope'.convergenceChart = scope.convergenceChart /\ scope'.stateChart = scope.stateChart
      /\ scope'.lastIteration = scope.lastIteration
      /\ scope'.showResults = scope.showResults /\ scope'.iteration = scope.iteration
      /\ scope'.showStopBtn = scope.showStopBtn
      /\ scope' \in Scopes /\ faults' \in Nat
      /\ config' \in {"ready", "missing"}
      /\ config' = "ready" => scope'.environment \in Environments
  <2>1. CASE \E e \in Environments : config' = "ready" /\ scope' = SelectFirst(e) /\ faults' = faults
    <3>1. PICK e \in Environments : config' = "ready" /\ scope' = SelectFirst(e) /\ faults' = faults
      BY <2>1
    <3>2. scope' = [scope EXCEPT !.environment = e, !.dataset = Head(Available[e])]
          /\ Head(Available[e]) \in Datasets /\ e \in Selectable
      BY <1>1, <3>1, FirstDataset DEF ViewerType
    <3> QED  BY <1>1, <3>1, <3>2 DEF ViewerType, Scopes
  <2>2. CASE faults' = faults + 1 /\ config' = "missing" /\ scope' = scope
    BY <1>1, <2>2 DEF ViewerType
  <2> QED  BY <2>1, <2>2 DEF LoadExecutionEnvironments
<1>8. ViewerType'
  BY <1>1, <1>2, <1>7 DEF ViewerType
<1>9. QuietUntilReady' /\ OfAStart' /\ ChartsAgree'
  BY <1>2, <1>3, <1>7 DEF ViewerInv, QuietUntilReady, OfAStart, ChartsAgree
<1>10. StartsInTurn'
  BY <1>2, <1>3, <1>4, <1>6 DEF StartsInTurn
<1>11. SearchesInOrder'
  BY <1>4 DEF SearchesInOrder
<1>12. ChartsInOrder'
  <2>1. InOrder' = InOrder
    BY <1>2 DEF InOrder
  <2> QED  BY <1>3, <1>5, <1>7, <2>1 DEF ChartsInOrder
<1> QED  BY <1>8, <1>9, <1>10, <1>11, <1>12 DEF ViewerInv

LEMMA SelectEnvironmentKeeps ==
  ASSUME ViewerInv, NEW e \in Environments, SelectEnvironment(e)
  PROVE  ViewerInv'
<1>1. ViewerType /\ QuietUntilReady
  BY DEF ViewerInv
<1>2. /\ config = "ready" /\ scope' = SelectFirst(e)
      /\ strayed' = (strayed \/ e # scope.environment)
      /\ UNCHANGED <<config, timers, intervals, inFlight, jobs, engine, faults>>
      /\ UNCHANGED <<starts, overlapped, disordered>>
  BY DEF SelectEnvironment, serviceVars
<1>3. scope' = [scope EXCEPT !.environment = e, !.dataset = Head(Available[e])]
      /\ Head(Available[e]) \in Datasets /\ e \in Selectable
  BY <1>1, <1>2, FirstDataset DEF ViewerType
<1>4. /\ scope'.environment = e /\ scope'.intervalID = scope.intervalID
      /\ scope'.convergenceChart = scope.convergenceChart /\ scope'.stateChart = scope.stateChart
      /\ scope'.lastIteration = scope.lastIteration
      /\ scope'.convergenceData = scope.convergenceData
      /\ scope'.showResults = scope.showResults /\ scope'.iteration = scope.iteration
      /\ scope' \in Scopes
  BY <1>1, <1>3 DEF ViewerType, Scopes
<1>5. strayed' \in BOOLEAN
  BY <1>2, Zenon
<1>6. (strayed' = strayed \/ strayed' = TRUE) /\ (strayed' = FALSE => e = scope.environment)
  BY <1>1, <1>2 DEF ViewerType
<1>7. ViewerType'
  BY <1>1, <1>2, <1>4, <1>5 DEF ViewerType
<1>8. QuietUntilReady'
  BY <1>2, <1>4 DEF QuietUntilReady
<1>9. Waiting' = Waiting
  BY <1>2 DEF Waiting
<1>10. engine' \in [Environments -> Nat] /\ \A f \in Environments : engine[f] <= engine'[f]
  BY <1>1, <1>2, EngineIsNat
<1>11. OfAStart' /\ ChartsAgree' /\ StartsInTurn' /\ SearchesInOrder' /\ ChartsInOrder'
  BY <1>2, <1>4, <1>6, <1>9, <1>10, AsideKeeps
<1> QED  BY <1>7, <1>8, <1>11 DEF ViewerInv

\* What only touches the dataset and what is shown.
LEMMA DisplayKeeps ==
  ASSUME ViewerInv, scope' \in Scopes, timers' \subseteq timers, Waiting' = Waiting,
         scope'.environment = scope.environment, scope'.intervalID = scope.intervalID,
         scope'.convergenceChart = scope.convergenceChart, scope'.stateChart = scope.stateChart,
         scope'.lastIteration = scope.lastIteration,
         scope'.convergenceData = scope.convergenceData,
         scope'.showResults = scope.showResults, scope'.iteration = scope.iteration,
         scope'.showStopBtn = scope.showStopBtn,
         UNCHANGED <<config, intervals, inFlight, jobs, engine, faults>>,
         UNCHANGED <<starts, overlapped, strayed, disordered>>
  PROVE  ViewerInv'
<1>1. ViewerType /\ QuietUntilReady
  BY DEF ViewerInv
<1>2. ViewerType'
  BY <1>1 DEF ViewerType
<1>3. QuietUntilReady'
  BY <1>1 DEF QuietUntilReady
<1>4. engine' \in [Environments -> Nat] /\ \A f \in Environments : engine[f] <= engine'[f]
  BY <1>1, EngineIsNat
<1>5. OfAStart' /\ ChartsAgree' /\ StartsInTurn' /\ SearchesInOrder' /\ ChartsInOrder'
  BY <1>4, AsideKeeps
<1> QED  BY <1>2, <1>3, <1>5 DEF ViewerInv

LEMMA SelectDatasetKeeps ==
  ASSUME ViewerInv, NEW d \in Datasets, SelectDataset(d)
  PROVE  ViewerInv'
<1>1. scope \in Scopes
  BY DEF ViewerInv, ViewerType
<1>2. /\ scope' = [scope EXCEPT !.dataset = d]
      /\ UNCHANGED <<config, timers, intervals, inFlight, jobs, engine, faults>>
      /\ UNCHANGED <<starts, overlapped, strayed, disordered>>
  BY DEF SelectDataset, serviceVars, historyVars
<1>3. scope' \in Scopes
  BY <1>1, <1>2 DEF Scopes
<1>4. Waiting' = Waiting
  BY <1>2 DEF Waiting
<1> QED  BY <1>1, <1>2, <1>3, <1>4, DisplayKeeps DEF Scopes

LEMMA ClickTabKeeps == ViewerInv /\ ClickTab => ViewerInv'
<1> SUFFICES ASSUME ViewerInv, ClickTab
             PROVE  ViewerInv'
  OBVIOUS
<1>1. scope \in Scopes
  BY DEF ViewerInv, ViewerType
<1>2. /\ scope' = [scope EXCEPT !.inputTab = ~scope.showStopBtn]
      /\ UNCHANGED <<config, timers, intervals, inFlight, jobs, engine, faults>>
      /\ UNCHANGED <<starts, overlapped, strayed, disordered>>
  BY DEF ClickTab, serviceVars, historyVars
<1>3. scope' \in Scopes
  BY <1>1, <1>2 DEF Scopes
<1>4. Waiting' = Waiting
  BY <1>2 DEF Waiting
<1> QED  BY <1>1, <1>2, <1>3, <1>4, DisplayKeeps DEF Scopes

LEMMA HideGraphStatsKeeps == ViewerInv /\ HideGraphStats => ViewerInv'
<1> SUFFICES ASSUME ViewerInv, HideGraphStats
             PROVE  ViewerInv'
  OBVIOUS
<1>1. scope \in Scopes
  BY DEF ViewerInv, ViewerType
<1>2. /\ scope' = [scope EXCEPT !.showGraphStats = FALSE]
      /\ UNCHANGED <<config, intervals, inFlight, jobs, engine, faults>>
      /\ UNCHANGED <<starts, overlapped, strayed, disordered>>
  BY DEF HideGraphStats, serviceVars, historyVars
<1>3. PICK t \in timers : t.act = "hideStats" /\ timers' = timers \ {t}
  BY DEF HideGraphStats
<1>4. Waiting' = Waiting /\ timers' \subseteq timers
  BY <1>3 DEF Waiting
<1>5. scope' \in Scopes
  BY <1>1, <1>2 DEF Scopes
<1> QED  BY <1>1, <1>2, <1>4, <1>5, DisplayKeeps DEF Scopes

LEMMA IterateKeeps ==
  ASSUME ViewerInv, NEW e \in Environments, Iterate(e)
  PROVE  ViewerInv'
<1>1. ViewerType /\ QuietUntilReady
  BY DEF ViewerInv
<1>2. /\ engine[e] < NIterations /\ engine' = [engine EXCEPT ![e] = engine[e] + 1]
      /\ UNCHANGED <<config, scope, timers, intervals, inFlight, jobs, faults>>
      /\ UNCHANGED <<starts, overlapped, strayed, disordered>>
  BY DEF Iterate, scopeVars, historyVars
<1>3. /\ engine' \in [Environments -> 0 .. NIterations]
      /\ \A f \in Environments : engine[f] <= engine'[f]
  BY <1>1, <1>2, VertexCounts DEF ViewerType
<1>4. engine' \in [Environments -> Nat]
  BY <1>3, VertexCounts
<1>5. ViewerType'
  BY <1>1, <1>2, <1>3 DEF ViewerType
<1>6. QuietUntilReady'
  BY <1>1, <1>2 DEF QuietUntilReady
<1>7. Waiting' = Waiting
  BY <1>2 DEF Waiting
<1>8. OfAStart' /\ ChartsAgree' /\ StartsInTurn' /\ SearchesInOrder' /\ ChartsInOrder'
  BY <1>2, <1>3, <1>4, <1>7, AsideKeeps
<1> QED  BY <1>5, <1>6, <1>8 DEF ViewerInv

\* Requests leave the page behind those in flight.
LEMMA Sent ==
  ASSUME ViewerType, scope.environment \in Environments,
         NEW kind \in {"launch", "stop", "search"}, NEW n \in Nat, Send(kind, n)
  PROVE  /\ inFlight' \in Seq(Calls)
         /\ DOMAIN inFlight = 1 .. Len(inFlight) /\ Len(inFlight) \in Nat
         /\ DOMAIN inFlight' = 1 .. Len(inFlight) + 1
         /\ \A k \in DOMAIN inFlight : inFlight'[k] = inFlight[k]
         /\ inFlight'[Len(inFlight) + 1] = [kind |-> kind, to |-> Target, start |-> n,
                                            answer |-> Unserved, iteration |-> 0]
<1> DEFINE r == [kind |-> kind, to |-> Target, start |-> n, answer |-> Unserved, iteration |-> 0]
<1>1. inFlight' = Append(inFlight, r)
  BY DEF Send
<1>2. Target \in [environment : Environments, dataset : Datasets \union {NoDataset}]
  BY DEF Target, ViewerType, Scopes
<1>3. r \in Calls
  BY <1>2, VertexCounts DEF Calls, Unserved
<1> HIDE DEF r
<1>4. inFlight \in Seq(Calls)
  BY DEF ViewerType
<1>5. /\ Append(inFlight, r) \in Seq(Calls)
      /\ Len(Append(inFlight, r)) = Len(inFlight) + 1
      /\ \A k \in 1 .. Len(inFlight) : Append(inFlight, r)[k] = inFlight[k]
      /\ Append(inFlight, r)[Len(inFlight) + 1] = r
  BY <1>3, <1>4, AppendProperties
<1>6. DOMAIN inFlight = 1 .. Len(inFlight) /\ Len(inFlight) \in Nat
  BY Indices
<1> QED  BY <1>1, <1>5, <1>6 DEF r

LEMMA SearchIsNoLaunch ==
  ASSUME ViewerType, scope.environment \in Environments, NEW n \in Nat, Send("search", n)
  PROVE  Launching' = Launching
<1> DEFINE last == Len(inFlight) + 1
<1>1. /\ DOMAIN inFlight = 1 .. Len(inFlight) /\ Len(inFlight) \in Nat
      /\ DOMAIN inFlight' = 1 .. last
      /\ \A k \in DOMAIN inFlight : inFlight'[k] = inFlight[k]
      /\ inFlight'[last] = [kind |-> "search", to |-> Target, start |-> n,
                            answer |-> Unserved, iteration |-> 0]
  BY Sent
<1>2. inFlight'[last].kind = "search"
  BY <1>1
<1>3. /\ \A k \in DOMAIN inFlight' : k \in DOMAIN inFlight \/ k = last
      /\ \A k \in DOMAIN inFlight : k \in DOMAIN inFlight'
  BY <1>1
<1> HIDE DEF last
<1> QED  BY <1>1, <1>2, <1>3 DEF Launching

\* A new start: the page is reset, what ran of the others is cleared.
LEMMA NewStartKeeps ==
  ASSUME ViewerInv, NewStart, config = "ready", disordered' = disordered,
         scope' = [Reset(scope) EXCEPT !.showGraphStats = TRUE], ClearInterval,
         UNCHANGED <<config, jobs, engine, faults>>,
         \/ Send("launch", starts') /\ timers' = timers
         \/ /\ inFlight' = inFlight
            /\ timers' = timers \union {[act |-> "hideStats",    start |-> starts'],
                                        [act |-> "startPolling", start |-> starts']}
  PROVE  ViewerInv'
<1>1. ViewerType /\ QuietUntilReady /\ OfAStart /\ StartsInTurn
  BY DEF ViewerInv
<1>2. starts' = starts + 1 /\ starts' \in Nat /\ strayed' = FALSE
      /\ overlapped' = (overlapped \/ StartPending)
  BY <1>1 DEF NewStart, ViewerType
<1>3. overlapped' \in BOOLEAN
  BY <1>2, Zenon
<1>4. /\ scope' \in Scopes /\ scope'.environment = scope.environment
      /\ ~scope'.showStopBtn /\ ~scope'.showResults /\ scope'.intervalID = NoInterval
      /\ scope'.iteration = 0 /\ scope'.lastIteration = -1
      /\ scope'.convergenceChart = << >> /\ scope'.stateChart = << >>
  <2>1. scope \in Scopes
    BY <1>1 DEF ViewerType
  <2>2. /\ Reset(scope) \in Scopes
        /\ Reset(scope).environment = scope.environment
        /\ ~Reset(scope).showStopBtn /\ ~Reset(scope).showResults
        /\ Reset(scope).intervalID = NoInterval
        /\ Reset(scope).iteration = 0 /\ Reset(scope).lastIteration = -1
        /\ Reset(scope).convergenceChart = << >> /\ Reset(scope).stateChart = << >>
    BY <2>1, ResetScope
  <2> QED  BY <2>2 DEF Scopes
<1>5. intervals' = intervals \ {scope.intervalID}
  BY DEF ClearInterval
<1>6. scope.environment \in Environments
  BY <1>1 DEF QuietUntilReady
<1>7. DOMAIN inFlight = 1 .. Len(inFlight) /\ Len(inFlight) \in Nat
      /\ \A k \in DOMAIN inFlight : inFlight[k] \in Calls
  BY <1>1, Indices
<1>8. ~overlapped' => /\ Waiting = {} /\ Launching = {} /\ intervals' = {}
  BY <1>1, <1>2, <1>5, Pending DEF StartsInTurn
<1>9. ChartsInOrder' /\ ChartsAgree'
  BY <1>4, ChartsCleared
<1>10. QuietUntilReady'
  BY <1>4, <1>6 DEF QuietUntilReady
<1>11. CASE Send("launch", starts') /\ timers' = timers
  <2> DEFINE last == Len(inFlight) + 1
  <2>1. /\ inFlight' \in Seq(Calls) /\ DOMAIN inFlight' = 1 .. last
        /\ \A k \in DOMAIN inFlight : inFlight'[k] = inFlight[k]
        /\ inFlight'[last] = [kind |-> "launch", to |-> Target, start |-> starts',
                              answer |-> Unserved, iteration |-> 0]
    BY <1>1, <1>2, <1>6, <1>11, Sent
  <2>2. /\ last \in DOMAIN inFlight' /\ last \notin DOMAIN inFlight
        /\ \A k \in DOMAIN inFlight' : k = last \/ k \in DOMAIN inFlight
        /\ inFlight'[last].kind = "launch" /\ inFlight'[last].start = starts'
        /\ inFlight'[last].answer = Unserved
    BY <1>7, <2>1
  <2> HIDE DEF last
  <2>3. ViewerType'
    BY <1>1, <1>2, <1>3, <1>4, <1>5, <1>11, <2>1 DEF ViewerType
  <2>4. OfAStart'
    <3>1. ASSUME NEW k \in DOMAIN inFlight'
          PROVE  /\ inFlight'[k].start <= starts'
                 /\ inFlight'[k].answer = "stats" => inFlight'[k].kind = "search"
      <4>1. CASE k = last
        BY <1>2, <2>2, <4>1 DEF Unserved
      <4>2. CASE k \in DOMAIN inFlight
        <5>1. inFlight'[k] = inFlight[k] /\ inFlight[k].start <= starts
              /\ inFlight[k].start \in Nat /\ starts \in Nat
              /\ (inFlight[k].answer = "stats" => inFlight[k].kind = "search")
          BY <1>1, <1>7, <2>1, <4>2 DEF OfAStart, Calls, ViewerType
        <5> QED  BY <1>2, <5>1
      <4> QED  BY <2>2, <4>1, <4>2
    <3> QED  BY <3>1 DEF OfAStart
  <2>5. Searches' = {}
    <3>1. ASSUME NEW k \in Searches'
          PROVE  FALSE
      <4>1. k \in DOMAIN inFlight' /\ inFlight'[k].kind = "search" /\ inFlight'[k].start = starts'
        BY DEF Searches
      <4>2. k \in DOMAIN inFlight /\ inFlight[k].start = starts'
        BY <2>1, <2>2, <4>1
      <4>3. inFlight[k].start <= starts /\ starts \in Nat
        BY <1>1, <4>2 DEF OfAStart, ViewerType
      <4> QED  BY <1>2, <4>2, <4>3
    <3> QED  BY <3>1
  <2>6. ~overlapped' => Launching' = {last} /\ Waiting' = {}
    BY <1>8, <1>11, <2>1, <2>2 DEF Launching, Waiting
  <2>7. StartsInTurn'
    BY <1>8, <2>2, <2>6 DEF StartsInTurn
  <2>8. SearchesInOrder'
    BY <2>5 DEF SearchesInOrder
  <2> QED  BY <1>9, <1>10, <2>3, <2>4, <2>7, <2>8 DEF ViewerInv
<1>12. CASE /\ inFlight' = inFlight
            /\ timers' = timers \union {[act |-> "hideStats",    start |-> starts'],
                                        [act |-> "startPolling", start |-> starts']}
  <2>1. ViewerType'
    <3>1. /\ [act |-> "hideStats",    start |-> starts'] \in Timers
          /\ [act |-> "startPolling", start |-> starts'] \in Timers
      BY <1>2 DEF Timers
    <3>2. timers' \subseteq Timers
      BY <1>1, <1>12, <3>1 DEF ViewerType
    <3> QED  BY <1>1, <1>2, <1>3, <1>4, <1>5, <1>12, <3>2 DEF ViewerType
  <2>2. OfAStart'
    <3>1. \A k \in DOMAIN inFlight : inFlight[k].start \in Nat /\ inFlight[k].start <= starts
      BY <1>1, <1>7 DEF OfAStart, Calls
    <3>2. \A k \in DOMAIN inFlight : inFlight[k].start <= starts'
      BY <1>1, <1>2, <3>1 DEF ViewerType
    <3> QED  BY <1>1, <1>12, <3>2 DEF OfAStart
  <2>3. Searches' = {}
    <3>1. ASSUME NEW k \in Searches'
          PROVE  FALSE
      <4>1. k \in DOMAIN inFlight /\ inFlight[k].start = starts'
        BY <1>12 DEF Searches
      <4>2. inFlight[k].start <= starts /\ starts \in Nat
        BY <1>1, <4>1 DEF OfAStart, ViewerType
      <4> QED  BY <1>2, <4>1, <4>2
    <3> QED  BY <3>1
  <2>4. ~overlapped' => /\ Launching' = {}
                        /\ Waiting' = {[act |-> "startPolling", start |-> starts']}
    BY <1>8, <1>12 DEF Launching, Waiting
  <2>5. StartsInTurn'
    BY <1>8, <2>4 DEF StartsInTurn
  <2>6. SearchesInOrder'
    BY <2>3 DEF SearchesInOrder
  <2> QED  BY <1>9, <1>10, <2>1, <2>2, <2>5, <2>6 DEF ViewerInv
<1> QED  BY <1>11, <1>12

LEMMA LaunchKeeps == ViewerInv /\ Launch => ViewerInv'
<1> SUFFICES ASSUME ViewerInv, Launch
             PROVE  ViewerInv'
  OBVIOUS
<1>1. ViewerType /\ QuietUntilReady /\ OfAStart
  BY DEF ViewerInv
<1>2. /\ scope' = [Reset(scope) EXCEPT !.showGraphStats = TRUE]
      /\ ClearInterval /\ disordered' = disordered
      /\ UNCHANGED <<config, timers, jobs, engine, faults>>
  BY DEF Launch, serviceVars
<1>3. CASE config = "ready"
  <2>1. NewStart /\ Send("launch", starts')
    BY <1>3 DEF Launch
  <2> QED  BY <1>2, <1>3, <2>1, NewStartKeeps
<1>4. CASE config # "ready"
  <2>1. UNCHANGED <<starts, overlapped, strayed, inFlight>>
    BY <1>4 DEF Launch
  <2>2. inFlight = << >> /\ timers = {} /\ intervals = {}
    BY <1>1, <1>4 DEF QuietUntilReady
  <2>3. intervals' = {}
    BY <1>2, <2>2 DEF ClearInterval
  <2>4. /\ scope' \in Scopes /\ ~scope'.showStopBtn /\ ~scope'.showResults
        /\ scope'.iteration = 0 /\ scope'.lastIteration = -1
        /\ scope'.convergenceChart = << >> /\ scope'.stateChart = << >>
    <3>1. scope \in Scopes
      BY <1>1 DEF ViewerType
    <3>2. /\ Reset(scope) \in Scopes
          /\ ~Reset(scope).showStopBtn /\ ~Reset(scope).showResults
          /\ Reset(scope).iteration = 0 /\ Reset(scope).lastIteration = -1
          /\ Reset(scope).convergenceChart = << >> /\ Reset(scope).stateChart = << >>
      BY <3>1, ResetScope
    <3> QED  BY <1>2, <3>2 DEF Scopes
  <2>5. ViewerType'
    BY <1>1, <1>2, <2>1, <2>3, <2>4 DEF ViewerType
  <2>6. QuietUntilReady' /\ OfAStart'
    BY <1>1, <1>2, <1>4, <2>1, <2>2, <2>3, <2>4 DEF QuietUntilReady, OfAStart
  <2>7. Launching' = {} /\ Waiting' = {} /\ Searches' = {}
    BY <1>2, <2>1, <2>2 DEF Launching, Waiting, Searches
  <2>8. StartsInTurn' /\ SearchesInOrder'
    BY <2>3, <2>7, Pending DEF StartsInTurn, SearchesInOrder
  <2>9. ChartsInOrder' /\ ChartsAgree'
    BY <2>4, ChartsCleared
  <2> QED  BY <2>5, <2>6, <2>8, <2>9 DEF ViewerInv
<1> QED  BY <1>3, <1>4

LEMMA QueryKeeps == ViewerInv /\ Query => ViewerInv'
<1> SUFFICES ASSUME ViewerInv, Query
             PROVE  ViewerInv'
  OBVIOUS
<1> QED  BY NewStartKeeps DEF Query, serviceVars

\* A search leaves while nothing is pending: it goes to the environment of the start and
\* has not brought anything.
LEMMA SearchSent ==
  ASSUME ViewerInv, NEW s \in Scopes, Search(s),
         s.environment = scope.environment, s.dataset = scope.dataset,
         s.showResults = scope.showResults, s.iteration = scope.iteration,
         s.lastIteration = scope.lastIteration, s.convergenceData = scope.convergenceData,
         s.convergenceChart = scope.convergenceChart, s.stateChart = scope.stateChart,
         scope.environment \in Environments,
         UNCHANGED <<config, jobs, engine, faults>>,
         UNCHANGED <<starts, overlapped, strayed, disordered>>,
         InOrder => ~StartPending', StartPending' => StartPending
  PROVE  /\ scope' \in Scopes /\ scope'.environment = scope.environment
         /\ scope'.intervalID = s.intervalID
         /\ inFlight' \in Seq(Calls) /\ OfAStart'
         /\ Launching' = Launching /\ (\A i \in Launching : inFlight'[i].start = inFlight[i].start)
         /\ ChartsAgree' /\ SearchesInOrder' /\ ChartsInOrder'
<1> DEFINE last == Len(inFlight) + 1
<1>1. /\ ViewerType /\ QuietUntilReady /\ OfAStart /\ ChartsAgree
      /\ SearchesInOrder /\ ChartsInOrder
  BY DEF ViewerInv
<1>2. Send("search", starts) /\ scope' = [s EXCEPT !.showStopBtn = TRUE]
  BY DEF Search
<1>3. /\ scope' \in Scopes /\ scope'.environment = scope.environment
      /\ scope'.intervalID = s.intervalID
      /\ scope'.convergenceChart = scope.convergenceChart /\ scope'.stateChart = scope.stateChart
      /\ scope'.lastIteration = scope.lastIteration
      /\ scope'.convergenceData = scope.convergenceData
      /\ scope'.showResults = scope.showResults /\ scope'.iteration = scope.iteration
  BY <1>2 DEF Scopes
<1>4. starts \in Nat
  BY <1>1 DEF ViewerType
<1>5. /\ inFlight' \in Seq(Calls) /\ DOMAIN inFlight' = 1 .. last
      /\ DOMAIN inFlight = 1 .. Len(inFlight) /\ Len(inFlight) \in Nat
      /\ \A k \in DOMAIN inFlight : inFlight'[k] = inFlight[k]
      /\ inFlight'[last] = [kind |-> "search", to |-> Target, start |-> starts,
                            answer |-> Unserved, iteration |-> 0]
  BY <1>1, <1>2, <1>4, Sent
<1>6. /\ last \in DOMAIN inFlight' /\ last \notin DOMAIN inFlight
      /\ \A k \in DOMAIN inFlight' : k = last \/ k \in DOMAIN inFlight
      /\ \A k \in DOMAIN inFlight : k \in DOMAIN inFlight' /\ k < last /\ k \in Nat
      /\ inFlight'[last].kind = "search" /\ inFlight'[last].start = starts
      /\ inFlight'[last].answer = Unserved /\ inFlight'[last].to.environment = scope.environment
      /\ last \in Nat
  BY <1>5 DEF Target
<1>7. DOMAIN inFlight' = 1 .. last /\ DOMAIN inFlight = 1 .. last - 1
  BY <1>5
<1> HIDE DEF last
<1>8. OfAStart'
  <2>1. ASSUME NEW k \in DOMAIN inFlight'
        PROVE  /\ inFlight'[k].start <= starts'
               /\ inFlight'[k].answer = "stats" => inFlight'[k].kind = "search"
    <3>1. CASE k = last
      BY <1>4, <1>6, <3>1 DEF Unserved
    <3>2. CASE k \in DOMAIN inFlight
      BY <1>1, <1>5, <3>2 DEF OfAStart
    <3> QED  BY <1>6, <3>1, <3>2
  <2> QED  BY <2>1 DEF OfAStart
<1>9. Launching' = Launching /\ \A i \in Launching : inFlight'[i].start = inFlight[i].start
  BY <1>5, <1>6 DEF Launching
<1>10. InOrder' <=> InOrder
  BY DEF InOrder
<1>11. ChartsAgree' /\ LastDrawn' = LastDrawn /\ ChartsInOrder'
  <2>1. engine' \in [Environments -> Nat] /\ \A e \in Environments : engine[e] <= engine'[e]
    BY <1>1, EngineIsNat
  <2> QED  BY <1>1, <1>3, <1>10, <2>1, ChartsCarried
<1>12. SearchesInOrder'
  <2> SUFFICES ASSUME InOrder'
               PROVE  SearchesInOrder'
    BY DEF SearchesInOrder
  <2>1. ~StartPending'
    BY <1>10
  <2>2. \A i \in Searches :
          /\ inFlight[i].to.environment = scope.environment
          /\ Brought(i) =>
               /\ inFlight[i].iteration \in LastDrawn .. engine[scope.environment]
               /\ \A k \in 1 .. i - 1 : inFlight[k].answer # Unserved
               /\ \A k \in Searches : k < i /\ Brought(k) =>
                                        inFlight[k].iteration <= inFlight[i].iteration
    BY <1>1, <1>10 DEF SearchesInOrder
  <2>3. \A k \in Searches' : k = last \/ k \in Searches
    BY <1>5, <1>6 DEF Searches
  <2>4. \A k \in Searches : k \in DOMAIN inFlight
    BY DEF Searches
  <2>5. \A k \in Searches' : k = last => ~Brought(k)'
    BY <1>6 DEF Brought, Unserved
  <2>6. ASSUME NEW i \in Searches'
        PROVE  /\ inFlight'[i].to.environment = scope'.environment
               /\ Brought(i)' =>
                    /\ inFlight'[i].iteration \in LastDrawn' .. engine'[scope'.environment]
                    /\ \A k \in 1 .. i - 1 : inFlight'[k].answer # Unserved
                    /\ \A k \in Searches' : k < i /\ Brought(k)' =>
                                             inFlight'[k].iteration <= inFlight'[i].iteration
    <3>1. CASE i = last
      BY <1>3, <1>6, <2>5, <3>1
    <3>2. CASE i \in Searches
      <4>1. i \in DOMAIN inFlight /\ inFlight'[i] = inFlight[i]
        BY <1>5, <2>4, <3>2
      <4>2. inFlight'[i].to.environment = scope'.environment
        BY <1>3, <2>2, <3>2, <4>1
      <4>3. ASSUME Brought(i)'
            PROVE  /\ inFlight'[i].iteration \in LastDrawn' .. engine'[scope'.environment]
                   /\ \A k \in 1 .. i - 1 : inFlight'[k].answer # Unserved
                   /\ \A k \in Searches' : k < i /\ Brought(k)' =>
                                            inFlight'[k].iteration <= inFlight'[i].iteration
        <5>1. Brought(i)
          BY <4>1, <4>3 DEF Brought
        <5>2. inFlight'[i].iteration \in LastDrawn' .. engine'[scope'.environment]
          BY <1>3, <1>11, <2>2, <3>2, <4>1, <5>1
        <5>3. ASSUME NEW k \in 1 .. i - 1
              PROVE  inFlight'[k].answer # Unserved
          <6>1. k \in DOMAIN inFlight
            BY <1>6, <1>7, <4>1
          <6> QED  BY <1>5, <2>2, <3>2, <5>1, <6>1
        <5>4. ASSUME NEW k \in Searches', k < i, Brought(k)'
              PROVE  inFlight'[k].iteration <= inFlight'[i].iteration
          <6>1. k \in Searches
            BY <2>3, <2>5, <5>4
          <6>2. inFlight'[k] = inFlight[k] /\ Brought(k)
            BY <1>5, <2>4, <5>4, <6>1 DEF Brought
          <6> QED  BY <2>2, <3>2, <4>1, <5>1, <5>4, <6>1, <6>2
        <5> QED  BY <5>2, <5>3, <5>4
      <4> QED  BY <4>2, <4>3
    <3> QED  BY <2>3, <3>1, <3>2
  <2> QED  BY <2>1, <2>6 DEF SearchesInOrder
<1> QED  BY <1>3, <1>5, <1>8, <1>9, <1>11, <1>12

LEMMA StartPollingKeeps == ViewerInv /\ StartPolling => ViewerInv'
<1> SUFFICES ASSUME ViewerInv, StartPolling
             PROVE  ViewerInv'
  OBVIOUS
<1>1. /\ ViewerType /\ QuietUntilReady /\ OfAStart /\ ChartsAgree
      /\ StartsInTurn /\ SearchesInOrder /\ ChartsInOrder
  BY DEF ViewerInv
<1> DEFINE polled(t) == [scope EXCEPT !.intervalID = t.start]
<1>2. PICK t \in timers :
        /\ t.act = "startPolling" /\ timers' = timers \ {t}
        /\ \/ Search(polled(t)) /\ intervals' = intervals \union {t.start}
           \/ /\ scope.iteration >= NIterations
              /\ scope' = [polled(t) EXCEPT !.showStopBtn = FALSE]
              /\ intervals' = (intervals \ {scope.intervalID}) \union {t.start}
              /\ UNCHANGED inFlight
  BY DEF StartPolling
<1>3. /\ UNCHANGED <<config, jobs, engine, faults>>
      /\ UNCHANGED <<starts, overlapped, strayed, disordered>>
  BY DEF StartPolling, serviceVars, historyVars
<1>4. t \in Waiting /\ t.start \in Nat /\ scope \in Scopes /\ starts \in Nat
  BY <1>1, <1>2 DEF Waiting, ViewerType, Timers
<1>5. config = "ready" /\ scope.environment \in Environments
  BY <1>1, <1>2 DEF QuietUntilReady, ViewerType
<1>6. /\ polled(t) \in Scopes /\ polled(t).intervalID = t.start
      /\ polled(t).environment = scope.environment /\ polled(t).dataset = scope.dataset
      /\ polled(t).showResults = scope.showResults /\ polled(t).iteration = scope.iteration
      /\ polled(t).lastIteration = scope.lastIteration
      /\ polled(t).convergenceData = scope.convergenceData
      /\ polled(t).convergenceChart = scope.convergenceChart
      /\ polled(t).stateChart = scope.stateChart
  BY <1>4 DEF Scopes
<1>7. Waiting' \subseteq Waiting
  BY <1>2 DEF Waiting
<1>8. ~overlapped => /\ t.start = starts /\ Waiting' = {} /\ Launching = {} /\ intervals = {}
  <2> SUFFICES ASSUME ~overlapped
               PROVE  t.start = starts /\ Waiting' = {} /\ Launching = {} /\ intervals = {}
    OBVIOUS
  <2>1. /\ \A u \in Waiting : u.start = starts
        /\ Waiting # {} => Launching = {}
        /\ StartPending => intervals = {}
    BY <1>1 DEF StartsInTurn
  <2>2. Launching = {} /\ intervals = {}
    BY <1>4, <2>1, Pending
  <2>3. \A u \in Waiting : u = t
    <3>1. \A u \in Waiting : u \in Timers /\ u.act = "startPolling"
      BY <1>1 DEF Waiting, ViewerType
    <3> QED  BY <1>4, <2>1, <3>1 DEF Timers
  <2>4. Waiting' = {}
    BY <1>2, <1>7, <2>3 DEF Waiting
  <2> QED  BY <1>4, <2>1, <2>2, <2>4
<1>9. InOrder => ~overlapped
  BY DEF InOrder
<1>10. CASE Search(polled(t)) /\ intervals' = intervals \union {t.start}
  <2> HIDE DEF polled
  <2>1. Launching' = Launching
    BY <1>1, <1>4, <1>5, <1>10, SearchIsNoLaunch DEF Search
  <2>2. (InOrder => ~StartPending') /\ (StartPending' => StartPending)
    BY <1>7, <1>8, <1>9, <2>1, Pending
  <2>3. /\ scope' \in Scopes /\ scope'.environment = scope.environment
        /\ scope'.intervalID = t.start
        /\ inFlight' \in Seq(Calls) /\ OfAStart'
        /\ ChartsAgree' /\ SearchesInOrder' /\ ChartsInOrder'
    BY <1>3, <1>5, <1>6, <1>10, <2>2, SearchSent
  <2>4. ViewerType'
    BY <1>1, <1>2, <1>3, <1>4, <1>10, <2>3 DEF ViewerType
  <2>5. QuietUntilReady'
    BY <1>3, <1>5, <2>3 DEF QuietUntilReady
  <2>6. StartsInTurn'
    BY <1>3, <1>8, <1>10, <2>1, <2>3, Pending DEF StartsInTurn
  <2> QED  BY <2>3, <2>4, <2>5, <2>6 DEF ViewerInv
<1>11. CASE /\ scope' = [polled(t) EXCEPT !.showStopBtn = FALSE]
            /\ intervals' = (intervals \ {scope.intervalID}) \union {t.start}
            /\ UNCHANGED inFlight
  <2>1. /\ scope' \in Scopes /\ scope'.environment = scope.environment
        /\ scope'.intervalID = t.start /\ ~scope'.showStopBtn
        /\ scope'.showResults = scope.showResults /\ scope'.iteration = scope.iteration
        /\ scope'.lastIteration = scope.lastIteration
        /\ scope'.convergenceData = scope.convergenceData
        /\ scope'.convergenceChart = scope.convergenceChart
        /\ scope'.stateChart = scope.stateChart
    <3> HIDE DEF polled
    <3> QED  BY <1>6, <1>11 DEF Scopes
  <2>2. Launching' = Launching
    BY <1>11 DEF Launching
  <2>3. StartPending' => StartPending
    BY <1>7, <2>2, Pending
  <2>4. InOrder' <=> InOrder
    BY <1>3 DEF InOrder
  <2>5. engine' \in [Environments -> Nat] /\ \A e \in Environments : engine[e] <= engine'[e]
    BY <1>1, <1>3, EngineIsNat
  <2>6. ChartsInOrder' /\ ChartsAgree' /\ LastDrawn' = LastDrawn
    BY <1>1, <2>1, <2>3, <2>4, <2>5, ChartsCarried
  <2>7. SearchesInOrder'
    BY <1>1, <1>3, <1>11, <2>1, <2>3, <2>4, <2>5, <2>6, OrderUnmoved
  <2>8. ViewerType'
    BY <1>1, <1>2, <1>3, <1>4, <1>11, <2>1 DEF ViewerType
  <2>9. QuietUntilReady' /\ OfAStart'
    BY <1>1, <1>3, <1>5, <1>11, <2>1 DEF QuietUntilReady, OfAStart
  <2>10. StartsInTurn'
    BY <1>3, <1>8, <1>11, <2>1, <2>2, Pending DEF StartsInTurn
  <2> QED  BY <2>6, <2>7, <2>8, <2>9, <2>10 DEF ViewerInv
<1> QED  BY <1>2, <1>10, <1>11

LEMMA TickKeeps ==
  ASSUME ViewerInv, NEW i \in intervals, Tick(i)
  PROVE  ViewerInv'
<1>1. /\ ViewerType /\ QuietUntilReady /\ OfAStart /\ ChartsAgree
      /\ StartsInTurn /\ SearchesInOrder /\ ChartsInOrder
  BY DEF ViewerInv
<1>2. /\ UNCHANGED <<config, timers, jobs, engine, faults>>
      /\ UNCHANGED <<starts, overlapped, strayed, disordered>>
  BY DEF Tick, serviceVars, historyVars
<1>3. scope \in Scopes
  BY <1>1 DEF ViewerType
<1>4. config = "ready" /\ scope.environment \in Environments
  BY <1>1 DEF QuietUntilReady
<1>5. ~overlapped => ~StartPending
  BY <1>1 DEF StartsInTurn
<1>6. Waiting' = Waiting
  BY <1>2 DEF Waiting
<1>7. CASE Search(scope) /\ UNCHANGED intervals
  <2>1. Launching' = Launching
    <3>1. Send("search", starts) /\ starts \in Nat
      BY <1>1, <1>7 DEF Search, ViewerType
    <3> QED  BY <1>1, <1>4, <3>1, SearchIsNoLaunch
  <2>2. (StartPending' <=> StartPending) /\ (InOrder => ~StartPending')
    BY <1>5, <1>6, <2>1, Pending DEF InOrder
  <2>3. /\ scope' \in Scopes /\ scope'.environment = scope.environment
        /\ scope'.intervalID = scope.intervalID
        /\ inFlight' \in Seq(Calls) /\ OfAStart'
        /\ \A k \in Launching : inFlight'[k].start = inFlight[k].start
        /\ ChartsAgree' /\ SearchesInOrder' /\ ChartsInOrder'
    BY <1>2, <1>3, <1>4, <1>7, <2>2, SearchSent
  <2>4. ViewerType'
    BY <1>1, <1>2, <1>7, <2>3 DEF ViewerType
  <2>5. QuietUntilReady'
    BY <1>2, <1>4, <2>3 DEF QuietUntilReady
  <2>6. StartsInTurn'
    BY <1>1, <1>2, <1>6, <1>7, <2>1, <2>3, StartsCarried
  <2> QED  BY <2>3, <2>4, <2>5, <2>6 DEF ViewerInv
<1>8. CASE /\ ClearInterval
           /\ scope' = [scope EXCEPT !.intervalID = NoInterval, !.showStopBtn = FALSE]
           /\ UNCHANGED inFlight
  <2>1. /\ scope' \in Scopes /\ scope'.environment = scope.environment
        /\ ~scope'.showStopBtn
        /\ scope'.showResults = scope.showResults /\ scope'.iteration = scope.iteration
        /\ scope'.lastIteration = scope.lastIteration
        /\ scope'.convergenceData = scope.convergenceData
        /\ scope'.convergenceChart = scope.convergenceChart
        /\ scope'.stateChart = scope.stateChart
    BY <1>3, <1>8 DEF Scopes, NoInterval
  <2>2. Launching' = Launching
    BY <1>8 DEF Launching
  <2>3. (StartPending' => StartPending) /\ (InOrder' => InOrder)
    BY <1>2, <1>6, <2>2, Pending DEF InOrder
  <2>4. engine' \in [Environments -> Nat] /\ \A e \in Environments : engine[e] <= engine'[e]
    BY <1>1, <1>2, EngineIsNat
  <2>5. ChartsInOrder' /\ ChartsAgree' /\ LastDrawn' = LastDrawn
    BY <1>1, <2>1, <2>3, <2>4, ChartsCarried
  <2>6. SearchesInOrder'
    BY <1>1, <1>2, <1>8, <2>1, <2>3, <2>4, <2>5, OrderUnmoved
  <2>7. intervals' = intervals \ {scope.intervalID}
    BY <1>8 DEF ClearInterval
  <2>8. ViewerType'
    BY <1>1, <1>2, <1>8, <2>1, <2>7 DEF ViewerType
  <2>9. QuietUntilReady' /\ OfAStart'
    BY <1>1, <1>2, <1>4, <1>8, <2>1 DEF QuietUntilReady, OfAStart
  <2>10. StartsInTurn'
    <3>1. ~overlapped => intervals' = {}
      BY <1>1, <2>7 DEF StartsInTurn
    <3> QED  BY <1>1, <1>2, <1>6, <1>8, <2>2, <2>3, <3>1 DEF StartsInTurn
  <2> QED  BY <2>5, <2>6, <2>8, <2>9, <2>10 DEF ViewerInv
<1> QED  BY <1>7, <1>8 DEF Tick

LEMMA StopKeeps == ViewerInv /\ Stop => ViewerInv'
<1> SUFFICES ASSUME ViewerInv, Stop
             PROVE  ViewerInv'
  OBVIOUS
<1> DEFINE last == Len(inFlight) + 1
<1>1. /\ ViewerType /\ QuietUntilReady /\ OfAStart /\ ChartsAgree
      /\ StartsInTurn /\ SearchesInOrder /\ ChartsInOrder
  BY DEF ViewerInv
<1>2. /\ scope.showStopBtn /\ scope' = [scope EXCEPT !.intervalID = NoInterval]
      /\ Send("stop", starts)
      /\ UNCHANGED <<config, timers, jobs, engine, faults>>
      /\ UNCHANGED <<starts, overlapped, strayed, disordered>>
  BY DEF Stop, serviceVars, historyVars
<1>3. scope \in Scopes /\ starts \in Nat
  BY <1>1 DEF ViewerType
<1>4. config = "ready" /\ scope.environment \in Environments
  BY <1>1, <1>2 DEF QuietUntilReady
<1>5. /\ scope' \in Scopes /\ scope'.environment = scope.environment
      /\ scope'.showResults = scope.showResults /\ scope'.iteration = scope.iteration
      /\ scope'.lastIteration = scope.lastIteration
      /\ scope'.convergenceData = scope.convergenceData
      /\ scope'.convergenceChart = scope.convergenceChart
      /\ scope'.stateChart = scope.stateChart
  BY <1>2, <1>3 DEF Scopes, NoInterval
<1>6. /\ inFlight' \in Seq(Calls) /\ DOMAIN inFlight' = 1 .. last
      /\ DOMAIN inFlight = 1 .. Len(inFlight) /\ Len(inFlight) \in Nat
      /\ \A k \in DOMAIN inFlight : inFlight'[k] = inFlight[k]
      /\ inFlight'[last] = [kind |-> "stop", to |-> Target, start |-> starts,
                            answer |-> Unserved, iteration |-> 0]
  BY <1>1, <1>2, <1>3, <1>4, Sent
<1>7. /\ last \in DOMAIN inFlight' /\ last \notin DOMAIN inFlight
      /\ \A k \in DOMAIN inFlight' : k = last \/ k \in DOMAIN inFlight
      /\ \A k \in DOMAIN inFlight : k \in DOMAIN inFlight'
      /\ inFlight'[last].kind = "stop" /\ inFlight'[last].start = starts
      /\ inFlight'[last].answer = Unserved
  BY <1>6
<1>8. \A i \in DOMAIN inFlight : \A k \in 1 .. i - 1 : k \in DOMAIN inFlight
  BY <1>6
<1> HIDE DEF last
<1>9. Launching' = Launching /\ Waiting' = Waiting /\ Searches' = Searches
  BY <1>2, <1>6, <1>7 DEF Launching, Waiting, Searches
<1>10. (StartPending' <=> StartPending) /\ (InOrder' <=> InOrder)
  BY <1>2, <1>9, Pending DEF InOrder
<1>11. OfAStart'
  <2>1. ASSUME NEW k \in DOMAIN inFlight'
        PROVE  /\ inFlight'[k].start <= starts'
               /\ inFlight'[k].answer = "stats" => inFlight'[k].kind = "search"
    <3>1. CASE k = last
      BY <1>2, <1>3, <1>7, <3>1 DEF Unserved
    <3>2. CASE k \in DOMAIN inFlight
      BY <1>1, <1>2, <1>6, <3>2 DEF OfAStart
    <3> QED  BY <1>7, <3>1, <3>2
  <2> QED  BY <2>1 DEF OfAStart
<1>12. ChartsAgree' /\ LastDrawn' = LastDrawn /\ ChartsInOrder'
  <2>1. engine' \in [Environments -> Nat] /\ \A e \in Environments : engine[e] <= engine'[e]
    BY <1>1, <1>2, EngineIsNat
  <2> QED  BY <1>1, <1>5, <1>10, <2>1, ChartsCarried
<1>13. intervals' = intervals \ {scope.intervalID}
  BY DEF Stop, ClearInterval
<1>14. ViewerType'
  BY <1>1, <1>2, <1>5, <1>6, <1>13 DEF ViewerType
<1>15. QuietUntilReady'
  BY <1>2, <1>4, <1>5 DEF QuietUntilReady
<1>16. StartsInTurn'
  <2>1. ~overlapped => intervals' = {}
    BY <1>1, <1>13 DEF StartsInTurn
  <2>2. \A k \in Launching : inFlight'[k] = inFlight[k]
    BY <1>6 DEF Launching
  <2> QED  BY <1>1, <1>2, <1>9, <1>10, <2>1, <2>2 DEF StartsInTurn
<1>17. SearchesInOrder'
  <2> SUFFICES ASSUME InOrder'
               PROVE  SearchesInOrder'
    BY DEF SearchesInOrder
  <2>1. /\ StartPending => Searches = {}
        /\ \A i \in Searches :
             /\ inFlight[i].to.environment = scope.environment
             /\ Brought(i) =>
                  /\ inFlight[i].iteration \in LastDrawn .. engine[scope.environment]
                  /\ \A k \in 1 .. i - 1 : inFlight[k].answer # Unserved
                  /\ \A k \in Searches : k < i /\ Brought(k) =>
                                           inFlight[k].iteration <= inFlight[i].iteration
    BY <1>1, <1>10 DEF SearchesInOrder
  <2>2. \A i \in Searches : i \in DOMAIN inFlight /\ inFlight'[i] = inFlight[i]
                            /\ (Brought(i)' <=> Brought(i))
                            /\ \A k \in 1 .. i - 1 : inFlight'[k] = inFlight[k]
    BY <1>6, <1>8 DEF Searches, Brought
  <2>3. ASSUME NEW i \in Searches
        PROVE  /\ inFlight'[i].to.environment = scope'.environment
               /\ Brought(i)' =>
                    /\ inFlight'[i].iteration \in LastDrawn' .. engine'[scope'.environment]
                    /\ \A k \in 1 .. i - 1 : inFlight'[k].answer # Unserved
                    /\ \A k \in Searches : k < i /\ Brought(k)' =>
                                            inFlight'[k].iteration <= inFlight'[i].iteration
    BY <1>2, <1>5, <1>12, <2>1, <2>2
  <2>4. \A i \in Searches' : i \in Searches
    BY <1>9
  <2>5. StartPending' => Searches' = {}
    BY <1>9, <1>10, <2>1
  <2> QED  BY <1>9, <2>3, <2>5 DEF SearchesInOrder
<1> QED  BY <1>11, <1>12, <1>14, <1>15, <1>16, <1>17 DEF ViewerInv

\* The i-th request gets an answer: statistics are the engine's of now, and come in order
\* only when no older request waits; the engine is only set back while a start is pending.
LEMMA AnswerKeeps ==
  ASSUME ViewerInv, NEW i \in DOMAIN inFlight, inFlight[i].answer = Unserved,
         NEW r \in Calls, inFlight' = [inFlight EXCEPT ![i] = r], r.answer # Unserved,
         r.kind = inFlight[i].kind, r.start = inFlight[i].start, r.to = inFlight[i].to,
         r.answer = "stats" => /\ r.kind = "search" /\ engine' = engine
                               /\ r.iteration = engine[r.to.environment],
         UNCHANGED <<config, scope, timers, intervals>>,
         UNCHANGED <<starts, overlapped, strayed>>,
         jobs' \in [Environments -> Datasets \union {NoDataset}], faults' \in Nat,
         engine' \in [Environments -> 0 .. NIterations],
         disordered' \in BOOLEAN, InOrder' => InOrder,
         InOrder' /\ r.answer = "stats" =>
            \A k \in 1 .. i - 1 : inFlight[k].answer # Unserved,
         ~overlapped /\ ~StartPending => \A e \in Environments : engine[e] <= engine'[e]
  PROVE  ViewerInv'
<1>1. /\ ViewerType /\ QuietUntilReady /\ OfAStart /\ ChartsAgree
      /\ StartsInTurn /\ SearchesInOrder /\ ChartsInOrder
  BY DEF ViewerInv
<1>2. /\ Len(inFlight) \in Nat /\ DOMAIN inFlight = 1 .. Len(inFlight)
      /\ inFlight \in Seq(Calls)
  BY <1>1 DEF ViewerType
<1>3. /\ inFlight' \in Seq(Calls) /\ DOMAIN inFlight' = DOMAIN inFlight
      /\ inFlight'[i] = r /\ \A k \in DOMAIN inFlight : k # i => inFlight'[k] = inFlight[k]
  BY <1>2
<1>4. \A k \in DOMAIN inFlight : /\ inFlight'[k].kind = inFlight[k].kind
                                 /\ inFlight'[k].start = inFlight[k].start
                                 /\ inFlight'[k].to = inFlight[k].to
                                 /\ inFlight[k].answer # Unserved => inFlight'[k].answer # Unserved
  BY <1>3
<1>5. ViewerType'
  BY <1>1, <1>3 DEF ViewerType
<1>6. config = "ready" /\ scope.environment \in Environments
  <2>1. inFlight # << >>
    BY <1>2
  <2> QED  BY <1>1, <2>1 DEF QuietUntilReady
<1>7. QuietUntilReady' /\ ChartsAgree' /\ LastDrawn' = LastDrawn
  BY <1>1, <1>6 DEF QuietUntilReady, ChartsAgree, LastDrawn
<1>8. OfAStart'
  <2>1. ASSUME NEW k \in DOMAIN inFlight'
        PROVE  /\ inFlight'[k].start <= starts'
               /\ inFlight'[k].answer = "stats" => inFlight'[k].kind = "search"
    <3>1. CASE k = i
      BY <1>1, <1>3, <3>1 DEF OfAStart
    <3>2. CASE k # i
      BY <1>1, <1>3, <3>2 DEF OfAStart
    <3> QED  BY <3>1, <3>2
  <2> QED  BY <2>1 DEF OfAStart
<1>9. Launching' = Launching /\ Waiting' = Waiting /\ Searches' = Searches
  BY <1>3, <1>4 DEF Launching, Waiting, Searches
<1>10. StartPending' <=> StartPending
  BY <1>9, Pending
<1>11. StartsInTurn'
  <2>1. \A k \in Launching : inFlight'[k].start = inFlight[k].start
    BY <1>4 DEF Launching
  <2> QED  BY <1>1, <1>9, <2>1, StartsCarried
<1>12. CASE ~InOrder'
  <2>1. SearchesInOrder' /\ ChartsInOrder'
    BY <1>12 DEF SearchesInOrder, ChartsInOrder
  <2> QED  BY <1>5, <1>7, <1>8, <1>11, <2>1 DEF ViewerInv
<1>13. CASE InOrder /\ InOrder' /\ StartPending
  <2>1. Searches = {} /\ scope.convergenceChart = << >>
    BY <1>1, <1>13 DEF SearchesInOrder, ChartsInOrder
  <2>2. SearchesInOrder'
    BY <1>9, <2>1 DEF SearchesInOrder
  <2>3. ChartsInOrder'
    BY <1>1, <1>13, <2>1 DEF ChartsInOrder
  <2> QED  BY <1>5, <1>7, <1>8, <1>11, <2>2, <2>3 DEF ViewerInv
<1>14. CASE InOrder /\ InOrder' /\ ~StartPending
  <2>1. \A e \in Environments : engine[e] <= engine'[e]
    BY <1>14 DEF InOrder
  <2>2. engine' \in [Environments -> Nat]
    BY VertexCounts
  <2>3. ChartsInOrder'
    BY <1>1, <1>10, <1>14, <2>1, <2>2, ChartsCarried
  <2> DEFINE now == engine[scope.environment]
  <2>4. now \in Nat /\ engine'[scope.environment] \in Nat /\ now <= engine'[scope.environment]
        /\ LastDrawn \in Nat /\ LastDrawn <= now
    <3>1. now \in Nat /\ engine'[scope.environment] \in Nat /\ now <= engine'[scope.environment]
      BY <1>1, <1>6, <2>1, VertexCounts DEF ViewerType
    <3>2. LastDrawn \in Nat /\ LastDrawn <= now
      <4>1. CASE scope.convergenceChart = << >>
        BY <3>1, <4>1 DEF LastDrawn
      <4>2. CASE scope.convergenceChart # << >>
        <5>1. scope.convergenceData = LastDrawn /\ LastDrawn <= now
          BY <1>1, <1>14, <4>2 DEF ChartsInOrder
        <5>2. scope.convergenceData \in Nat
          BY <1>1, VertexCounts DEF ViewerType, Scopes
        <5> QED  BY <5>1, <5>2
      <4> QED  BY <4>1, <4>2
    <3> QED  BY <3>1, <3>2
  <2>5. \A k \in Searches :
          /\ k \in DOMAIN inFlight
          /\ inFlight[k].to.environment = scope.environment
          /\ Brought(k) =>
               /\ inFlight[k].iteration \in LastDrawn .. now
               /\ \A j \in 1 .. k - 1 : inFlight[j].answer # Unserved
               /\ \A j \in Searches : j < k /\ Brought(j) =>
                                        inFlight[j].iteration <= inFlight[k].iteration
    BY <1>1, <1>14 DEF SearchesInOrder, Searches
  <2> HIDE DEF now
  <2>6. \A k \in Searches : k # i => (Brought(k)' <=> Brought(k)) /\ inFlight'[k] = inFlight[k]
    BY <1>3, <2>5 DEF Brought
  <2>7. Brought(i)' /\ i \in Searches => /\ inFlight'[i].iteration = now /\ engine' = engine
                                         /\ \A j \in 1 .. i - 1 : inFlight[j].answer # Unserved
    <3> SUFFICES ASSUME Brought(i)', i \in Searches
                 PROVE  /\ inFlight'[i].iteration = now /\ engine' = engine
                        /\ \A j \in 1 .. i - 1 : inFlight[j].answer # Unserved
      OBVIOUS
    <3>1. r.answer = "stats" /\ inFlight'[i] = r
      BY <1>3 DEF Brought
    <3>2. r.to.environment = scope.environment
      BY <2>5
    <3> QED  BY <1>14, <3>1, <3>2 DEF now
  <2>8. ASSUME NEW k \in Searches, Brought(k)', k # i
        PROVE  k < i
    <3>1. Brought(k) /\ \A j \in 1 .. k - 1 : inFlight[j].answer # Unserved
      BY <2>5, <2>6, <2>8
    <3>2. i \notin 1 .. k - 1
      BY <3>1
    <3> QED  BY <1>2, <2>5, <2>8, <3>2
  <2>9. ASSUME NEW k \in Searches
        PROVE  /\ inFlight'[k].to.environment = scope'.environment
               /\ Brought(k)' =>
                    /\ inFlight'[k].iteration \in LastDrawn' .. engine'[scope'.environment]
                    /\ \A j \in 1 .. k - 1 : inFlight'[j].answer # Unserved
                    /\ \A j \in Searches : j < k /\ Brought(j)' =>
                                            inFlight'[j].iteration <= inFlight'[k].iteration
    <3>1. inFlight'[k].to.environment = scope'.environment
      BY <1>4, <2>5
    <3>2. \A j \in 1 .. k - 1 : j \in DOMAIN inFlight
      BY <1>2, <2>5
    <3>3. CASE k # i /\ Brought(k)'
      <4>1. Brought(k) /\ inFlight'[k] = inFlight[k] /\ k < i
        BY <2>6, <2>8, <3>3
      <4>2. inFlight'[k].iteration \in LastDrawn' .. engine'[scope'.environment]
        <5>1. inFlight[k].iteration \in LastDrawn .. now
          BY <2>5, <4>1
        <5> QED  BY <1>7, <2>4, <4>1, <5>1
      <4>3. \A j \in 1 .. k - 1 : inFlight'[j].answer # Unserved
        BY <1>4, <2>5, <3>2, <4>1
      <4>4. ASSUME NEW j \in Searches, j < k, Brought(j)'
            PROVE  inFlight'[j].iteration <= inFlight'[k].iteration
        <5>1. j # i
          BY <1>2, <2>5, <4>1, <4>4
        <5> QED  BY <2>5, <2>6, <4>1, <4>4, <5>1
      <4> QED  BY <3>1, <4>2, <4>3, <4>4
    <3>4. CASE k = i /\ Brought(k)'
      <4>1. /\ inFlight'[k].iteration = now /\ engine' = engine
            /\ \A j \in 1 .. k - 1 : inFlight[j].answer # Unserved
        BY <2>7, <3>4
      <4>2. inFlight'[k].iteration \in LastDrawn' .. engine'[scope'.environment]
        BY <1>7, <2>4, <4>1 DEF now
      <4>3. \A j \in 1 .. k - 1 : inFlight'[j].answer # Unserved
        BY <1>4, <3>2, <4>1
      <4>4. ASSUME NEW j \in Searches, j < k, Brought(j)'
            PROVE  inFlight'[j].iteration <= inFlight'[k].iteration
        <5>1. j # i
          BY <1>2, <2>5, <3>4, <4>4
        <5>2. inFlight'[j] = inFlight[j] /\ inFlight[j].iteration \in LastDrawn .. now
          BY <2>5, <2>6, <4>4, <5>1
        <5> QED  BY <2>4, <4>1, <5>2
      <4> QED  BY <3>1, <4>2, <4>3, <4>4
    <3> QED  BY <3>1, <3>3, <3>4
  <2>10. SearchesInOrder'
    BY <1>9, <1>10, <1>14, <2>9 DEF SearchesInOrder
  <2> QED  BY <1>5, <1>7, <1>8, <1>11, <2>3, <2>10 DEF ViewerInv
<1> QED  BY <1>12, <1>13, <1>14

LEMMA RefuseKeeps ==
  ASSUME ViewerInv, NEW i \in DOMAIN inFlight, Refuse(i)
  PROVE  ViewerInv'
<1>1. ViewerType
  BY DEF ViewerInv
<1>2. inFlight[i] \in Calls /\ inFlight \in Seq(Calls)
  BY <1>1, Indices DEF ViewerType
<1>3. PICK a \in Refusals : inFlight' = [inFlight EXCEPT ![i].answer = a]
  BY DEF Refuse, Answer
<1> DEFINE r == [inFlight[i] EXCEPT !.answer = a]
<1>4. inFlight' = [inFlight EXCEPT ![i] = r]
  BY <1>3
<1>5. r \in Calls /\ r.answer \in {"refused", "empty"}
      /\ r.kind = inFlight[i].kind /\ r.start = inFlight[i].start /\ r.to = inFlight[i].to
  BY <1>2 DEF Calls, Refusals
<1> HIDE DEF r
<1>6. r.answer # Unserved /\ r.answer # "stats"
  BY <1>5 DEF Unserved
<1>7. /\ inFlight[i].answer = Unserved /\ faults' = faults + 1
      /\ UNCHANGED <<config, scope, timers, intervals>>
      /\ UNCHANGED <<jobs, engine, starts, overlapped, strayed, disordered>>
  BY DEF Refuse, scopeVars, historyVars
<1>8. /\ jobs' \in [Environments -> Datasets \union {NoDataset}] /\ faults' \in Nat
      /\ engine' \in [Environments -> 0 .. NIterations] /\ disordered' \in BOOLEAN
  BY <1>1, <1>7 DEF ViewerType
<1>9. \A e \in Environments : engine[e] <= engine'[e]
  BY <1>1, <1>7, EngineIsNat
<1>10. InOrder' => InOrder
  BY <1>7 DEF InOrder
<1> QED  BY <1>4, <1>5, <1>6, <1>7, <1>8, <1>9, <1>10, AnswerKeeps

LEMMA ServeKeeps ==
  ASSUME ViewerInv, NEW i \in DOMAIN inFlight, Serve(i)
  PROVE  ViewerInv'
<1>1. ViewerType
  BY DEF ViewerInv
<1>2. inFlight[i] \in Calls /\ inFlight \in Seq(Calls)
  BY <1>1, Indices DEF ViewerType
<1> DEFINE e == inFlight[i].to.environment
           d == inFlight[i].to.dataset
<1>3. e \in Environments /\ d \in Datasets \union {NoDataset}
  BY <1>2 DEF Calls
<1>4. /\ inFlight[i].answer = Unserved
      /\ disordered' = (disordered \/ \E k \in 1 .. i - 1 : inFlight[k].answer = Unserved)
      /\ UNCHANGED <<config, scope, timers, intervals>>
      /\ UNCHANGED <<faults, starts, overlapped, strayed>>
  BY DEF Serve, scopeVars
<1>5. disordered' \in BOOLEAN
  BY <1>4, Zenon
<1>6. /\ InOrder' => InOrder
      /\ InOrder' => \A k \in 1 .. i - 1 : inFlight[k].answer # Unserved
  BY <1>4 DEF InOrder
<1>7. faults' \in Nat /\ jobs \in [Environments -> Datasets \union {NoDataset}]
      /\ engine \in [Environments -> 0 .. NIterations]
  BY <1>1, <1>4 DEF ViewerType
<1>8. CASE /\ inFlight[i].kind = "launch"
           /\ jobs' = [jobs EXCEPT ![e] = d] /\ engine' = [engine EXCEPT ![e] = 0]
           /\ Answer(i, "success")
  <2> DEFINE r == [inFlight[i] EXCEPT !.answer = "success"]
  <2>1. inFlight' = [inFlight EXCEPT ![i] = r]
    BY <1>8 DEF Answer
  <2>2. r \in Calls /\ r.answer = "success"
        /\ r.kind = inFlight[i].kind /\ r.start = inFlight[i].start /\ r.to = inFlight[i].to
    BY <1>2 DEF Calls
  <2>3. StartPending
    BY <1>8 DEF StartPending
  <2>4. /\ jobs' \in [Environments -> Datasets \union {NoDataset}]
        /\ engine' \in [Environments -> 0 .. NIterations]
    BY <1>3, <1>7, <1>8, VertexCounts
  <2> HIDE DEF r
  <2>5. r.answer # Unserved /\ r.answer # "stats"
    BY <2>2 DEF Unserved
  <2> QED  BY <1>4, <1>5, <1>6, <1>7, <2>1, <2>2, <2>3, <2>4, <2>5, AnswerKeeps
<1>9. CASE /\ inFlight[i].kind = "stop"
           /\ jobs' = [jobs EXCEPT ![e] = NoDataset] /\ engine' = engine
           /\ Answer(i, "success")
  <2> DEFINE r == [inFlight[i] EXCEPT !.answer = "success"]
  <2>1. inFlight' = [inFlight EXCEPT ![i] = r]
    BY <1>9 DEF Answer
  <2>2. r \in Calls /\ r.answer = "success"
        /\ r.kind = inFlight[i].kind /\ r.start = inFlight[i].start /\ r.to = inFlight[i].to
    BY <1>2 DEF Calls
  <2>3. \A f \in Environments : engine[f] <= engine'[f]
    BY <1>1, <1>9, EngineIsNat
  <2>4. /\ jobs' \in [Environments -> Datasets \union {NoDataset}]
        /\ engine' \in [Environments -> 0 .. NIterations]
    BY <1>3, <1>7, <1>9
  <2> HIDE DEF r
  <2>5. r.answer # Unserved /\ r.answer # "stats"
    BY <2>2 DEF Unserved
  <2> QED  BY <1>4, <1>5, <1>6, <1>7, <2>1, <2>2, <2>3, <2>4, <2>5, AnswerKeeps
<1>10. CASE /\ inFlight[i].kind = "search" /\ UNCHANGED <<jobs, engine>>
            /\ Statistics(i, engine[e])
  <2> DEFINE r == [inFlight[i] EXCEPT !.answer = "stats", !.iteration = engine[e]]
  <2>1. inFlight' = [inFlight EXCEPT ![i] = r]
    BY <1>2, <1>10 DEF Statistics
  <2>2. r \in Calls /\ r.answer = "stats" /\ r.iteration = engine[e]
        /\ r.kind = inFlight[i].kind /\ r.start = inFlight[i].start /\ r.to = inFlight[i].to
    BY <1>2, <1>3, <1>7 DEF Calls
  <2>3. \A f \in Environments : engine[f] <= engine'[f]
    BY <1>1, <1>10, EngineIsNat
  <2>4. /\ jobs' \in [Environments -> Datasets \union {NoDataset}]
        /\ engine' \in [Environments -> 0 .. NIterations]
    BY <1>7, <1>10
  <2>5. r.iteration = engine[r.to.environment] /\ r.kind = "search" /\ r.answer # Unserved
    BY <1>10, <2>2 DEF Unserved
  <2> HIDE DEF r
  <2> QED  BY <1>4, <1>5, <1>6, <1>7, <1>10, <2>1, <2>2, <2>3, <2>4, <2>5, AnswerKeeps
<1>11. CASE /\ inFlight[i].kind = "search" /\ UNCHANGED <<jobs, engine>>
            /\ Answer(i, "null")
  <2> DEFINE r == [inFlight[i] EXCEPT !.answer = "null"]
  <2>1. inFlight' = [inFlight EXCEPT ![i] = r]
    BY <1>11 DEF Answer
  <2>2. r \in Calls /\ r.answer = "null"
        /\ r.kind = inFlight[i].kind /\ r.start = inFlight[i].start /\ r.to = inFlight[i].to
    BY <1>2 DEF Calls
  <2>3. \A f \in Environments : engine[f] <= engine'[f]
    BY <1>1, <1>11, EngineIsNat
  <2>4. /\ jobs' \in [Environments -> Datasets \union {NoDataset}]
        /\ engine' \in [Environments -> 0 .. NIterations]
    BY <1>7, <1>11
  <2> HIDE DEF r
  <2>5. r.answer # Unserved /\ r.answer # "stats"
    BY <2>2 DEF Unserved
  <2> QED  BY <1>4, <1>5, <1>6, <1>7, <2>1, <2>2, <2>3, <2>4, <2>5, AnswerKeeps
<1> QED  BY <1>8, <1>9, <1>10, <1>11 DEF Serve

\* The i-th request leaves the page's sight: the others stay in their order.
LEMMA Taken ==
  ASSUME ViewerType, NEW i \in DOMAIN inFlight, inFlight' = RemoveAt(inFlight, i)
  PROVE  /\ inFlight' \in Seq(Calls)
         /\ Len(inFlight) \in Nat \ {0}
         /\ DOMAIN inFlight = 1 .. Len(inFlight) /\ DOMAIN inFlight' = 1 .. Len(inFlight) - 1
         /\ \A k \in DOMAIN inFlight' : /\ inFlight'[k] = inFlight[Before(i, k)]
                                        /\ Before(i, k) \in DOMAIN inFlight
                                        /\ Before(i, k) # i
         /\ \A k, l \in DOMAIN inFlight' : k < l => Before(i, k) < Before(i, l)
         /\ \A k, l \in DOMAIN inFlight' : Before(i, k) = Before(i, l) => k = l
<1>1. /\ inFlight \in Seq(Calls) /\ Len(inFlight) \in Nat /\ DOMAIN inFlight = 1 .. Len(inFlight)
      /\ i \in 1 .. Len(inFlight)
  BY DEF ViewerType
<1>2. /\ inFlight' \in Seq(Calls) /\ Len(inFlight') = Len(inFlight) - 1
      /\ \A k \in 1 .. Len(inFlight) - 1 : inFlight'[k] = inFlight[Before(i, k)]
  BY <1>1, Removed
<1>3. DOMAIN inFlight' = 1 .. Len(inFlight) - 1
  BY <1>2
<1>4. /\ \A k \in 1 .. Len(inFlight) - 1 : Before(i, k) \in (1 .. Len(inFlight)) \ {i}
      /\ \A k, l \in 1 .. Len(inFlight) - 1 : Before(i, k) = Before(i, l) => k = l
      /\ \A k, l \in 1 .. Len(inFlight) - 1 : k < l => Before(i, k) < Before(i, l)
  BY <1>1, PlacesKept
<1>5. \A k \in DOMAIN inFlight' : /\ inFlight'[k] = inFlight[Before(i, k)]
                                  /\ Before(i, k) \in DOMAIN inFlight
                                  /\ Before(i, k) # i
  BY <1>1, <1>2, <1>3, <1>4
<1>6. /\ \A k, l \in DOMAIN inFlight' : k < l => Before(i, k) < Before(i, l)
      /\ \A k, l \in DOMAIN inFlight' : Before(i, k) = Before(i, l) => k = l
  BY <1>3, <1>4
<1>7. Len(inFlight) \in Nat \ {0}
  BY <1>1
<1> QED  BY <1>1, <1>2, <1>3, <1>5, <1>6, <1>7

LEMMA CallFields ==
  ASSUME NEW r \in Calls
  PROVE  r.to.environment \in Environments /\ r.iteration \in 0 .. NIterations
         /\ r.iteration \in Nat /\ r.start \in Nat
  BY VertexCounts DEF Calls

LEMMA EngineOf ==
  ASSUME ViewerType, NEW e \in Environments
  PROVE  engine[e] \in Nat
  BY VertexCounts DEF ViewerType

LEMMA LastDrawnIsNat ==
  ASSUME ViewerType
  PROVE  LastDrawn \in Nat
<1>1. scope.convergenceChart \in Seq(Bars)
  BY DEF ViewerType, Scopes
<1>2. \A b \in Bars : b.x \in Nat
  BY EntriesByIteration DEF Iterations
<1> QED  BY <1>1, <1>2 DEF LastDrawn

LEMMA PendingTaken ==
  ASSUME ViewerType, NEW i \in DOMAIN inFlight, inFlight' = RemoveAt(inFlight, i),
         Waiting' = Waiting \/ inFlight[i].kind = "launch"
  PROVE  /\ StartPending' => StartPending
         /\ \A k \in Launching' : Before(i, k) \in Launching /\ Before(i, k) # i
<1>1. \A k \in Launching' : Before(i, k) \in Launching /\ Before(i, k) # i
  BY Taken DEF Launching
<1>2. CASE Waiting' = Waiting
  BY <1>1, <1>2, Pending
<1>3. CASE inFlight[i].kind = "launch"
  BY <1>1, <1>3, Pending DEF Launching
<1> QED  BY <1>1, <1>2, <1>3

LEMMA StartsTaken ==
  ASSUME ViewerInv, NEW i \in DOMAIN inFlight, inFlight' = RemoveAt(inFlight, i),
         UNCHANGED <<starts, overlapped>>, intervals' \subseteq intervals,
         intervals' = {} \/ scope'.intervalID = scope.intervalID \/ overlapped,
         \/ Waiting' = Waiting
         \/ /\ inFlight[i].kind = "launch"
            /\ Waiting' = Waiting \union {[act |-> "startPolling", start |-> inFlight[i].start]}
  PROVE  StartsInTurn'
<1> SUFFICES ASSUME ~overlapped
             PROVE  StartsInTurn'
  BY DEF StartsInTurn
<1>1. ViewerType /\ StartsInTurn
  BY DEF ViewerInv
<1>2. /\ \A k \in Launching : inFlight[k].start = starts
      /\ \A t \in Waiting : t.start = starts
      /\ \A k, l \in Launching : k = l
      /\ Waiting # {} => Launching = {}
      /\ StartPending => intervals = {}
      /\ intervals \subseteq {scope.intervalID}
  BY <1>1 DEF StartsInTurn
<1>3. /\ StartPending' => StartPending
      /\ \A k \in Launching' : Before(i, k) \in Launching /\ Before(i, k) # i
  BY <1>1, PendingTaken
<1>4. /\ \A k \in Launching' : /\ k \in DOMAIN inFlight'
                               /\ inFlight'[k] = inFlight[Before(i, k)]
      /\ \A k, l \in DOMAIN inFlight' : Before(i, k) = Before(i, l) => k = l
  BY <1>1, Taken DEF Launching
<1>5. /\ \A k \in Launching' : inFlight'[k].start = starts'
      /\ \A k, l \in Launching' : k = l
      /\ StartPending' => intervals' = {}
      /\ intervals' \subseteq {scope'.intervalID}
  BY <1>2, <1>3, <1>4
<1>6. CASE Waiting' = Waiting
  <2>1. Waiting' # {} => Launching' = {}
    BY <1>2, <1>3, <1>6
  <2> QED  BY <1>2, <1>5, <1>6, <2>1 DEF StartsInTurn
<1>7. CASE /\ inFlight[i].kind = "launch"
           /\ Waiting' = Waiting \union {[act |-> "startPolling", start |-> inFlight[i].start]}
  <2>1. i \in Launching
    BY <1>7 DEF Launching
  <2>2. Waiting = {} /\ Launching' = {} /\ inFlight[i].start = starts
    BY <1>2, <1>3, <2>1
  <2>3. \A t \in Waiting' : t.start = starts'
    BY <1>7, <2>2
  <2> QED  BY <1>5, <2>2, <2>3 DEF StartsInTurn
<1> QED  BY <1>6, <1>7

LEMMA OrderTaken ==
  ASSUME ViewerInv, NEW i \in DOMAIN inFlight, inFlight' = RemoveAt(inFlight, i),
         UNCHANGED <<starts, engine>>, scope'.environment = scope.environment,
         StartPending' => StartPending, InOrder' => InOrder, LastDrawn' \in Int,
         InOrder' => \A k \in Searches : k # i /\ Brought(k) => LastDrawn' <= inFlight[k].iteration
  PROVE  SearchesInOrder'
<1>1. ViewerType /\ SearchesInOrder
  BY DEF ViewerInv
<1> DEFINE m == [k \in DOMAIN inFlight' |-> Before(i, k)]
<1>2. /\ Len(inFlight) \in Nat \ {0}
      /\ DOMAIN inFlight = 1 .. Len(inFlight) /\ DOMAIN inFlight' = 1 .. Len(inFlight) - 1
      /\ \A k \in DOMAIN inFlight' : /\ inFlight'[k] = inFlight[Before(i, k)]
                                     /\ Before(i, k) \in DOMAIN inFlight
                                     /\ Before(i, k) # i
      /\ \A k, l \in DOMAIN inFlight' : k < l => Before(i, k) < Before(i, l)
  BY <1>1, Taken
<1>3. \A k \in DOMAIN inFlight' : m[k] = Before(i, k)
  OBVIOUS
<1> HIDE DEF m
<1>4. Len(inFlight) - 1 \in Nat /\ Len(inFlight) \in Nat
  BY <1>2
<1>5. \A k \in DOMAIN inFlight' :
            /\ m[k] \in DOMAIN inFlight
            /\ inFlight'[k].kind = inFlight[m[k]].kind
            /\ inFlight'[k].start = inFlight[m[k]].start
            /\ inFlight'[k].to = inFlight[m[k]].to
            /\ inFlight[m[k]].answer # Unserved => inFlight'[k].answer # Unserved
            /\ Brought(k)' => /\ Brought(m[k])
                              /\ inFlight'[k].iteration = inFlight[m[k]].iteration
  BY <1>2, <1>3 DEF Brought
<1>6. \A j, k \in DOMAIN inFlight' : j < k => m[j] < m[k]
  BY <1>2, <1>3
<1>7. ASSUME InOrder', NEW k \in Searches', Brought(k)'
      PROVE  inFlight'[k].iteration \in LastDrawn' .. engine'[scope.environment]
  <2>1. k \in DOMAIN inFlight' /\ m[k] \in Searches /\ m[k] # i /\ Brought(m[k])
        /\ inFlight'[k].iteration = inFlight[m[k]].iteration
    BY <1>2, <1>3, <1>5, <1>7 DEF Searches
  <2>2. LastDrawn' <= inFlight[m[k]].iteration
    BY <1>7, <2>1
  <2>3. inFlight[m[k]].iteration \in LastDrawn .. engine[scope.environment]
        /\ inFlight[m[k]].to.environment = scope.environment
    BY <1>1, <1>7, <2>1 DEF SearchesInOrder
  <2>4. inFlight[m[k]] \in Calls
    BY <1>1, <2>1, Indices DEF Searches
  <2>5. inFlight[m[k]].iteration \in Int /\ engine[scope.environment] \in Int
    <3>1. inFlight[m[k]].iteration \in Nat /\ scope.environment \in Environments
      BY <2>3, <2>4, CallFields
    <3> QED  BY <1>1, <3>1, EngineOf
  <2>6. LastDrawn \in Int
    BY <1>1, LastDrawnIsNat
  <2>7. inFlight[m[k]].iteration <= engine[scope.environment]
    BY <2>3, <2>5, <2>6
  <2> QED  BY <2>1, <2>2, <2>5, <2>7
<1> QED  BY <1>1, <1>2, <1>4, <1>5, <1>6, <1>7, OrderCarried

\* What an answer may do, whatever it is.
LEMMA AnyAnswerKeeps ==
  ASSUME ViewerInv, NEW i \in DOMAIN inFlight, inFlight' = RemoveAt(inFlight, i),
         UNCHANGED <<config, jobs, engine, faults>>, UNCHANGED <<starts, overlapped, strayed>>,
         disordered' \in BOOLEAN, InOrder' => InOrder,
         scope' \in Scopes, scope'.environment = scope.environment,
         intervals' \subseteq intervals,
         intervals' = {} \/ scope'.intervalID = scope.intervalID \/ overlapped,
         \/ timers' = timers
         \/ /\ inFlight[i].kind = "launch"
            /\ timers' = timers \union {[act |-> "startPolling", start |-> inFlight[i].start]},
         ChartsAgree', ChartsInOrder', LastDrawn' \in Int,
         InOrder' => \A k \in Searches : k # i /\ Brought(k) => LastDrawn' <= inFlight[k].iteration
  PROVE  ViewerInv'
<1>1. ViewerType /\ QuietUntilReady /\ OfAStart
  BY DEF ViewerInv
<1>2. /\ inFlight' \in Seq(Calls) /\ inFlight # << >>
      /\ \A k \in DOMAIN inFlight' : /\ inFlight'[k] = inFlight[Before(i, k)]
                                     /\ Before(i, k) \in DOMAIN inFlight
  BY <1>1, Taken
<1>3. inFlight[i].start \in Nat
  BY <1>1, Indices DEF Calls
<1>4. timers' \subseteq Timers
  <2>1. [act |-> "startPolling", start |-> inFlight[i].start] \in Timers
    BY <1>3 DEF Timers
  <2> QED  BY <1>1, <2>1 DEF ViewerType
<1>5. ViewerType'
  BY <1>1, <1>2, <1>4 DEF ViewerType
<1>6. QuietUntilReady'
  BY <1>1, <1>2 DEF QuietUntilReady
<1>7. OfAStart'
  BY <1>1, <1>2 DEF OfAStart
<1>8. \/ Waiting' = Waiting
      \/ /\ inFlight[i].kind = "launch"
         /\ Waiting' = Waiting \union {[act |-> "startPolling", start |-> inFlight[i].start]}
  BY DEF Waiting
<1>9. StartsInTurn'
  BY <1>8, StartsTaken
<1>10. StartPending' => StartPending
  BY <1>1, <1>8, PendingTaken
<1>11. SearchesInOrder'
  BY <1>10, OrderTaken
<1> QED  BY <1>5, <1>6, <1>7, <1>9, <1>11 DEF ViewerInv

\* After a reset no search can bring what is older than what is drawn.
LEMMA ResetAnswerKeeps ==
  ASSUME ViewerInv, NEW i \in DOMAIN inFlight, inFlight' = RemoveAt(inFlight, i),
         UNCHANGED <<config, jobs, engine, faults>>, UNCHANGED <<starts, overlapped, strayed>>,
         disordered' \in BOOLEAN, InOrder' => InOrder, timers' = timers, ClearInterval,
         NEW tab \in BOOLEAN,
         scope' = Reset(scope) \/ scope' = [Reset(scope) EXCEPT !.inputTab = tab]
  PROVE  ViewerInv'
<1>1. ViewerType /\ StartsInTurn /\ OfAStart
  BY DEF ViewerInv
<1>2. /\ scope' \in Scopes /\ scope'.environment = scope.environment
      /\ ~scope'.showResults /\ scope'.iteration = 0 /\ scope'.lastIteration = -1
      /\ scope'.convergenceChart = << >> /\ scope'.stateChart = << >>
  <2>1. scope \in Scopes
    BY <1>1 DEF ViewerType
  <2>2. /\ Reset(scope) \in Scopes
        /\ Reset(scope).environment = scope.environment
        /\ ~Reset(scope).showResults
        /\ Reset(scope).iteration = 0 /\ Reset(scope).lastIteration = -1
        /\ Reset(scope).convergenceChart = << >> /\ Reset(scope).stateChart = << >>
    BY <2>1, ResetScope
  <2> QED  BY <2>2 DEF Scopes
<1>3. ChartsInOrder' /\ ChartsAgree' /\ LastDrawn' = 0
  BY <1>2, ChartsCleared
<1>4. intervals' = intervals \ {scope.intervalID}
  BY DEF ClearInterval
<1>5. ~overlapped => intervals' = {}
  BY <1>1, <1>4 DEF StartsInTurn
<1>6. \A k \in Searches : 0 <= inFlight[k].iteration
  <2>1. \A k \in Searches : inFlight[k] \in Calls
    BY <1>1, Indices DEF Searches
  <2> QED  BY <2>1, VertexCounts DEF Calls
<1>7. intervals' = {} \/ scope'.intervalID = scope.intervalID \/ overlapped
  BY <1>1, <1>5 DEF ViewerType
<1> QED  BY <1>2, <1>3, <1>4, <1>6, <1>7, AnyAnswerKeeps

\* What leaves the charts alone.
LEMMA PlainAnswerKeeps ==
  ASSUME ViewerInv, NEW i \in DOMAIN inFlight, inFlight' = RemoveAt(inFlight, i),
         UNCHANGED <<config, jobs, engine, faults, intervals>>,
         UNCHANGED <<starts, overlapped, strayed>>,
         disordered' \in BOOLEAN, InOrder' => InOrder,
         scope' = scope \/ scope' = [scope EXCEPT !.showStopBtn = FALSE],
         \/ timers' = timers
         \/ /\ inFlight[i].kind = "launch"
            /\ timers' = timers \union {[act |-> "startPolling", start |-> inFlight[i].start]}
  PROVE  ViewerInv'
<1>1. ViewerType /\ QuietUntilReady /\ ChartsAgree /\ ChartsInOrder /\ SearchesInOrder
  BY DEF ViewerInv
<1>2. scope \in Scopes
  BY <1>1 DEF ViewerType
<1>3. /\ scope' \in Scopes /\ scope'.environment = scope.environment
      /\ scope'.intervalID = scope.intervalID
      /\ scope'.showResults = scope.showResults /\ scope'.iteration = scope.iteration
      /\ scope'.lastIteration = scope.lastIteration
      /\ scope'.convergenceData = scope.convergenceData
      /\ scope'.convergenceChart = scope.convergenceChart
      /\ scope'.stateChart = scope.stateChart
  BY <1>2 DEF Scopes
<1>4. Waiting' = Waiting \/ inFlight[i].kind = "launch"
  BY DEF Waiting
<1>5. StartPending' => StartPending
  BY <1>1, <1>4, PendingTaken
<1>6. engine' \in [Environments -> Nat] /\ \A e \in Environments : engine[e] <= engine'[e]
  BY <1>1, EngineIsNat
<1>7. ChartsInOrder' /\ ChartsAgree' /\ LastDrawn' = LastDrawn
  BY <1>1, <1>3, <1>5, <1>6, ChartsCarried
<1>8. LastDrawn \in Int /\ LastDrawn' \in Int
  BY <1>1, <1>7, LastDrawnIsNat
<1>9. ASSUME InOrder', NEW k \in Searches, Brought(k)
      PROVE  LastDrawn' <= inFlight[k].iteration
  <2>1. inFlight[k].iteration \in LastDrawn .. engine[scope.environment]
    BY <1>1, <1>9 DEF SearchesInOrder
  <2>2. inFlight[k].to.environment = scope.environment /\ inFlight[k] \in Calls
    BY <1>1, <1>9, Indices DEF SearchesInOrder, Searches
  <2>3. engine[scope.environment] \in Nat
    <3>1. scope.environment \in Environments
      BY <2>2, CallFields
    <3> QED  BY <1>1, <3>1, EngineOf
  <2>4. LastDrawn <= inFlight[k].iteration
    BY <1>8, <2>1, <2>3
  <2>5. LastDrawn' = LastDrawn
    BY <1>7
  <2> QED  BY <2>4, <2>5
<1> QED  BY <1>3, <1>7, <1>8, <1>9, AnyAnswerKeeps

\* A search brings a job that is still loading: the charts are empty.
LEMMA LoadingAnswerKeeps ==
  ASSUME ViewerInv, NEW i \in DOMAIN inFlight, inFlight' = RemoveAt(inFlight, i),
         inFlight[i].kind = "search", inFlight[i].answer = "stats", inFlight[i].iteration = 0,
         UNCHANGED <<config, jobs, engine, faults, intervals, timers>>,
         UNCHANGED <<starts, overlapped, strayed>>,
         disordered' \in BOOLEAN, InOrder' => InOrder /\ inFlight[i].start = starts,
         scope' = [scope EXCEPT !.iteration = 0, !.lastIteration = 0]
  PROVE  ViewerInv'
<1>1. ViewerType /\ QuietUntilReady /\ ChartsAgree /\ ChartsInOrder /\ SearchesInOrder
  BY DEF ViewerInv
<1>2. scope \in Scopes
  BY <1>1 DEF ViewerType
<1>3. /\ scope' \in Scopes /\ scope'.environment = scope.environment
      /\ scope'.intervalID = scope.intervalID
      /\ scope'.showResults = scope.showResults /\ scope'.iteration = 0
      /\ scope'.lastIteration = 0
      /\ scope'.convergenceChart = scope.convergenceChart
      /\ scope'.stateChart = scope.stateChart
  <2>1. 0 \in 0 .. NIterations /\ 0 \in -1 .. NIterations
    BY VertexCounts
  <2> QED  BY <1>2, <2>1 DEF Scopes
<1>4. ChartsAgree' /\ LastDrawn' = LastDrawn
  BY <1>1, <1>3 DEF ChartsAgree, LastDrawn
<1>5. LastDrawn \in Nat
  BY <1>1, LastDrawnIsNat
<1>6. ASSUME InOrder'
      PROVE  scope.convergenceChart = << >> /\ ~scope.showResults
  <2>1. i \in Searches /\ Brought(i) /\ InOrder
    BY <1>6 DEF Searches, Brought
  <2>2. 0 \in LastDrawn .. engine[scope.environment]
        /\ inFlight[i].to.environment = scope.environment
    BY <1>1, <2>1 DEF SearchesInOrder
  <2>3. engine[scope.environment] \in Nat
    <3>1. inFlight[i] \in Calls
      BY <1>1, Indices
    <3>2. scope.environment \in Environments
      BY <2>2, <3>1, CallFields
    <3> QED  BY <1>1, <3>2, EngineOf
  <2>4. LastDrawn = 0
    BY <1>5, <2>2, <2>3
  <2>5. scope.convergenceChart # << >> => LastDrawn > 0
    <3>1. scope.convergenceChart \in Seq(Bars)
      BY <1>2 DEF Scopes
    <3>2. \A b \in Bars : b.x \in Nat /\ b.x > 0
      BY EntriesByIteration, VertexCounts DEF Iterations
    <3> QED  BY <3>1, <3>2 DEF LastDrawn
  <2>6. scope.convergenceChart = << >>
    BY <2>4, <2>5
  <2> QED  BY <1>1, <2>1, <2>6 DEF ChartsInOrder
<1>7. ChartsInOrder'
  BY <1>3, <1>6 DEF ChartsInOrder
<1>8. ASSUME InOrder', NEW k \in Searches, Brought(k)
      PROVE  LastDrawn' <= inFlight[k].iteration
  <2>1. LastDrawn' = 0
    BY <1>4, <1>6, <1>8 DEF LastDrawn
  <2>2. inFlight[k] \in Calls
    BY <1>1, Indices DEF Searches
  <2>3. inFlight[k].iteration \in Nat
    BY <2>2, CallFields
  <2> QED  BY <2>1, <2>3
<1> QED  BY <1>3, <1>4, <1>5, <1>7, <1>8, AnyAnswerKeeps

\* A search brings an iteration: it is the one drawn last or a later one.
LEMMA ResultsKeep ==
  ASSUME ViewerInv, NEW i \in DOMAIN inFlight, inFlight' = RemoveAt(inFlight, i),
         inFlight[i].kind = "search", inFlight[i].answer = "stats", inFlight[i].iteration # 0,
         UNCHANGED <<config, jobs, engine, faults, intervals, timers>>,
         UNCHANGED <<starts, overlapped, strayed>>,
         disordered' \in BOOLEAN,
         InOrder' => /\ InOrder /\ inFlight[i].start = starts
                     /\ \A k \in 1 .. i - 1 : inFlight[k].kind # "search",
         scope' = Results(scope, inFlight[i].iteration)
  PROVE  ViewerInv'
<1> DEFINE n      == inFlight[i].iteration
           bars   == scope.convergenceChart
           stacks == scope.stateChart
<1>1. ViewerType /\ QuietUntilReady /\ ChartsAgree /\ ChartsInOrder /\ SearchesInOrder
  BY DEF ViewerInv
<1>2. scope \in Scopes
  BY <1>1 DEF ViewerType
<1>3. n \in Iterations /\ n \in Nat /\ n \in 0 .. NIterations /\ n \in -1 .. NIterations
  <2>1. inFlight[i] \in Calls
    BY <1>1, Indices
  <2> QED  BY <2>1, CallFields, VertexCounts DEF Iterations
<1>4. LastDrawn \in Nat
  BY <1>1, LastDrawnIsNat
<1>5. bars \in Seq(Bars) /\ stacks \in Seq(Stacks) /\ DOMAIN bars = 1 .. Len(bars)
      /\ Len(bars) \in Nat
  BY <1>2 DEF Scopes
\* What may be said when everything came in order.
<1>6. ASSUME InOrder'
      PROVE  /\ n \in LastDrawn .. engine[scope.environment]
             /\ engine[scope.environment] \in Nat /\ ~StartPending
             /\ \A k \in Searches : k # i /\ Brought(k) => n <= inFlight[k].iteration
  <2>1. i \in Searches /\ Brought(i) /\ InOrder
    BY <1>6 DEF Searches, Brought
  <2>2. n \in LastDrawn .. engine[scope.environment]
        /\ inFlight[i].to.environment = scope.environment /\ ~StartPending
    BY <1>1, <2>1 DEF SearchesInOrder
  <2>3. engine[scope.environment] \in Nat
    <3>1. inFlight[i] \in Calls
      BY <1>1, Indices
    <3>2. scope.environment \in Environments
      BY <2>2, <3>1, CallFields
    <3> QED  BY <1>1, <3>2, EngineOf
  <2>4. ASSUME NEW k \in Searches, k # i, Brought(k)
        PROVE  n <= inFlight[k].iteration
    <3>1. k \in DOMAIN inFlight /\ inFlight[k].kind = "search"
      BY DEF Searches
    <3>2. k \notin 1 .. i - 1
      BY <1>6, <3>1
    <3>3. DOMAIN inFlight = 1 .. Len(inFlight) /\ Len(inFlight) \in Nat
      BY <1>1, Indices
    <3>4. i < k
      BY <2>4, <3>1, <3>2, <3>3
    <3> QED  BY <1>1, <2>1, <2>4, <3>4 DEF SearchesInOrder
  <2> QED  BY <2>2, <2>3, <2>4
<1>7. (StartPending' => StartPending) /\ Waiting' = Waiting
  BY <1>1, PendingTaken DEF Waiting
<1>8. CASE scope.lastIteration = n
  <2>1. scope' = [scope EXCEPT !.iteration = n, !.showGraphStats = FALSE, !.showResults = TRUE]
    BY <1>8 DEF Results
  <2>2. /\ scope' \in Scopes /\ scope'.environment = scope.environment
        /\ scope'.intervalID = scope.intervalID
        /\ scope'.showResults /\ scope'.lastIteration = scope.lastIteration
        /\ scope'.convergenceData = scope.convergenceData
        /\ scope'.convergenceChart = bars /\ scope'.stateChart = stacks
    <3> HIDE DEF n
    <3> QED  BY <1>2, <1>3, <2>1 DEF Scopes
  <2>3. ChartsAgree' /\ LastDrawn' = LastDrawn
    BY <1>1, <2>2 DEF ChartsAgree, LastDrawn
  <2>4. ChartsInOrder'
    <3> SUFFICES ASSUME InOrder'
                 PROVE  ChartsInOrder'
      BY DEF ChartsInOrder
    <3>1. InOrder /\ ~StartPending'
      BY <1>6, <1>7
    <3>2. /\ \A j, k \in DOMAIN bars : j < k => bars[j].x < bars[k].x
          /\ bars # << >> => /\ scope.lastIteration = LastDrawn
                             /\ scope.convergenceData = LastDrawn
                             /\ LastDrawn <= engine[scope.environment]
          /\ bars = << >> => scope.lastIteration <= 0
      BY <1>1, <3>1 DEF ChartsInOrder
    <3>3. bars # << >>
      BY <1>3, <1>8, <3>2 DEF Iterations
    <3> QED  BY <2>2, <2>3, <3>1, <3>2, <3>3 DEF ChartsInOrder
  <2>5. ASSUME InOrder', NEW k \in Searches, k # i, Brought(k)
        PROVE  LastDrawn' <= inFlight[k].iteration
    <3>1. n <= inFlight[k].iteration /\ n \in LastDrawn .. engine[scope.environment]
          /\ engine[scope.environment] \in Nat
      BY <1>6, <2>5
    <3>2. inFlight[k] \in Calls
      BY <1>1, Indices DEF Searches
    <3>3. inFlight[k].iteration \in Nat
      BY <3>2, CallFields
    <3> HIDE DEF n
    <3> QED  BY <1>3, <1>4, <2>3, <3>1, <3>3
  <2>6. InOrder' => InOrder
    OBVIOUS
  <2> QED  BY <1>4, <2>2, <2>3, <2>4, <2>5, <2>6, AnyAnswerKeeps
<1>9. CASE scope.lastIteration # n
  <2> DEFINE bars2   == BarPut(bars, n, (100 * State0[n]) \div Vertices)
             stacks2 == StackPut(stacks, n, <<State0[n], Vertices - State0[n]>>)
  <2>1. scope' = [scope EXCEPT !.iteration = n, !.showGraphStats = FALSE, !.showResults = TRUE,
                               !.convergenceData = n, !.convergenceChart = bars2,
                               !.stateChart = stacks2, !.lastIteration = n]
    BY <1>2, <1>9 DEF Results, Scopes
  <2>2. /\ bars2 \in Seq(Bars) /\ stacks2 \in Seq(Stacks) /\ Len(bars2) = Len(stacks2)
        /\ \A k \in 1 .. Len(bars2) : bars2[k].x = stacks2[k].x
        /\ (\E k \in 1 .. Len(bars) : bars[k].x = n) \/ bars2 = Append(bars, BarOf(n))
    <3>1. Len(bars) = Len(stacks) /\ \A k \in 1 .. Len(bars) : bars[k].x = stacks[k].x
      BY <1>1, <1>5 DEF ChartsAgree
    <3>2. /\ bars2 = BarPut(bars, n, (100 * State0[n]) \div Vertices)
          /\ stacks2 = StackPut(stacks, n, <<State0[n], Vertices - State0[n]>>)
      OBVIOUS
    <3>3. n \in Iterations /\ bars \in Seq(Bars) /\ stacks \in Seq(Stacks)
      BY <1>3, <1>5
    <3> HIDE DEF n, bars, stacks, bars2, stacks2
    <3> QED  BY <3>1, <3>2, <3>3, BothPut
  <2> HIDE DEF bars2, stacks2
  <2>3. /\ scope' \in Scopes /\ scope'.environment = scope.environment
        /\ scope'.intervalID = scope.intervalID
        /\ scope'.showResults /\ scope'.lastIteration = n /\ scope'.convergenceData = n
        /\ scope'.convergenceChart = bars2 /\ scope'.stateChart = stacks2
    <3>1. bars2 \in Seq(Bars) /\ stacks2 \in Seq(Stacks)
      BY <2>2
    <3> HIDE DEF n
    <3>2. scope' \in Scopes
      BY <1>2, <1>3, <2>1, <3>1 DEF Scopes
    <3>3. /\ scope'.environment = scope.environment /\ scope'.intervalID = scope.intervalID
          /\ scope'.showResults /\ scope'.lastIteration = n /\ scope'.convergenceData = n
          /\ scope'.convergenceChart = bars2 /\ scope'.stateChart = stacks2
      BY <1>2, <2>1 DEF Scopes
    <3> QED  BY <3>2, <3>3
  <2>4. ChartsAgree'
    BY <2>2, <2>3 DEF ChartsAgree
  <2>5. ASSUME InOrder'
        PROVE  /\ bars2 # << >> /\ bars2[Len(bars2)].x = n
               /\ \A j, k \in DOMAIN bars2 : j < k => bars2[j].x < bars2[k].x
    <3>1. /\ \A j, k \in DOMAIN bars : j < k => bars[j].x < bars[k].x
          /\ bars # << >> => scope.lastIteration = LastDrawn
      BY <1>1, <2>5 DEF ChartsInOrder
    <3>2. LastDrawn <= n
      BY <1>3, <1>4, <1>6, <2>5
    <3>3. \A k \in DOMAIN bars : bars[k].x \in Nat
      BY <1>5, EntriesByIteration DEF Iterations
    <3>4. bars # << >> => LastDrawn = bars[Len(bars)].x /\ LastDrawn < n
      BY <1>3, <1>4, <1>9, <3>1, <3>2 DEF LastDrawn
    <3>5. ASSUME NEW k \in DOMAIN bars
          PROVE  bars[k].x < n
      <4>1. bars # << >> /\ Len(bars) \in DOMAIN bars /\ k <= Len(bars)
        BY <1>5
      <4>2. k = Len(bars) \/ bars[k].x < bars[Len(bars)].x
        BY <1>5, <3>1, <4>1
      <4> QED  BY <1>3, <1>4, <3>3, <3>4, <4>1, <4>2
    <3>6. ~ \E k \in 1 .. Len(bars) : bars[k].x = n
      BY <1>3, <1>5, <3>3, <3>5
    <3>7. bars2 = Append(bars, BarOf(n))
      BY <2>2, <3>6
    <3>8. BarOf(n) \in Bars /\ BarOf(n).x = n
      BY <1>3, EntriesByIteration, VertexCounts
    <3>9. /\ Len(bars2) = Len(bars) + 1 /\ DOMAIN bars2 = 1 .. Len(bars) + 1
          /\ \A k \in DOMAIN bars : bars2[k] = bars[k]
          /\ bars2[Len(bars) + 1] = BarOf(n)
      <4>1. /\ Len(Append(bars, BarOf(n))) = Len(bars) + 1
            /\ \A k \in 1 .. Len(bars) : Append(bars, BarOf(n))[k] = bars[k]
            /\ Append(bars, BarOf(n))[Len(bars) + 1] = BarOf(n)
            /\ Append(bars, BarOf(n)) \in Seq(Bars)
        <5> HIDE DEF bars, n
        <5> QED  BY <1>5, <3>8, AppendProperties
      <4>2. Len(bars2) = Len(bars) + 1
        BY <3>7, <4>1
      <4> QED  BY <1>5, <2>2, <3>7, <4>1, <4>2
    <3> HIDE DEF bars, n
    <3>10. ASSUME NEW j \in DOMAIN bars2, NEW k \in DOMAIN bars2, j < k
           PROVE  bars2[j].x < bars2[k].x
      <4>1. j \in DOMAIN bars
        BY <1>5, <3>9, <3>10
      <4>2. CASE k \in DOMAIN bars
        BY <3>1, <3>9, <3>10, <4>1, <4>2
      <4>3. CASE k = Len(bars) + 1
        BY <3>5, <3>8, <3>9, <4>1, <4>3
      <4> QED  BY <1>5, <3>9, <4>2, <4>3
    <3>11. bars2 # << >> /\ bars2[Len(bars2)].x = n
      BY <1>5, <3>8, <3>9
    <3> QED  BY <3>10, <3>11
  <2>6. InOrder' => LastDrawn' = n
    BY <2>3, <2>5 DEF LastDrawn
  <2>7. LastDrawn' \in Int
    <3>1. \A b \in Bars : b.x \in Nat
      BY EntriesByIteration DEF Iterations
    <3> QED  BY <2>2, <2>3, <3>1 DEF LastDrawn
  <2>8. ChartsInOrder'
    <3> SUFFICES ASSUME InOrder'
                 PROVE  ChartsInOrder'
      BY DEF ChartsInOrder
    <3>1. ~StartPending'
      BY <1>6, <1>7
    <3>2. n <= engine[scope.environment]
      BY <1>3, <1>4, <1>6
    <3> QED  BY <2>3, <2>5, <2>6, <3>1, <3>2 DEF ChartsInOrder
  <2>9. InOrder' => \A k \in Searches : k # i /\ Brought(k) => LastDrawn' <= inFlight[k].iteration
    BY <1>6, <2>6
  <2>10. InOrder' => InOrder
    OBVIOUS
  <2> QED  BY <2>3, <2>4, <2>7, <2>8, <2>9, <2>10, AnyAnswerKeeps
<1> QED  BY <1>8, <1>9

LEMMA DeliverKeeps ==
  ASSUME ViewerInv, NEW i \in DOMAIN inFlight, Deliver(i)
  PROVE  ViewerInv'
<1> DEFINE r == inFlight[i]
<1>1. ViewerType
  BY DEF ViewerInv
<1>2. r \in Calls
  BY <1>1, Indices
<1>3. /\ inFlight' = RemoveAt(inFlight, i) /\ r.answer # Unserved
      /\ disordered' = \/ disordered
                       \/ r.start # starts
                       \/ \E k \in 1 .. i - 1 : inFlight[k].kind = "search"
      /\ UNCHANGED <<config, jobs, engine, faults>>
      /\ UNCHANGED <<starts, overlapped, strayed>>
  BY DEF Deliver, serviceVars
<1>4. disordered' \in BOOLEAN
  BY <1>3, Zenon
<1>5. InOrder' => /\ InOrder /\ r.start = starts
                  /\ \A k \in 1 .. i - 1 : inFlight[k].kind # "search"
  BY <1>3 DEF InOrder
<1>6. CASE r.kind = "launch"
  <2>1. LaunchAnswered(r)
    BY <1>6 DEF Deliver
  <2>2. CASE r.answer = "success"
    <3>1. /\ timers' = timers \union {[act |-> "startPolling", start |-> r.start]}
          /\ UNCHANGED <<scope, intervals>>
      BY <2>1, <2>2 DEF LaunchAnswered
    <3> QED  BY <1>3, <1>4, <1>5, <1>6, <3>1, PlainAnswerKeeps
  <2>3. CASE r.answer # "success"
    <3>1. scope' = Reset(scope) /\ ClearInterval /\ timers' = timers
      BY <2>1, <2>3 DEF LaunchAnswered
    <3> QED  BY <1>3, <1>4, <1>5, <3>1, ResetAnswerKeeps
  <2> QED  BY <2>2, <2>3
<1>7. CASE r.kind = "stop"
  <2>1. StopAnswered(r)
    BY <1>7 DEF Deliver
  <2>2. CASE r.answer = "empty"
    <3>1. scope' = Reset(scope) /\ ClearInterval /\ timers' = timers
      BY <2>1, <2>2 DEF StopAnswered
    <3> QED  BY <1>3, <1>4, <1>5, <3>1, ResetAnswerKeeps
  <2>3. CASE r.answer # "empty"
    <3>1. /\ scope' = scope \/ scope' = [scope EXCEPT !.showStopBtn = FALSE]
          /\ UNCHANGED <<intervals, timers>>
      BY <2>1, <2>3 DEF StopAnswered
    <3> QED  BY <1>3, <1>4, <1>5, <3>1, PlainAnswerKeeps
  <2> QED  BY <2>2, <2>3
<1>8. CASE r.kind = "search"
  <2>1. SearchAnswered(r)
    BY <1>8 DEF Deliver
  <2>2. CASE r.answer = "stats" /\ r.iteration = 0
    <3>1. /\ scope' = [scope EXCEPT !.iteration = 0, !.lastIteration = 0]
          /\ UNCHANGED <<intervals, timers>>
      BY <2>1, <2>2 DEF SearchAnswered
    <3> QED  BY <1>3, <1>4, <1>5, <1>8, <2>2, <3>1, LoadingAnswerKeeps
  <2>3. CASE r.answer = "stats" /\ r.iteration # 0
    <3>1. scope' = Results(scope, r.iteration) /\ UNCHANGED <<intervals, timers>>
      BY <2>1, <2>3 DEF SearchAnswered
    <3> QED  BY <1>3, <1>4, <1>5, <1>8, <2>3, <3>1, ResultsKeep
  <2>4. CASE r.answer # "stats"
    <3>1. /\ scope' = [Reset(scope) EXCEPT !.inputTab = (r.answer = "null")]
          /\ ClearInterval /\ timers' = timers
      BY <2>1, <2>4 DEF SearchAnswered
    <3>2. (r.answer = "null") \in BOOLEAN
      OBVIOUS
    <3> QED  BY <1>3, <1>4, <1>5, <3>1, <3>2, ResetAnswerKeeps
  <2> QED  BY <2>2, <2>3, <2>4
<1>9. r.kind \in {"launch", "stop", "search"}
  BY <1>2 DEF Calls
<1> QED  BY <1>6, <1>7, <1>8, <1>9

LEMMA ViewerUnmoved ==
  ASSUME ViewerInv, UNCHANGED viewerVars
  PROVE  ViewerInv'
<1>1. UNCHANGED <<config, scope, timers, intervals, inFlight, jobs, engine, faults,
                  starts, overlapped, strayed, disordered>>
  BY DEF viewerVars, scopeVars, serviceVars, historyVars
<1>2. scope \in Scopes
  BY DEF ViewerInv, ViewerType
<1>3. Waiting' = Waiting
  BY <1>1 DEF Waiting
<1> QED  BY <1>1, <1>2, <1>3, DisplayKeeps

\* The inductive invariant of the viewer page, for every number of environments, starts,
\* requests in flight, faults and iterations, whatever the order of the answers.
THEOREM ViewerInvariance == ViewerSpec => []ViewerInv
<1>1. ViewerInv /\ ViewerNext => ViewerInv'
  <2> SUFFICES ASSUME ViewerInv, ViewerNext
               PROVE  ViewerInv'
    OBVIOUS
  <2>1. CASE User
    <3>1. ASSUME NEW e \in Environments, SelectEnvironment(e) PROVE ViewerInv'
      BY <3>1, SelectEnvironmentKeeps
    <3>2. ASSUME NEW d \in Datasets, SelectDataset(d) PROVE ViewerInv'
      BY <3>2, SelectDatasetKeeps
    <3> QED  BY <2>1, <3>1, <3>2, ClickTabKeeps, LaunchKeeps, QueryKeeps, StopKeeps DEF User
  <2>2. CASE Service
    <3>1. ASSUME NEW e \in Environments, Iterate(e) PROVE ViewerInv'
      BY <3>1, IterateKeeps
    <3>2. ASSUME NEW i \in DOMAIN inFlight, Serve(i) PROVE ViewerInv'
      BY <3>2, ServeKeeps
    <3>3. ASSUME NEW i \in DOMAIN inFlight, Refuse(i) PROVE ViewerInv'
      BY <3>3, RefuseKeeps
    <3> QED  BY <2>2, <3>1, <3>2, <3>3 DEF Service
  <2>3. CASE Browser
    <3>1. ASSUME NEW i \in intervals, Tick(i) PROVE ViewerInv'
      BY <3>1, TickKeeps
    <3>2. ASSUME NEW i \in DOMAIN inFlight, Deliver(i) PROVE ViewerInv'
      BY <3>2, DeliverKeeps
    <3> QED  BY <2>3, <3>1, <3>2, LoadKeepsViewer, HideGraphStatsKeeps, StartPollingKeeps DEF Browser
  <2> QED  BY <2>1, <2>2, <2>3 DEF ViewerNext
<1>2. ViewerInv /\ [ViewerNext]_viewerVars => ViewerInv'
  BY <1>1, ViewerUnmoved
<1> QED  BY <1>2, ViewerInitInv, PTL DEF ViewerSpec

\* As long as no start is made while another is pending, the browser runs no interval but the
\* one the page knows of, however requests are answered, refused, stopped or lost.
THEOREM KnownIntervalRuns == ViewerSpec => []OnlyKnownIntervalRuns
<1>1. ViewerInv => OnlyKnownIntervalRuns
  BY DEF ViewerInv, StartsInTurn, OnlyKnownIntervalRuns
<1> QED  BY <1>1, ViewerInvariance, PTL

\* As long as answers come in order, starts do not overlap and the environment of the start
\* stays selected, both charts hold the same iterations, each drawn in a slot of its own inside the axes,
\* and the page names the last of them.
THEOREM ChartsShow == ViewerSpec => []ChartsShowTheRun
<1>1. ViewerInv => ChartsShowTheRun
  <2> SUFFICES ASSUME ViewerInv, InOrder
               PROVE  ChartsShowTheRun
    BY DEF ChartsShowTheRun, InOrder
  <2> DEFINE bars   == scope.convergenceChart
             stacks == scope.stateChart
  <2>1. ViewerType /\ ChartsAgree /\ ChartsInOrder
    BY DEF ViewerInv
  <2>2. bars \in Seq(Bars) /\ stacks \in Seq(Stacks) /\ DOMAIN bars = 1 .. Len(bars)
        /\ scope.iteration \in 0 .. NIterations
    BY <2>1 DEF ViewerType, Scopes
  <2>3. Len(bars) = Len(stacks) /\ \A i \in DOMAIN bars : bars[i].x = stacks[i].x
    BY <2>1 DEF ChartsAgree
  <2>4. /\ \A i, j \in DOMAIN bars : i < j => bars[i].x < bars[j].x
        /\ bars # << >> => /\ scope.lastIteration = LastDrawn
                           /\ scope.convergenceData = LastDrawn
        /\ bars = << >> => ~scope.showResults
        /\ scope.iteration # 0 => scope.showResults
    BY <2>1 DEF ChartsInOrder
  <2>5. BarsInSlots(bars) /\ StacksFillAxis(stacks)
    <3>1. /\ \A k \in 1 .. Len(bars) : bars[k].x = stacks[k].x
          /\ \A i, j \in 1 .. Len(bars) : i < j => bars[i].x < bars[j].x
      BY <2>2, <2>3, <2>4
    <3> HIDE DEF bars, stacks
    <3> QED  BY <2>2, <2>3, <3>1, OrderedChartsFit
  <2>6. scope.showResults => /\ bars # << >>
                             /\ scope.lastIteration = bars[Len(bars)].x
                             /\ scope.convergenceData = scope.lastIteration
    BY <2>4 DEF LastDrawn
  <2>7. scope.iteration = NIterations => scope.showResults
    BY <2>4, VertexCounts
  <2> QED  BY <2>3, <2>5, <2>6, <2>7 DEF ChartsShowTheRun
<1> QED  BY <1>1, ViewerInvariance, PTL
=============================================================================
