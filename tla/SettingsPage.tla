----------------------------- MODULE SettingsPage -----------------------------
(* The settings page: LSGiSettingsCtrl with the selection and buttons of its  *)
(* view, and LSGiSettingsController of the web service, which reads and       *)
(* rewrites the configuration files.  The page does not wait for its answers, *)
(* and the handler of an answer does not look at the file it is about.  The   *)
(* service handles requests in threads of their own; a save first opens, and  *)
(* thereby empties, the file and then writes it.                              *)
(*                                                                            *)
(* A content is the file it was once read from, a version the user gave it,   *)
(* and whether it is a list with elements, some other JSON text (an empty     *)
(* list, of which the page shows nothing either, included) or no JSON at all. *)
EXTENDS Integers, SequencesExt

CONSTANTS
    Files,
    NoFile,          \* the option "---Please select---"
    MaxRequests,     \* bound: loads and saves the page sends
    MaxFailures        \* bound: requests that fail in the service or get lost

ASSUME SettingsAssumption ==
    NoFile \notin Files /\ MaxRequests \in Nat /\ MaxFailures \in Nat

VARIABLES
    selected,        \* $scope.selectedFileName
    showContent,     \* the text area and Save are shown
    jsonFile,        \* the content of the text area
    requests,        \* requests in flight, in the order of sending
    sent,            \* requests so far
    disk,            \* disk[f]: the content of a file, and whether junk follows it
    settingsFaults,
    damaged,         \* history: files a failing save has left empty
    switched,        \* history: another file was selected while a load was in flight
    raced,           \* history: files two saves of which were in flight together
    lastSent         \* history: lastSent[f]: what the last save of f is to store

pageVars     == <<selected, showContent, jsonFile>>
pastVars     == <<damaged, switched, raced, lastSent>>
settingsVars == <<pageVars, requests, sent, disk, settingsFaults, pastVars>>

Forms      == {"list", "json", "text"}
Original(f) == [of |-> f, version |-> 0, form |-> "list"]
\* What FileOutputStream leaves of a file it has just opened.
Emptied     == [of |-> NoFile, version |-> 0, form |-> "text"]

SettingsInit ==
    /\ selected = NoFile /\ showContent = FALSE /\ jsonFile = Emptied
    /\ requests = << >> /\ sent = 0 /\ settingsFaults = 0
    /\ disk = [f \in Files |-> [content |-> Original(f), junk |-> FALSE]]
    /\ damaged = {} /\ switched = FALSE /\ raced = {}
    /\ lastSent = [f \in Files |-> Original(f)]

InFlight(kind) == {i \in DOMAIN requests : requests[i].kind = kind}
SavesOf(f)     == {i \in InFlight("save") : requests[i].file = f}

-----------------------------------------------------------------------------
(* The page.                                                                 *)

\* Mutant: the content of the file before stays on the page.
SelectKeeping(f) ==
    /\ f # selected
    /\ selected' = f
    /\ switched' = (switched \/ InFlight("load") # {})
    /\ UNCHANGED <<showContent, jsonFile, requests, sent, disk, settingsFaults, damaged, raced,
                   lastSent>>

\* ng-change="reset()" of the selection.
Select(f) ==
    /\ f # selected
    /\ selected' = f
    /\ showContent' = FALSE
    /\ switched' = (switched \/ InFlight("load") # {})
    /\ UNCHANGED <<jsonFile, requests, sent, disk, settingsFaults, damaged, raced, lastSent>>

Post(kind, content) ==
    /\ sent < MaxRequests
    /\ sent' = sent + 1
    /\ requests' = Append(requests, [kind |-> kind, file |-> selected,
                                     content |-> content, stage |-> "sent"])

\* load(); the button is disabled while nothing is selected.
Load ==
    /\ selected # NoFile
    /\ Post("load", Emptied)
    /\ UNCHANGED <<pageVars, disk, settingsFaults, pastVars>>

Edit ==
    /\ showContent
    /\ \E form \in Forms : jsonFile' = [jsonFile EXCEPT !.version = sent, !.form = form]
    /\ UNCHANGED <<selected, showContent, requests, sent, disk, settingsFaults, pastVars>>

\* isJson(str)
IsJson(content) == content.form # "text"

\* save(): the selected file and the content of the text area.
Save ==
    /\ showContent
    /\ IsJson(jsonFile)
    /\ Post("save", jsonFile)
    /\ IF selected = NoFile THEN UNCHANGED <<raced, lastSent>>
       ELSE /\ raced' = IF SavesOf(selected) = {} THEN raced ELSE raced \union {selected}
            /\ lastSent' = [lastSent EXCEPT ![selected] = jsonFile]
    /\ UNCHANGED <<pageVars, disk, settingsFaults, damaged, switched>>

-----------------------------------------------------------------------------
(* The service.                                                              *)

Stage(i, s) == requests' = [requests EXCEPT ![i].stage = s]

\* loadFile(): the mapper reads one list and ignores what follows it.
LoadFile(i) ==
    LET r == requests[i]
        c == disk[r.file].content
    IN  /\ r.kind = "load" /\ r.stage = "sent"
        /\ requests' = [requests EXCEPT
                          ![i].stage   = IF c.form = "list" THEN "success" ELSE "error",
                          ![i].content = c]
        /\ UNCHANGED <<pageVars, sent, disk, settingsFaults, pastVars>>

\* saveFile(), first half: the output stream empties the file.  Without a file
\* name it is a directory and cannot be opened.
OpenFile(i) ==
    LET r == requests[i]
    IN  /\ r.kind = "save" /\ r.stage = "sent"
        /\ IF r.file = NoFile
           THEN Stage(i, "error") /\ UNCHANGED disk
           ELSE /\ Stage(i, "opened")
                /\ disk' = [disk EXCEPT ![r.file] = [content |-> Emptied, junk |-> FALSE]]
        /\ UNCHANGED <<pageVars, sent, settingsFaults, pastVars>>

\* saveFile(), second half: written from the start of the file, over whatever
\* another save has written since it was opened; a longer one leaves its end.
WriteFile(i) ==
    LET r == requests[i]
    IN  /\ r.kind = "save" /\ r.stage = "opened"
        /\ Stage(i, "success")
        /\ \E junk \in BOOLEAN :
              /\ junk => disk[r.file].content # Emptied
              /\ disk' = [disk EXCEPT ![r.file] = [content |-> r.content, junk |-> junk]]
        /\ UNCHANGED <<pageVars, sent, settingsFaults, pastVars>>

\* An exception of either method, or a request that does not get through.  A
\* save that fails after opening its file leaves it as it is.
Fail(i) ==
    LET r == requests[i]
    IN  /\ r.stage \in {"sent", "opened"}
        /\ settingsFaults < MaxFailures
        /\ settingsFaults' = settingsFaults + 1
        /\ Stage(i, "error")
        /\ damaged' = IF r.kind = "save" THEN damaged \union ({r.file} \ {NoFile}) ELSE damaged
        /\ UNCHANGED <<pageVars, sent, disk, switched, raced, lastSent>>

\* An answer: the content of a load is shown under whatever is selected now; the
\* other answers only show a message.
Answered(i) ==
    LET r == requests[i]
    IN  /\ r.stage \in {"success", "error"}
        /\ requests' = RemoveAt(requests, i)
        /\ IF r.kind = "load" /\ r.stage = "success"
           THEN jsonFile' = r.content /\ showContent' = TRUE
           ELSE UNCHANGED <<jsonFile, showContent>>
        /\ UNCHANGED <<selected, sent, disk, settingsFaults, pastVars>>

-----------------------------------------------------------------------------
SettingsNext ==
    \/ \E f \in Files \union {NoFile} : Select(f)
    \/ Load \/ Edit \/ Save
    \/ \E i \in DOMAIN requests : LoadFile(i)
    \/ \E i \in DOMAIN requests : OpenFile(i)
    \/ \E i \in DOMAIN requests : WriteFile(i)
    \/ \E i \in DOMAIN requests : Fail(i)
    \/ \E i \in DOMAIN requests : Answered(i)

SettingsSpec == SettingsInit /\ [][SettingsNext]_settingsVars

-----------------------------------------------------------------------------
(* Properties.                                                               *)

\* "Saves changes in configuration file" (line 58).  No text the page has refused
\* gets into a file, and only an unfinished save leaves one empty: when no save of
\* a file is in flight and none has failed, its content is JSON, however the saves
\* before were interleaved (isJson at line 67 of the controller, lines 131 to 144
\* of the service).  When the user waits for what he loads, a file only ever holds
\* its own content, and with its saves one at a time it holds what the last one
\* sent once that is answered.
FilesHoldWhatWasSaved ==
    \A f \in Files :
      /\ SavesOf(f) = {} /\ f \notin damaged => disk[f].content.form # "text"
      /\ ~switched =>
           /\ disk[f].content # Emptied => disk[f].content.of = f
           /\ SavesOf(f) = {} /\ f \notin raced \union damaged =>
                disk[f] = [content |-> lastSent[f], junk |-> FALSE]
=============================================================================
