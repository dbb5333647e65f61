------------------------------- MODULE Scanner -------------------------------
(***************************************************************************)
(* The scan page in the browser: the camera, the form for typing an ISBN   *)
(* and the buttons of the result panel all send requests of their own and  *)
(* write their answers into the one panel, while the server answers in any *)
(* order or not at all.                                                    *)
(*                                                                         *)
(* The camera library and htmx are external: a decoded barcode is reported *)
(* again and again while it is in view, unless the camera is paused; a     *)
(* request of htmx always settles, with an answer or an error.             *)
(***************************************************************************)
EXTENDS Naturals

CONSTANTS
    Isbns,      \* barcodes of books
    Catalogue,  \* those the lookup finds
    MaxSent,    \* bound: requests sent from the page
    Faulty,     \* whether requests may be lost and saves and lookups fail
    None

ASSUME CatalogueAssumption == Catalogue \subseteq Isbns
ASSUME FaultyAssumption    == Faulty \in BOOLEAN
ASSUME BoundAssumption     == MaxSent \in Nat

Answers  == {"preview", "entry", "added", "duplicate", "error"}
Requests ==
    [from : {"camera", "form", "panel"}, op : {"scan", "confirm", "manual"}, isbn : Isbns,
     auto : BOOLEAN, form : Nat, answer : Answers \cup {None}]

ASSUME NoneAssumption == None \notin Requests \cup Answers

VARIABLES
    htmx,      \* whether htmx has been loaded
    camera,    \* html5Qrcode: starting, running, paused, stopped or failed
    resolved,  \* whether the promise of start() has been settled
    scanning,  \* the flag of scanner.js
    auto,      \* the toggle "add automatically"
    panel,     \* what #scan-result shows
    flight,    \* flight[q]: request q while it is under way
    sent,      \* the number of requests sent so far
    decoded,   \* the last request sent by the camera
    shelf,     \* the user's books
    wanted     \* books the user asked to add, by button or with the toggle on

vars == <<htmx, camera, resolved, scanning, auto, panel, flight, sent, decoded, shelf, wanted>>

Ids         == 1 .. MaxSent
Blank       == [kind |-> "blank", isbn |-> None, id |-> 0]
Message     == [kind |-> "message", isbn |-> None, id |-> 0]
InFlight    == {q \in Ids : flight[q] # None}
From(where) == {q \in InFlight : flight[q].from = where}

TypeOK ==
    /\ htmx \in BOOLEAN /\ resolved \in BOOLEAN /\ scanning \in BOOLEAN /\ auto \in BOOLEAN
    /\ camera \in {"starting", "running", "paused", "stopped", "failed"}
    /\ panel \in {Blank, Message} \cup [kind : Answers, isbn : Isbns, id : Ids]
    /\ flight \in [Ids -> Requests \cup {None}]
    /\ sent \in Nat /\ decoded \in Nat
    /\ shelf \subseteq Isbns /\ wanted \subseteq Isbns

Init ==
    /\ htmx \in BOOLEAN
    /\ camera = "starting"
    /\ resolved = FALSE
    /\ scanning = FALSE
    /\ auto = FALSE
    /\ panel = Blank
    /\ flight = [q \in Ids |-> None]
    /\ sent = 0
    /\ decoded = 0
    /\ shelf = {}
    /\ wanted = {}

-----------------------------------------------------------------------------
(* The camera *)

\* Barcodes are decoded from here on, but start() has not resolved.
CameraRuns ==
    /\ camera = "starting"
    /\ camera' = "running"
    /\ UNCHANGED <<htmx, resolved, scanning, auto, panel, flight, sent, decoded, shelf, wanted>>

\* start().then
Started ==
    /\ camera # "starting"
    /\ ~resolved
    /\ resolved' = TRUE
    /\ scanning' = TRUE
    /\ UNCHANGED <<htmx, camera, auto, panel, flight, sent, decoded, shelf, wanted>>

\* start().catch, or the camera library is missing: a message in the panel.
CameraFails ==
    /\ camera = "starting"
    /\ camera' = "failed"
    /\ resolved' = TRUE
    /\ panel' = Message
    /\ UNCHANGED <<htmx, scanning, auto, flight, sent, decoded, shelf, wanted>>

Send(request) ==
    /\ sent < MaxSent
    /\ sent' = sent + 1
    /\ flight' = [flight EXCEPT ![sent'] = request]

\* A request of the result panel comes from the form that an answer put there.
Request(from, op, i) ==
    [from |-> from, op |-> op, isbn |-> i, auto |-> op = "scan" /\ auto,
     form |-> IF from = "panel" THEN panel.id ELSE 0, answer |-> None]

\* Mutant: the flag is not looked at.
Decode_Unguarded(i) ==
    /\ htmx
    /\ camera = "running"
    /\ scanning' = FALSE
    /\ camera' = "paused"
    /\ Send(Request("camera", "scan", i))
    /\ decoded' = sent'
    /\ wanted' = IF auto THEN wanted \cup {i} ELSE wanted
    /\ UNCHANGED <<htmx, resolved, auto, panel, shelf>>

\* onScanSuccess: pause, and submitCode.
Decode(i) ==
    /\ htmx
    /\ camera = "running"
    /\ scanning
    /\ scanning' = FALSE
    /\ camera' = "paused"
    /\ Send(Request("camera", "scan", i))
    /\ decoded' = sent'
    /\ wanted' = IF auto THEN wanted \cup {i} ELSE wanted
    /\ UNCHANGED <<htmx, resolved, auto, panel, shelf>>

\* Without htmx submitCode shows a message and resumes at once.
DecodeInVain ==
    /\ ~htmx
    /\ camera = "running"
    /\ scanning
    /\ panel' = Message
    /\ UNCHANGED <<htmx, camera, resolved, scanning, auto, flight, sent, decoded, shelf, wanted>>

\* resume() throws unless the camera is paused; the error is ignored.
Resumed == IF camera = "paused" THEN "running" ELSE camera

\* beforeunload stops the camera if it is scanning.  The page may stay all the
\* same, when the navigation is cancelled.
Unload ==
    /\ scanning
    /\ camera' = "stopped"
    /\ UNCHANGED <<htmx, resolved, scanning, auto, panel, flight, sent, decoded, shelf, wanted>>

-----------------------------------------------------------------------------
(* The user *)

Toggle ==
    /\ auto' = ~auto
    /\ UNCHANGED <<htmx, camera, resolved, scanning, panel, flight, sent, decoded, shelf, wanted>>

\* The form sends one request at a time.
TypeIsbn(i) ==
    /\ htmx
    /\ From("form") = {}
    /\ Send(Request("form", "scan", i))
    /\ wanted' = IF auto THEN wanted \cup {i} ELSE wanted
    /\ UNCHANGED <<htmx, camera, resolved, scanning, auto, panel, decoded, shelf>>

\* The add button of a preview, or of the form for a book nobody knows, unless
\* that form has a request under way; the form it replaced may have one.
PressAdd ==
    /\ panel.kind \in {"preview", "entry"}
    /\ \A q \in From("panel") : flight[q].form # panel.id
    /\ Send(Request("panel", IF panel.kind = "preview" THEN "confirm" ELSE "manual", panel.isbn))
    /\ wanted' = wanted \cup {panel.isbn}
    /\ UNCHANGED <<htmx, camera, resolved, scanning, auto, panel, decoded, shelf>>

-----------------------------------------------------------------------------
(* The server *)

Answered(q, kind) == flight' = [flight EXCEPT ![q].answer = kind]

Waiting(q) == q \in InFlight /\ flight[q].answer = None

\* Mutant: the book is saved before the toggle's value is looked at.
Adds_Always(r) == r.isbn \in Catalogue \/ r.op # "scan"

\* Whether a request puts its book on the shelf if nothing fails.
Adds(r) == r.op # "scan" \/ (r.isbn \in Catalogue /\ r.auto)

\* scanSubmit, confirmSubmit, manualSubmit (module Shelf has their statements).
Serve(q) ==
    /\ Waiting(q)
    /\ LET r == flight[q]
       IN  CASE r.isbn \in shelf -> Answered(q, "duplicate") /\ UNCHANGED shelf
             [] r.isbn \notin shelf /\ Adds(r) -> Answered(q, "added") /\ shelf' = shelf \cup {r.isbn}
             [] OTHER ->
                   /\ Answered(q, IF r.isbn \in Catalogue THEN "preview" ELSE "entry")
                   /\ UNCHANGED shelf
    /\ UNCHANGED <<htmx, camera, resolved, scanning, auto, panel, sent, decoded, wanted>>

\* A lookup or a save fails.
ServeFails(q) ==
    /\ Faulty
    /\ Waiting(q)
    /\ Answered(q, "error")
    /\ UNCHANGED <<htmx, camera, resolved, scanning, auto, panel, sent, decoded, shelf, wanted>>

\* Mutant: only an answer resumes scanning, an error does not.
Settle_Then(q) ==
    /\ flight' = [flight EXCEPT ![q] = None]
    /\ IF flight[q].from = "camera" /\ flight[q].answer # None
       THEN scanning' = TRUE /\ camera' = Resumed
       ELSE UNCHANGED <<scanning, camera>>

\* Mutant: any settled request resumes scanning.
Settle_Any(q) ==
    /\ flight' = [flight EXCEPT ![q] = None]
    /\ scanning' = TRUE
    /\ camera' = Resumed

\* The request of htmx settles; that of the camera resumes scanning.
Settle(q) ==
    /\ flight' = [flight EXCEPT ![q] = None]
    /\ IF flight[q].from = "camera" THEN scanning' = TRUE /\ camera' = Resumed
       ELSE UNCHANGED <<scanning, camera>>

Receive(q) ==
    /\ q \in InFlight
    /\ flight[q].answer # None
    /\ panel' = [kind |-> flight[q].answer, isbn |-> flight[q].isbn, id |-> q]
    /\ Settle(q)
    /\ UNCHANGED <<htmx, resolved, auto, sent, decoded, shelf, wanted>>

\* No answer, or one with an error status, served or not: a toast appears, the
\* panel stays.
Lost(q) ==
    /\ Faulty
    /\ q \in InFlight
    /\ Settle(q)
    /\ UNCHANGED <<htmx, resolved, auto, panel, sent, decoded, shelf, wanted>>

Next ==
    \/ CameraRuns \/ Started \/ CameraFails \/ DecodeInVain \/ Unload \/ Toggle \/ PressAdd
    \/ \E i \in Isbns : Decode(i) \/ TypeIsbn(i)
    \/ \E q \in Ids : Serve(q) \/ ServeFails(q) \/ Receive(q) \/ Lost(q)

Spec == Init /\ [][Next]_vars

\* start() settles, and so does every request.
FairSpec ==
    /\ Spec
    /\ WF_vars(CameraRuns \/ Started \/ CameraFails)
    /\ \A q \in Ids : WF_vars(Serve(q) \/ ServeFails(q)) /\ WF_vars(Receive(q) \/ Lost(q))

-----------------------------------------------------------------------------
(* Properties *)

\* The camera has at most one lookup under way; while it has, it is paused and
\* further decodings are ignored, and when it has none it is not left paused.
OneLookupAtATime ==
    /\ \A p, q \in From("camera") : p = q
    /\ From("camera") # {} => ~scanning /\ camera # "running"
    /\ camera = "paused" => From("camera") # {}

\* No book is put on the shelf but one the user asked to add, with a button or
\* with the toggle set when the request was sent.
NeverSilentlyAdds == shelf \subseteq wanted

\* The inductive invariant: until start() has resolved the camera has sent nothing,
\* afterwards only its last barcode may be under way, and a request under way that
\* adds its book was asked to.
IInv ==
    /\ TypeOK
    /\ OneLookupAtATime
    /\ scanning => resolved
    /\ camera = "starting" => ~resolved
    /\ ~resolved => camera # "paused" /\ From("camera") = {}
    /\ \A q \in InFlight : q <= sent
    /\ From("camera") \subseteq {decoded}
    /\ \A q \in InFlight : Adds(flight[q]) => flight[q].isbn \in wanted
    /\ NeverSilentlyAdds

\* The panel never goes back to an earlier barcode of the camera: what it shows
\* of the camera is the answer to the last one decoded, or that one's answer is
\* on its way or was lost.
NoLateCameraAnswer ==
    [][\A q \in From("camera") : panel'.id = q /\ panel # panel' => q = decoded]_vars

\* However requests end, the camera is scanning again afterwards, unless it
\* failed to start or was stopped for a navigation.
ScannerComesBack ==
    camera \in {"starting", "running", "paused"} ~> scanning \/ camera \in {"failed", "stopped"}
=============================================================================
