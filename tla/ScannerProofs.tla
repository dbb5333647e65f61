---------------------------- MODULE ScannerProofs ----------------------------
(***************************************************************************)
(* The scan page, for any number of requests and barcodes and a server     *)
(* that answers in any order or not at all.                                *)
(***************************************************************************)
EXTENDS Scanner, TLAPS

USE CatalogueAssumption, FaultyAssumption, BoundAssumption, NoneAssumption

LEMMA InitInv == Init => IInv
<1> SUFFICES ASSUME Init PROVE IInv
  OBVIOUS
<1>1. InFlight = {} /\ From("camera") = {}
  BY DEF Init, InFlight, From
<1>2. TypeOK
  BY DEF Init, TypeOK
<1> QED
  BY <1>1, <1>2 DEF Init, IInv, OneLookupAtATime, NeverSilentlyAdds

-----------------------------------------------------------------------------
(* What sending, answering and settling a request makes of those under way *)

\* A request sent is one more, under a number of its own.
LEMMA Sending ==
  ASSUME IInv, NEW r \in Requests, Send(r)
  PROVE  /\ sent' \in Ids /\ sent' \notin InFlight
         /\ flight' \in [Ids -> Requests \cup {None}]
         /\ flight'[sent'] = r
         /\ \A q \in Ids \ {sent'} : flight'[q] = flight[q]
         /\ InFlight' = InFlight \cup {sent'}
         /\ \A w : From(w)' = IF r.from = w THEN From(w) \cup {sent'} ELSE From(w)
         /\ \A q \in InFlight' : q <= sent'
<1>1. /\ sent \in Nat /\ sent < MaxSent /\ sent' = sent + 1
      /\ flight \in [Ids -> Requests \cup {None}]
      /\ \A q \in InFlight : q <= sent
  BY DEF Send, IInv, TypeOK
<1>2. sent' \in Ids /\ sent' \notin InFlight
  BY <1>1 DEF Ids, InFlight
<1>3. flight' = [flight EXCEPT ![sent'] = r]
  BY DEF Send
<1>4. /\ flight' \in [Ids -> Requests \cup {None}]
      /\ flight'[sent'] = r
      /\ \A q \in Ids \ {sent'} : flight'[q] = flight[q]
  BY <1>1, <1>2, <1>3
<1>5. InFlight' = InFlight \cup {sent'}
  BY <1>2, <1>4 DEF InFlight
<1>6. ASSUME NEW w PROVE From(w)' = IF r.from = w THEN From(w) \cup {sent'} ELSE From(w)
  BY <1>2, <1>4, <1>5 DEF From, InFlight
<1>7. \A q \in InFlight' : q <= sent'
  BY <1>1, <1>5 DEF InFlight, Ids
<1> QED
  BY <1>2, <1>4, <1>5, <1>6, <1>7

\* An answer is under way to where its request came from.
LEMMA Answering ==
  ASSUME IInv, NEW q \in InFlight, NEW k \in Answers, Answered(q, k)
  PROVE  /\ flight' \in [Ids -> Requests \cup {None}]
         /\ InFlight' = InFlight
         /\ \A p \in InFlight : /\ flight'[p].isbn = flight[p].isbn
                                /\ flight'[p].op = flight[p].op
                                /\ flight'[p].auto = flight[p].auto
                                /\ flight'[p].from = flight[p].from
         /\ \A w : From(w)' = From(w)
<1>1. /\ flight \in [Ids -> Requests \cup {None}] /\ q \in Ids
      /\ \A p \in InFlight : flight[p] \in Requests
  BY DEF IInv, TypeOK, InFlight
<1>2. flight' = [flight EXCEPT ![q] = [flight[q] EXCEPT !.answer = k]]
  BY DEF Answered
<1>3. [flight[q] EXCEPT !.answer = k] \in Requests
  BY <1>1 DEF Requests
<1>4. flight' \in [Ids -> Requests \cup {None}] /\ InFlight' = InFlight
  BY <1>1, <1>2, <1>3 DEF InFlight
<1>5. \A p \in InFlight : /\ flight'[p].isbn = flight[p].isbn
                          /\ flight'[p].op = flight[p].op
                          /\ flight'[p].auto = flight[p].auto
                          /\ flight'[p].from = flight[p].from
  BY <1>1, <1>2 DEF InFlight, Requests
<1> QED
  BY <1>4, <1>5 DEF From

\* A request that has settled is one less.
LEMMA Settling ==
  ASSUME IInv, NEW q \in InFlight, Settle(q)
  PROVE  /\ flight' \in [Ids -> Requests \cup {None}]
         /\ InFlight' = InFlight \ {q}
         /\ \A p \in InFlight \ {q} : flight'[p] = flight[p]
         /\ \A w : From(w)' = From(w) \ {q}
<1>1. flight \in [Ids -> Requests \cup {None}] /\ q \in Ids
  BY DEF IInv, TypeOK, InFlight
<1>2. flight' = [flight EXCEPT ![q] = None]
  BY DEF Settle
<1>3. /\ flight' \in [Ids -> Requests \cup {None}]
      /\ InFlight' = InFlight \ {q}
      /\ \A p \in InFlight \ {q} : flight'[p] = flight[p]
  BY <1>1, <1>2 DEF InFlight
<1> QED
  BY <1>3 DEF From

-----------------------------------------------------------------------------
(* The inductive invariant *)

\* Of a step that leaves the requests alone, only the camera's part is new.
LEMMA NoRequest ==
  ASSUME IInv, UNCHANGED <<flight, sent, decoded, shelf, wanted>>,
         htmx' \in BOOLEAN, resolved' \in BOOLEAN, scanning' \in BOOLEAN, auto' \in BOOLEAN,
         camera' \in {"starting", "running", "paused", "stopped", "failed"},
         panel' \in {Blank, Message} \cup [kind : Answers, isbn : Isbns, id : Ids],
         From("camera") # {} => ~scanning' /\ camera' # "running",
         camera' = "paused" => From("camera") # {},
         scanning' => resolved',
         camera' = "starting" => ~resolved',
         ~resolved' => camera' # "paused" /\ From("camera") = {}
  PROVE  IInv'
<1>1. InFlight' = InFlight /\ From("camera")' = From("camera")
  BY DEF InFlight, From
<1> QED
  BY <1>1 DEF IInv, TypeOK, OneLookupAtATime, NeverSilentlyAdds, Adds

LEMMA CameraStep ==
  ASSUME IInv, CameraRuns \/ Started \/ CameraFails \/ DecodeInVain \/ Unload \/ Toggle
  PROVE  IInv'
<1> USE DEF IInv, TypeOK, OneLookupAtATime
<1>1. CASE CameraRuns
  BY <1>1, NoRequest DEF CameraRuns
<1>2. CASE Started
  BY <1>2, NoRequest DEF Started
<1>3. CASE CameraFails
  BY <1>3, NoRequest DEF CameraFails
<1>4. CASE DecodeInVain
  BY <1>4, NoRequest DEF DecodeInVain
<1>5. CASE Unload
  BY <1>5, NoRequest DEF Unload
<1>6. CASE Toggle
  BY <1>6, NoRequest DEF Toggle
<1> QED
  BY <1>1, <1>2, <1>3, <1>4, <1>5, <1>6

\* The camera sends when it has nothing under way, and is paused.
LEMMA DecodeStep ==
  ASSUME IInv, NEW i \in Isbns, Decode(i)
  PROVE  IInv'
<1> DEFINE r == Request("camera", "scan", i)
<1>1. /\ r \in Requests /\ r.from = "camera" /\ r.isbn = i
      /\ r.op = "scan" /\ r.auto = auto
  BY DEF Request, Requests, IInv, TypeOK
<1> HIDE DEF r
<1>2. /\ Send(r) /\ scanning /\ scanning' = FALSE /\ camera' = "paused"
      /\ decoded' = sent' /\ wanted' = IF auto THEN wanted \cup {i} ELSE wanted
      /\ UNCHANGED <<htmx, resolved, auto, panel, shelf>>
  BY DEF Decode, r
<1>3. From("camera") = {} /\ resolved
  BY <1>2 DEF IInv, OneLookupAtATime
<1>4. From("camera")' = {sent'} /\ InFlight' = InFlight \cup {sent'}
  BY <1>1, <1>2, <1>3, Sending
<1>5. TypeOK'
  <2>1. flight' \in [Ids -> Requests \cup {None}] /\ sent' \in Ids
    BY <1>1, <1>2, Sending
  <2>2. sent' \in Nat /\ decoded' \in Nat
    BY <1>2, <2>1 DEF Ids
  <2>3. wanted' \subseteq Isbns
    BY <1>2 DEF IInv, TypeOK
  <2> QED
    BY <1>2, <2>1, <2>2, <2>3 DEF IInv, TypeOK
<1>6. \A q \in InFlight' : Adds(flight[q])' => flight'[q].isbn \in wanted'
  BY <1>1, <1>2, Sending DEF IInv, Adds, InFlight
<1> QED
  BY <1>1, <1>2, <1>3, <1>4, <1>5, <1>6, Sending
     DEF IInv, OneLookupAtATime, NeverSilentlyAdds

\* The form and the panel's buttons leave the camera alone.
LEMMA UserStep ==
  ASSUME IInv, NEW r \in Requests, Send(r), r.from # "camera",
         wanted' \subseteq Isbns, wanted \subseteq wanted',
         Adds(r) => r.isbn \in wanted',
         UNCHANGED <<htmx, camera, resolved, scanning, auto, panel, decoded, shelf>>
  PROVE  IInv'
<1>1. From("camera")' = From("camera") /\ InFlight' = InFlight \cup {sent'}
  BY Sending
<1>2. TypeOK'
  BY Sending DEF IInv, TypeOK, Ids, Send
<1>3. \A q \in InFlight' : Adds(flight[q])' => flight'[q].isbn \in wanted'
  BY Sending DEF IInv, Adds, InFlight
<1> QED
  BY <1>1, <1>2, <1>3, Sending DEF IInv, OneLookupAtATime, NeverSilentlyAdds

LEMMA ServeStep ==
  ASSUME IInv, NEW q \in Ids, Serve(q) \/ ServeFails(q)
  PROVE  IInv'
<1> DEFINE r == flight[q]
<1>1. q \in InFlight /\ r \in Requests
  BY DEF Serve, ServeFails, Waiting, IInv, TypeOK, InFlight
<1>2. PICK k \in Answers : Answered(q, k)
  BY DEF Serve, ServeFails, Answers
<1>3. shelf' = shelf \/ (Adds(r) /\ shelf' = shelf \cup {r.isbn})
  BY DEF Serve, ServeFails
<1>4. UNCHANGED <<htmx, camera, resolved, scanning, auto, panel, sent, decoded, wanted>>
  BY DEF Serve, ServeFails
<1>5. shelf' \subseteq wanted
  BY <1>1, <1>3 DEF IInv, NeverSilentlyAdds
<1>6. InFlight' = InFlight /\ From("camera")' = From("camera")
  BY <1>1, <1>2, Answering
<1>7. TypeOK'
  BY <1>1, <1>2, <1>4, <1>5, Answering DEF IInv, TypeOK
<1>8. \A p \in InFlight' : Adds(flight[p])' => flight'[p].isbn \in wanted'
  BY <1>1, <1>2, <1>4, Answering DEF IInv, Adds
<1> QED
  BY <1>4, <1>5, <1>6, <1>7, <1>8 DEF IInv, OneLookupAtATime, NeverSilentlyAdds

\* A request of the camera that settles was its only one.
LEMMA SettleStep ==
  ASSUME IInv, NEW q \in Ids, Receive(q) \/ Lost(q)
  PROVE  IInv'
<1>1. q \in InFlight /\ Settle(q)
  BY DEF Receive, Lost
<1>2. UNCHANGED <<htmx, resolved, auto, sent, decoded, shelf, wanted>>
  BY DEF Receive, Lost
<1>3. panel' \in {Blank, Message} \cup [kind : Answers, isbn : Isbns, id : Ids]
  BY <1>1 DEF Receive, Lost, IInv, TypeOK, InFlight, Requests
<1>4. /\ InFlight' = InFlight \ {q}
      /\ From("camera")' = From("camera") \ {q}
      /\ \A p \in InFlight \ {q} : flight'[p] = flight[p]
  BY <1>1, Settling
<1>5. \A p \in InFlight' : Adds(flight[p])' => flight'[p].isbn \in wanted'
  BY <1>2, <1>4 DEF IInv, Adds
<1>6. CASE flight[q].from = "camera"
  <2>1. scanning' = TRUE /\ camera' = Resumed
    BY <1>1, <1>6 DEF Settle
  <2>2. q \in From("camera") /\ From("camera")' = {}
    BY <1>1, <1>4, <1>6 DEF From, IInv, OneLookupAtATime
  <2>3. camera' # "paused" /\ camera' # "starting" /\ resolved
    BY <2>1, <2>2 DEF Resumed, IInv, OneLookupAtATime
  <2>4. TypeOK'
    BY <1>1, <1>2, <1>3, <2>1, Settling DEF IInv, TypeOK, Resumed
  <2> QED
    BY <1>2, <1>4, <1>5, <2>1, <2>2, <2>3, <2>4 DEF IInv, OneLookupAtATime, NeverSilentlyAdds
<1>7. CASE flight[q].from # "camera"
  <2>1. UNCHANGED <<scanning, camera>>
    BY <1>1, <1>7 DEF Settle
  <2>2. From("camera")' = From("camera")
    BY <1>4, <1>7 DEF From
  <2>3. TypeOK'
    BY <1>1, <1>2, <1>3, <2>1, Settling DEF IInv, TypeOK
  <2> QED
    BY <1>2, <1>4, <1>5, <2>1, <2>2, <2>3 DEF IInv, OneLookupAtATime, NeverSilentlyAdds
<1> QED
  BY <1>6, <1>7

LEMMA NextInv == IInv /\ [Next]_vars => IInv'
<1> SUFFICES ASSUME IInv, [Next]_vars PROVE IInv'
  OBVIOUS
<1>1. CASE UNCHANGED vars
  <2>1. InFlight' = InFlight /\ From("camera")' = From("camera")
    BY <1>1 DEF vars, InFlight, From
  <2> QED
    BY <1>1, <2>1 DEF vars, IInv, TypeOK, OneLookupAtATime, NeverSilentlyAdds, Adds
<1>2. CASE CameraRuns \/ Started \/ CameraFails \/ DecodeInVain \/ Unload \/ Toggle
  BY <1>2, CameraStep
<1>3. CASE PressAdd
  <2> DEFINE r == Request("panel", IF panel.kind = "preview" THEN "confirm" ELSE "manual",
                          panel.isbn)
  <2>1. panel.isbn \in Isbns /\ panel.id \in Nat
    BY <1>3 DEF PressAdd, IInv, TypeOK, Blank, Message, Ids
  <2>2. r \in Requests /\ r.from # "camera" /\ r.isbn = panel.isbn
    BY <2>1 DEF Request, Requests, IInv, TypeOK
  <2> QED
    BY <1>3, <2>1, <2>2, UserStep DEF PressAdd, IInv, TypeOK
<1>4. ASSUME NEW i \in Isbns, Decode(i) PROVE IInv'
  BY <1>4, DecodeStep
<1>5. ASSUME NEW i \in Isbns, TypeIsbn(i) PROVE IInv'
  <2> DEFINE r == Request("form", "scan", i)
  <2>1. /\ r \in Requests /\ r.from # "camera" /\ r.isbn = i
        /\ Adds(r) => auto
    BY DEF Request, Requests, Adds, IInv, TypeOK
  <2>2. /\ Send(r) /\ wanted' = IF auto THEN wanted \cup {i} ELSE wanted
        /\ UNCHANGED <<htmx, camera, resolved, scanning, auto, panel, decoded, shelf>>
    BY <1>5 DEF TypeIsbn
  <2>3. wanted \subseteq Isbns
    BY DEF IInv, TypeOK
  <2> HIDE DEF r
  <2> QED
    BY <2>1, <2>2, <2>3, UserStep
<1>6. ASSUME NEW q \in Ids, Serve(q) \/ ServeFails(q) PROVE IInv'
  BY <1>6, ServeStep
<1>7. ASSUME NEW q \in Ids, Receive(q) \/ Lost(q) PROVE IInv'
  BY <1>7, SettleStep
<1> QED
  BY <1>1, <1>2, <1>3, <1>4, <1>5, <1>6, <1>7 DEF Next

\* The strengthening on which the following rest.
THEOREM InvariantHolds == Spec => []IInv
  BY InitInv, NextInv, PTL DEF Spec

\* Every variable keeps its type; the panel shows answers to requests of the page.
THEOREM TypeCorrect == Spec => []TypeOK
<1>1. IInv => TypeOK
  BY DEF IInv
<1> QED
  BY <1>1, InvariantHolds, PTL

\* However many requests run beside it, the camera waits for one answer at a time.
THEOREM OneLookup == Spec => []OneLookupAtATime
<1>1. IInv => OneLookupAtATime
  BY DEF IInv
<1> QED
  BY <1>1, InvariantHolds, PTL

\* Only books the user asked for are added, in whatever order requests are served.
THEOREM AskedFor == Spec => []NeverSilentlyAdds
<1>1. IInv => NeverSilentlyAdds
  BY DEF IInv
<1> QED
  BY <1>1, InvariantHolds, PTL

\* An answer to the camera that changes the panel is to the last barcode decoded.
THEOREM LastDecoded == Spec => NoLateCameraAnswer
<1>1. IInv /\ [Next]_vars =>
        [\A q \in From("camera") : panel'.id = q /\ panel # panel' => q = decoded]_vars
  BY DEF IInv
<1> QED
  BY <1>1, InvariantHolds, PTL DEF Spec, NoLateCameraAnswer
=============================================================================
