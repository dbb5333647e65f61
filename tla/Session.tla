------------------------------- MODULE Session -------------------------------
(***************************************************************************)
(* internal/auth and the login, logout and home handlers: one browser, its *)
(* two session cookies, and any number of requests under way at once.      *)
(*                                                                         *)
(* A request carries the cookies the jar holds when it is sent; what its   *)
(* answer sets is applied when, and if, the answer arrives.  Answers of    *)
(* concurrent requests arrive in any order.                                *)
(*                                                                         *)
(* Supabase issues tokens in pairs, here one value called a grant: the     *)
(* access token, good until it expires whatever else happens (Verify looks *)
(* at signature and expiry only), and the refresh token, good until the    *)
(* session is revoked and for one use, or for more (Reuse).                *)
(***************************************************************************)
EXTENDS Naturals, FiniteSets

CONSTANTS
    Users,
    Grants,     \* token pairs (bounds a TLC run)
    Requests,   \* requests of the browser, each sent once (bounds a TLC run)
    Ops,        \* the kinds of requests it sends
    Reuse,      \* grants whose refresh token is still accepted after its use
    Faulty,     \* requests whose calls to Supabase may fail
    None,
    Keep,       \* an answer that sets no cookie
    Clear       \* ... that expires both

ASSUME ConstantsAssumption ==
    /\ Ops \subseteq {"page", "home", "login", "logout"}
    /\ Reuse \subseteq Grants /\ Faulty \subseteq Requests
    /\ None \notin Grants \cup Users
    /\ {Keep, Clear} \cap Grants = {}
    /\ Keep # Clear
    /\ None \notin [user : Users, session : Grants]

VARIABLES
    access,    \* the sb-access-token cookie of the jar
    refresh,   \* the sb-refresh-token cookie of the jar
    grant,     \* what Supabase has issued: user, and session (its first grant)
    stale,     \* grants whose access token has expired
    spent,     \* grants whose refresh token has been used
    dead,      \* revoked sessions
    pc,        \* where each request is
    op,        \* what it is
    carried,   \* the cookies it carries: access and refresh
    reply,     \* what its answer does to the cookies
    served,    \* whose data its answer shows
    awaited,   \* requests whose answer the browser still waits for
    out        \* the last session answer applied was that of a logout

jar  == <<access, refresh>>
supa == <<grant, spent, dead>>
vars == <<access, refresh, grant, stale, spent, dead,
          pc, op, carried, reply, served, awaited, out>>

Labels  == {"idle", "handle", "refresh", "done"}
Issued  == [user : Users, session : Grants]
Cookies == [access : Grants \cup {None}, refresh : Grants \cup {None}]

TypeOK ==
    /\ access \in Grants \cup {None} /\ refresh \in Grants \cup {None}
    /\ grant \in [Grants -> Issued \cup {None}]
    /\ stale \subseteq Grants /\ spent \subseteq Grants /\ dead \subseteq Grants
    /\ pc \in [Requests -> Labels]
    /\ op \in [Requests -> Ops \cup {None}]
    /\ carried \in [Requests -> Cookies]
    /\ reply \in [Requests -> Grants \cup {Keep, Clear}]
    /\ served \in [Requests -> Users \cup {None}]
    /\ awaited \subseteq Requests
    /\ out \in BOOLEAN

Init ==
    /\ access = None /\ refresh = None
    /\ grant = [g \in Grants |-> None]
    /\ stale = {} /\ spent = {} /\ dead = {}
    /\ pc = [r \in Requests |-> "idle"]
    /\ op = [r \in Requests |-> None]
    /\ carried = [r \in Requests |-> [access |-> None, refresh |-> None]]
    /\ reply = [r \in Requests |-> Keep]
    /\ served = [r \in Requests |-> None]
    /\ awaited = {}
    /\ out = FALSE

-----------------------------------------------------------------------------
(* The browser *)

Send(r, o) ==
    /\ pc[r] = "idle"
    /\ pc' = [pc EXCEPT ![r] = "handle"]
    /\ op' = [op EXCEPT ![r] = o]
    /\ carried' = [carried EXCEPT ![r] = [access |-> access, refresh |-> refresh]]
    /\ awaited' = awaited \cup {r}
    /\ out' = (out /\ o # "login")
    /\ UNCHANGED <<jar, supa, stale, reply, served>>

\* Mutant: a refresh token at hand is not replaced.
SetSession_KeepOld(g) ==
    /\ access' = g
    /\ refresh' = IF refresh = None THEN g ELSE refresh

SetSession(g) == access' = g /\ refresh' = g
ClearSession  == access' = None /\ refresh' = None

\* The answer of r arrives.  It need not: the user may have left the page, or
\* the connection be lost.
Receive(r) ==
    /\ r \in awaited
    /\ pc[r] = "done"
    /\ awaited' = awaited \ {r}
    /\ \/ reply[r] \in Grants /\ SetSession(reply[r])
       \/ reply[r] = Clear /\ ClearSession
       \/ reply[r] = Keep /\ UNCHANGED jar
    /\ out' = (out \/ (op[r] = "logout" /\ \A q \in awaited : op[q] # "login"))
    /\ UNCHANGED <<supa, stale, pc, op, carried, reply, served>>

\* The access token is a session cookie and goes with the browser window; the
\* refresh token stays.
CloseBrowser ==
    /\ access # None
    /\ access' = None
    /\ awaited' = {}
    /\ UNCHANGED <<refresh, supa, stale, pc, op, carried, reply, served, out>>

\* Time passes: an access token expires, and after thirty days without a new
\* one the refresh cookie (by then every access token in the jar is stale).
AccessExpires(g) ==
    /\ grant[g] # None
    /\ g \notin stale
    /\ stale' = stale \cup {g}
    /\ UNCHANGED <<jar, supa, pc, op, carried, reply, served, awaited, out>>

CookieExpires ==
    /\ refresh # None
    /\ access \in stale \cup {None}
    /\ refresh' = None
    /\ UNCHANGED <<access, supa, stale, pc, op, carried, reply, served, awaited, out>>

-----------------------------------------------------------------------------
(* The server.  An answer is complete when pc is "done". *)

At(r, label, o) == pc[r] = label /\ op[r] = o

Answer(r, u, what) ==
    /\ pc' = [pc EXCEPT ![r] = "done"]
    /\ served' = [served EXCEPT ![r] = u]
    /\ reply' = [reply EXCEPT ![r] = what]
    /\ UNCHANGED <<jar, stale, op, carried, awaited, out>>

\* Verify: nothing but the token itself and the time decides.
Valid(r) == carried[r].access \notin stale \cup {None}

\* A page behind requireAuth.
Verified(r) ==
    /\ At(r, "handle", "page")
    /\ Valid(r)
    /\ Answer(r, grant[carried[r].access].user, Keep)
    /\ UNCHANGED supa

\* redirectToLogin clears the cookies.
NoCookie(r) ==
    /\ At(r, "handle", "page")
    /\ ~Valid(r) \/ r \in Faulty
    /\ carried[r].refresh = None
    /\ Answer(r, None, Clear)
    /\ UNCHANGED supa

\* Mutant: a request without access token is sent to the login page at once.
NeedRefresh_Expired(r) ==
    /\ At(r, "handle", "page")
    /\ ~Valid(r)
    /\ IF carried[r].access = None
       THEN Answer(r, None, Clear)
       ELSE /\ pc' = [pc EXCEPT ![r] = "refresh"]
            /\ UNCHANGED <<jar, stale, op, carried, reply, served, awaited, out>>
    /\ UNCHANGED supa

NeedRefresh(r) ==
    /\ At(r, "handle", "page")
    /\ ~Valid(r) \/ r \in Faulty
    /\ carried[r].refresh # None
    /\ pc' = [pc EXCEPT ![r] = "refresh"]
    /\ UNCHANGED <<jar, supa, stale, op, carried, reply, served, awaited, out>>

\* Supabase issues grant g, of session s.
Issue(g, u, s) ==
    /\ grant[g] = None
    /\ grant' = [grant EXCEPT ![g] = [user |-> u, session |-> s]]

Accepted(t) == grant[t].session \notin dead /\ (t \in spent => t \in Reuse)

Exchange(r, g) ==
    LET t == carried[r].refresh
    IN  /\ At(r, "refresh", "page")
        /\ Accepted(t)
        /\ Issue(g, grant[t].user, grant[t].session)
        /\ spent' = spent \cup {t}
        /\ UNCHANGED dead

Refreshed(r, g) ==
    /\ Exchange(r, g)
    /\ Answer(r, grant[carried[r].refresh].user, g)

\* Supabase's reply gets lost, or the new token cannot be verified.
RefreshLost(r, g) ==
    /\ r \in Faulty
    /\ Exchange(r, g)
    /\ Answer(r, None, Clear)

\* Presenting a used token a second time may cost the session.
RefreshFails(r) ==
    LET t == carried[r].refresh
    IN  /\ At(r, "refresh", "page")
        /\ r \in Faulty \/ ~Accepted(t)
        /\ \/ UNCHANGED dead
           \/ t \in spent \ Reuse /\ dead' = dead \cup {grant[t].session}
        /\ Answer(r, None, Clear)
        /\ UNCHANGED <<grant, spent>>

\* home is not behind requireAuth: there are never claims in its context.
Home(r) ==
    /\ At(r, "handle", "home")
    /\ Answer(r, None, Keep)
    /\ UNCHANGED supa

\* loginSubmit and registerSubmit with a session issued.
SignedIn(r, u, g) ==
    /\ At(r, "handle", "login")
    /\ Issue(g, u, g)
    /\ Answer(r, None, g)
    /\ UNCHANGED <<spent, dead>>

\* Mutant: registerSubmit sets the cookies without looking for a token.
SignInFails_SetsNothing(r) ==
    /\ At(r, "handle", "login")
    /\ Answer(r, None, None)
    /\ UNCHANGED supa

\* ... and with none: the password is wrong, or the email address has to be
\* confirmed first.
SignInFails(r) ==
    /\ At(r, "handle", "login")
    /\ Answer(r, None, Keep)
    /\ UNCHANGED supa

SignInLost(r, u, g) ==
    /\ r \in Faulty
    /\ At(r, "handle", "login")
    /\ Issue(g, u, g)
    /\ Answer(r, None, Keep)
    /\ UNCHANGED <<spent, dead>>

\* logoutSubmit: Supabase revokes the session of a valid access token.  Without
\* one, or when that fails, only the cookies go.
SignedOut(r) ==
    /\ At(r, "handle", "logout")
    /\ Valid(r)
    /\ dead' = dead \cup {grant[carried[r].access].session}
    /\ Answer(r, None, Clear)
    /\ UNCHANGED <<grant, spent>>

SignOutFails(r) ==
    /\ At(r, "handle", "logout")
    /\ ~Valid(r) \/ r \in Faulty
    /\ Answer(r, None, Clear)
    /\ UNCHANGED supa

-----------------------------------------------------------------------------
Browser ==
    \/ \E r \in Requests : Receive(r) \/ \E o \in Ops : Send(r, o)
    \/ CloseBrowser
    \/ CookieExpires

Server(r) ==
    \/ Verified(r) \/ NoCookie(r) \/ NeedRefresh(r) \/ RefreshFails(r)
    \/ Home(r) \/ SignInFails(r) \/ SignedOut(r) \/ SignOutFails(r)
    \/ \E g \in Grants :
          \/ Refreshed(r, g) \/ RefreshLost(r, g)
          \/ \E u \in Users : SignedIn(r, u, g) \/ SignInLost(r, u, g)

Next ==
    \/ Browser
    \/ \E r \in Requests : Server(r)
    \/ \E g \in Grants : AccessExpires(g)

Spec == Init /\ [][Next]_vars

-----------------------------------------------------------------------------
(* Properties *)

\* The two cookies always belong together: both are of one grant, unless one
\* of them has run out.  A jar with the tokens of two logins would show one
\* user's library until the access token expires and another's from then on.
JarOneGrant == None \in {access, refresh} \/ access = refresh

\* A page shows the library of the one user both of whose cookies the request
\* carried, whichever of them it was served by.
CarriedUsers(r) ==
    {grant[g].user : g \in {carried[r].access, carried[r].refresh} \ {None}}

ServedAsCarried ==
    \A r \in Requests : served[r] # None => CarriedUsers(r) = {served[r]}

\* The login a token belongs to.
SessionOf(g) == grant[g].session

\* A page that was not served by the access token it carried presented its
\* refresh token, and was given the next one or sent to log in.
Presented(q, t) ==
    /\ At(q, "done", "page")
    /\ carried[q].refresh = t
    /\ reply[q] # Keep

\* Two pages presented the same refresh token of session s, which Supabase
\* exchanges once only.
UsedTwice(s) ==
    \E q, p \in Requests :
        LET t == carried[q].refresh
        IN  /\ q # p /\ Presented(q, t) /\ Presented(p, t)
            /\ t \in spent \ Reuse
            /\ SessionOf(t) = s

SignedOutOf(s) ==
    \E q \in Requests :
        /\ At(q, "done", "logout")
        /\ carried[q].access # None
        /\ SessionOf(carried[q].access) = s

\* What lets the answer of r end the login of session s: the user asked for it;
\* the request was sent without a token of this login; Supabase failed it; the
\* session had been logged out of; or two pages presented one refresh token.
Reason(r, s) ==
    \/ op[r] \in {"login", "logout"}
    \/ carried[r].refresh = None \/ SessionOf(carried[r].refresh) # s
    \/ r \in Faulty
    \/ SignedOutOf(s)
    \/ UsedTwice(s)

\* The jar's refresh token keeps standing for the same login, however many
\* requests refresh at the same time, are answered late or not at all, unless
\* the cookie runs out or an answer arrives that has one of these reasons.  In
\* particular no page costs a login whose token may be used again, and a token
\* for one use is lost only to a second page that presented it.
LoginEnds ==
    refresh # None /\ (refresh' = None \/ SessionOf(refresh)' # SessionOf(refresh))

LoginEndsForAReason ==
    [][LoginEnds =>
          \/ refresh' = None /\ access \in stale \cup {None} /\ UNCHANGED awaited
          \/ \E r \in awaited \ awaited' : Reason(r, SessionOf(refresh))]_vars

\* The inductive invariant.
Known(g) == g # None => grant[g] # None

\* A page is sent to log in only without a refresh token, or for a reason.
ClearedForAReason ==
    \A r \in Requests :
        op[r] = "page" /\ reply[r] = Clear /\ carried[r].refresh # None =>
            Reason(r, SessionOf(carried[r].refresh))

SpentByAPage == \A t \in spent : \E q \in Requests : Presented(q, t)

RevokedForAReason == \A s \in dead : SignedOutOf(s) \/ UsedTwice(s)

IInv ==
    /\ TypeOK
    /\ JarOneGrant
    /\ Known(access) /\ Known(refresh)
    /\ \A r \in Requests :
          /\ LET a == carried[r].access
                 f == carried[r].refresh
             IN  (None \in {a, f} \/ a = f) /\ Known(a) /\ Known(f)
          /\ reply[r] \in Grants => grant[reply[r]] # None
          /\ pc[r] # "done" => reply[r] = Keep /\ served[r] = None
          /\ pc[r] = "refresh" => carried[r].refresh # None
          /\ reply[r] # Keep => op[r] \in {"page", "login", "logout"}
          /\ op[r] = "page" /\ reply[r] \in Grants =>
                /\ carried[r].refresh # None
                /\ SessionOf(reply[r]) = SessionOf(carried[r].refresh)
    /\ ServedAsCarried
    /\ ClearedForAReason
    /\ SpentByAPage
    /\ RevokedForAReason

\* What logoutSubmit's comment says: the browser is logged out locally.
LogoutSticks == out => access = None /\ refresh = None

\* What home's comment says: a logged-in visitor sees their own books.
HomeIsPersonal ==
    \A r \in Requests :
        At(r, "done", "home") /\ Valid(r) => served[r] # None
=============================================================================
