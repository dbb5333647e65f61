---------------------------- MODULE SessionProofs ----------------------------
(***************************************************************************)
(* Session, for any number of users, grants and requests: IInv is          *)
(* inductive, and what follows from it.                                    *)
(*                                                                         *)
(* Supabase only ever adds grants, uses and revocations, and what has been *)
(* answered stays (Grows), which disturbs nothing a request carries or was *)
(* answered, and no reason there was for it; so every action is left with  *)
(* its own request.                                                        *)
(***************************************************************************)
EXTENDS Session, TLAPS

\* IInv, of one request.
CarriedOK(r) ==
    /\ None \in {carried[r].access, carried[r].refresh}
          \/ carried[r].access = carried[r].refresh
    /\ Known(carried[r].access)
    /\ Known(carried[r].refresh)

ServedOK(r) == served[r] # None => CarriedUsers(r) = {served[r]}

ClearOK(r) ==
    op[r] = "page" /\ reply[r] = Clear /\ carried[r].refresh # None =>
        Reason(r, SessionOf(carried[r].refresh))

\* What r is answered with: new tokens, if any, of the login it belongs to.
ReplyOK(r) ==
    /\ reply[r] \in Grants => grant[reply[r]] # None
    /\ reply[r] # Keep => op[r] \in {"page", "login", "logout"}
    /\ op[r] = "page" /\ reply[r] \in Grants =>
          /\ carried[r].refresh # None
          /\ SessionOf(reply[r]) = SessionOf(carried[r].refresh)

ReqOK(r) ==
    /\ CarriedOK(r)
    /\ ReplyOK(r)
    /\ pc[r] # "done" => reply[r] = Keep /\ served[r] = None
    /\ pc[r] = "refresh" => carried[r].refresh # None
    /\ ServedOK(r)
    /\ ClearOK(r)

JarOK == JarOneGrant /\ Known(access) /\ Known(refresh)

Accounted == SpentByAPage /\ RevokedForAReason

\* What any step leaves of Supabase's state and of the answers.
Grows ==
    /\ \A g \in Grants : grant[g] # None => grant'[g] = grant[g]
    /\ spent \subseteq spent' /\ dead \subseteq dead'
    /\ \A q \in Requests : pc[q] = "done" =>
          /\ pc'[q] = pc[q] /\ op'[q] = op[q]
          /\ carried'[q] = carried[q] /\ reply'[q] = reply[q]

\* What a step adds to it has its cause.
Caused ==
    /\ \A t \in spent' \ spent : \E q \in Requests : Presented(q, t)'
    /\ \A s \in dead' \ dead : SignedOutOf(s)' \/ UsedTwice(s)'

Others(r) ==
    \A q \in Requests \ {r} :
        /\ pc'[q] = pc[q]
        /\ op'[q] = op[q]
        /\ carried'[q] = carried[q]
        /\ reply'[q] = reply[q]
        /\ served'[q] = served[q]

LEMMA Parts == IInv <=> TypeOK /\ JarOK /\ Accounted /\ \A r \in Requests : ReqOK(r)
  BY DEF IInv, JarOK, Accounted, ReqOK, ReplyOK, CarriedOK, ServedOK, ClearOK,
         ServedAsCarried, ClearedForAReason

LEMMA PartsPrime ==
  IInv' <=> TypeOK' /\ JarOK' /\ Accounted' /\ \A r \in Requests : ReqOK(r)'
  BY DEF IInv, JarOK, Accounted, ReqOK, ReplyOK, CarriedOK, ServedOK, ClearOK,
         ServedAsCarried, ClearedForAReason

LEMMA InitInv == Init => IInv
<1> SUFFICES ASSUME Init PROVE IInv
  OBVIOUS
<1>1. TypeOK
  BY ConstantsAssumption DEF Init, TypeOK, Labels, Cookies
<1>2. JarOK
  BY DEF Init, JarOK, JarOneGrant, Known
<1>3. Accounted
  BY DEF Init, Accounted, SpentByAPage, RevokedForAReason
<1>4. ASSUME NEW r \in Requests PROVE ReqOK(r)
  BY ConstantsAssumption
     DEF Init, ReqOK, ReplyOK, CarriedOK, ServedOK, ClearOK, Known
<1> QED
  BY <1>1, <1>2, <1>3, <1>4, Parts

\* The tokens a request carries are issued, and stay what they are.
LEMMA CarriedStay ==
  ASSUME TypeOK, Grows, NEW q \in Requests, CarriedOK(q)
  PROVE  /\ carried[q].access # None =>
               /\ carried[q].access \in Grants /\ grant[carried[q].access] \in Issued
               /\ grant[carried[q].access] # None
               /\ grant'[carried[q].access] = grant[carried[q].access]
         /\ carried[q].refresh # None =>
               /\ carried[q].refresh \in Grants /\ grant[carried[q].refresh] \in Issued
               /\ grant[carried[q].refresh] # None
               /\ grant'[carried[q].refresh] = grant[carried[q].refresh]
  BY DEF TypeOK, Cookies, CarriedOK, Known, Grows

\* What has ended a login is not undone.
LEMMA CausesStay ==
  ASSUME IInv, Grows, NEW s
  PROVE  /\ SignedOutOf(s) => SignedOutOf(s)'
         /\ UsedTwice(s) => UsedTwice(s)'
<1>1. ASSUME SignedOutOf(s) PROVE SignedOutOf(s)'
  <2>1. PICK q \in Requests : /\ At(q, "done", "logout")
                              /\ carried[q].access # None
                              /\ SessionOf(carried[q].access) = s
    BY <1>1 DEF SignedOutOf
  <2>2. SessionOf(carried[q].access)' = s
    BY <2>1, CarriedStay, Parts DEF SessionOf, ReqOK, Grows, At
  <2> QED
    BY <2>1, <2>2 DEF SignedOutOf, At, Grows
<1>2. ASSUME UsedTwice(s) PROVE UsedTwice(s)'
  <2>1. PICK q \in Requests, p \in Requests :
              /\ q # p /\ carried[p].refresh = carried[q].refresh
              /\ At(q, "done", "page") /\ At(p, "done", "page")
              /\ reply[q] # Keep /\ reply[p] # Keep
              /\ carried[q].refresh \in spent \ Reuse
              /\ SessionOf(carried[q].refresh) = s
    BY <1>2 DEF UsedTwice, Presented
  <2>2. carried[q].refresh # None
    BY <2>1, ConstantsAssumption, Parts DEF TypeOK
  <2>3. SessionOf(carried[q].refresh)' = s
    BY <2>1, <2>2, CarriedStay, Parts DEF SessionOf, ReqOK, Grows, At
  <2>4. /\ carried'[p].refresh = carried'[q].refresh
        /\ At(q, "done", "page")' /\ At(p, "done", "page")'
        /\ reply'[q] # Keep /\ reply'[p] # Keep
        /\ carried'[q].refresh \in spent' \ Reuse
    BY <2>1 DEF Grows, At
  <2> QED
    BY <2>1, <2>3, <2>4 DEF UsedTwice, Presented
<1> QED
  BY <1>1, <1>2

LEMMA AccountedStays ==
  ASSUME IInv, Grows, Caused
  PROVE  Accounted'
<1>1. ASSUME NEW t \in spent' PROVE \E q \in Requests : Presented(q, t)'
  <2>1. CASE t \in spent
    <3>1. PICK q \in Requests : Presented(q, t)
      BY <2>1, Parts DEF Accounted, SpentByAPage
    <3> QED
      BY <3>1 DEF Presented, At, Grows
  <2> QED
    BY <2>1 DEF Caused
<1>2. ASSUME NEW s \in dead' PROVE SignedOutOf(s)' \/ UsedTwice(s)'
  BY CausesStay, Parts DEF Caused, Accounted, RevokedForAReason
<1> QED
  BY <1>1, <1>2 DEF Accounted, SpentByAPage, RevokedForAReason

\* A request that does not move keeps its part of the invariant.
LEMMA Bystander ==
  ASSUME IInv, Grows, NEW q \in Requests,
         pc'[q] = pc[q], op'[q] = op[q], carried'[q] = carried[q],
         reply'[q] = reply[q], served'[q] = served[q]
  PROVE  ReqOK(q)'
<1>1. TypeOK /\ ReqOK(q) /\ CarriedOK(q)
  BY Parts DEF ReqOK
<1>2. CarriedOK(q)'
  BY <1>1, CarriedStay DEF CarriedOK, Known
<1>3. CarriedUsers(q)' = CarriedUsers(q)
  BY <1>1, CarriedStay DEF CarriedUsers
<1>4. ServedOK(q)'
  BY <1>1, <1>3 DEF ReqOK, ServedOK
<1>5. carried[q].refresh # None =>
          SessionOf(carried[q].refresh)' = SessionOf(carried[q].refresh)
  BY <1>1, CarriedStay DEF SessionOf
<1>6. ReplyOK(q)'
  <2>1. reply[q] \in Grants =>
            /\ grant'[reply[q]] # None
            /\ SessionOf(reply[q])' = SessionOf(reply[q])
    BY <1>1 DEF ReqOK, ReplyOK, SessionOf, Grows
  <2> QED
    BY <1>1, <1>5, <2>1 DEF ReqOK, ReplyOK
<1>7. ClearOK(q)'
  <2> SUFFICES ASSUME op[q] = "page", reply[q] = Clear, carried[q].refresh # None
               PROVE  Reason(q, SessionOf(carried[q].refresh))'
    BY DEF ClearOK
  <2>1. Reason(q, SessionOf(carried[q].refresh))
    BY <1>1 DEF ReqOK, ClearOK
  <2> QED
    BY <1>5, <2>1, CausesStay DEF Reason
<1> QED
  BY <1>1, <1>2, <1>4, <1>6, <1>7 DEF ReqOK

LEMMA JarStays ==
  ASSUME TypeOK, JarOK, Grows, UNCHANGED jar
  PROVE  JarOK'
  BY DEF TypeOK, JarOK, JarOneGrant, Known, Grows, jar

\* A step of the server for one request.
LEMMA Assemble ==
  ASSUME IInv, NEW r \in Requests, TypeOK', UNCHANGED jar, Grows, Caused, Others(r), ReqOK(r)'
  PROVE  IInv'
<1>1. ASSUME NEW q \in Requests PROVE ReqOK(q)'
  BY Bystander, Parts DEF Others
<1> QED
  BY <1>1, Parts, PartsPrime, JarStays, AccountedStays

-----------------------------------------------------------------------------
(* The browser *)

LEMMA SendStep ==
  ASSUME IInv, NEW r \in Requests, NEW o \in Ops, Send(r, o)
  PROVE  IInv'
<1>1. TypeOK /\ JarOK /\ ReqOK(r)
  BY Parts
<1>2. /\ pc' = [pc EXCEPT ![r] = "handle"]
      /\ op' = [op EXCEPT ![r] = o]
      /\ carried' = [carried EXCEPT ![r] = [access |-> access, refresh |-> refresh]]
      /\ UNCHANGED <<access, refresh, grant, spent, dead, stale, reply, served>>
      /\ pc[r] = "idle"
      /\ awaited' = awaited \cup {r}
      /\ out' \in BOOLEAN
  BY <1>1 DEF Send, jar, supa, TypeOK
<1>3. TypeOK'
  BY <1>1, <1>2 DEF TypeOK, Labels, Cookies
<1>4. Grows /\ Caused /\ Others(r) /\ UNCHANGED jar
  BY <1>1, <1>2 DEF Grows, Caused, Others, TypeOK, jar
<1>5. reply[r] = Keep /\ served[r] = None
  BY <1>1, <1>2 DEF ReqOK
<1>6. /\ carried'[r] = [access |-> access, refresh |-> refresh]
      /\ pc'[r] = "handle"
      /\ reply'[r] = Keep
      /\ served'[r] = None
  BY <1>1, <1>2, <1>5 DEF TypeOK
<1>7. CarriedOK(r)'
  BY <1>1, <1>2, <1>6 DEF JarOK, JarOneGrant, Known, CarriedOK
<1>8. ReqOK(r)'
  BY <1>6, <1>7, ConstantsAssumption DEF ReqOK, ReplyOK, ServedOK, ClearOK
<1> QED
  BY <1>3, <1>4, <1>8, Assemble

\* A step that touches no request: the jar is given both cookies of a known
\* grant, or loses some.
LEMMA JarStep ==
  ASSUME IInv, TypeOK', JarOK',
         UNCHANGED <<grant, spent, dead, pc, op, carried, reply, served>>
  PROVE  IInv'
<1>1. Grows /\ Caused
  BY DEF Grows, Caused
<1>2. ASSUME NEW q \in Requests PROVE ReqOK(q)'
  BY <1>1, Bystander
<1> QED
  BY <1>1, <1>2, PartsPrime, AccountedStays

LEMMA BrowserStep ==
  ASSUME IInv,
         \/ \E r \in Requests : Receive(r)
         \/ CloseBrowser \/ CookieExpires
  PROVE  IInv'
<1>1. TypeOK /\ JarOK
  BY Parts
<1>2. CASE \E r \in Requests : Receive(r)
  <2>1. PICK r \in Requests : Receive(r)
    BY <1>2
  <2>2. UNCHANGED <<grant, spent, dead, stale, pc, op, carried, reply, served>>
    BY <2>1 DEF Receive, supa
  <2>3. \/ /\ reply[r] \in Grants
           /\ access' = reply[r] /\ refresh' = reply[r]
           /\ grant[reply[r]] # None
        \/ access' = None /\ refresh' = None
        \/ UNCHANGED jar
    BY <2>1, Parts DEF Receive, SetSession, ClearSession, ReqOK, ReplyOK
  <2>4. TypeOK'
    BY <1>1, <2>1, <2>2, <2>3 DEF TypeOK, Receive, jar
  <2>5. JarOK'
    BY <1>1, <2>2, <2>3 DEF JarOK, JarOneGrant, Known, jar
  <2> QED
    BY <2>2, <2>4, <2>5, JarStep
<1>3. CASE CloseBrowser \/ CookieExpires
  <2>1. UNCHANGED <<grant, spent, dead, stale, pc, op, carried, reply, served, out>>
    BY <1>3 DEF CloseBrowser, CookieExpires, supa
  <2>2. TypeOK' /\ JarOK'
    BY <1>1, <1>3, <2>1 DEF CloseBrowser, CookieExpires, TypeOK, JarOK, JarOneGrant, Known
  <2> QED
    BY <2>1, <2>2, JarStep
<1> QED
  BY <1>2, <1>3

LEMMA ExpireStep ==
  ASSUME IInv, NEW g \in Grants, AccessExpires(g)
  PROVE  IInv'
<1>1. /\ UNCHANGED <<access, refresh, grant, spent, dead, pc, op, carried, reply, served,
                     awaited, out>>
      /\ stale' = stale \cup {g}
  BY DEF AccessExpires, jar, supa
<1>2. TypeOK' /\ JarOK'
  BY <1>1, Parts DEF TypeOK, JarOK, JarOneGrant, Known
<1> QED
  BY <1>1, <1>2, JarStep

-----------------------------------------------------------------------------
(* The server *)

\* What the three shapes of Supabase's steps do.
LEMMA IssueGrows ==
  ASSUME TypeOK, NEW g \in Grants, NEW u \in Users, NEW s \in Grants, Issue(g, u, s)
  PROVE  /\ grant' \in [Grants -> Issued \cup {None}]
         /\ grant'[g] = [user |-> u, session |-> s]
         /\ grant'[g] # None
         /\ \A h \in Grants : grant[h] # None => grant'[h] = grant[h]
<1>1. /\ [user |-> u, session |-> s] \in Issued
      /\ [user |-> u, session |-> s] # None
  BY ConstantsAssumption DEF Issued
<1> QED
  BY <1>1 DEF Issue, TypeOK

\* An answer of r: what its part of the invariant asks of it, and of what
\* Supabase did for it.
AnswerOK(r, u, what) ==
    /\ what \in Grants => grant'[what] # None
    /\ what # Keep => op[r] \in {"page", "login", "logout"}
    /\ op[r] = "page" /\ what \in Grants =>
          /\ carried[r].refresh # None
          /\ grant'[what].session = grant[carried[r].refresh].session
    /\ u # None => CarriedUsers(r) = {u}
    /\ op[r] = "page" /\ what = Clear /\ carried[r].refresh # None =>
          Reason(r, grant[carried[r].refresh].session)'

SupabaseOK ==
    /\ grant' \in [Grants -> Issued \cup {None}]
    /\ spent' \subseteq Grants /\ dead' \subseteq Grants
    /\ \A g \in Grants : grant[g] # None => grant'[g] = grant[g]
    /\ spent \subseteq spent' /\ dead \subseteq dead'

LEMMA AnswerStep ==
  ASSUME IInv, NEW r \in Requests, pc[r] # "done",
         NEW u \in Users \cup {None}, NEW what \in Grants \cup {Keep, Clear},
         Answer(r, u, what),
         SupabaseOK, Caused, AnswerOK(r, u, what)
  PROVE  IInv'
<1>1. TypeOK /\ JarOK /\ ReqOK(r) /\ CarriedOK(r)
  BY Parts DEF ReqOK
<1>2. /\ UNCHANGED <<access, refresh, stale, op, carried, awaited, out>>
      /\ pc' = [pc EXCEPT ![r] = "done"]
      /\ served' = [served EXCEPT ![r] = u]
      /\ reply' = [reply EXCEPT ![r] = what]
  BY DEF Answer, jar
<1>3. TypeOK'
  BY <1>1, <1>2 DEF TypeOK, Labels, SupabaseOK
<1>4. UNCHANGED jar /\ Others(r) /\ Grows
  BY <1>1, <1>2 DEF Others, TypeOK, jar, Grows, SupabaseOK
<1>5. pc'[r] = "done" /\ served'[r] = u /\ reply'[r] = what
  BY <1>1, <1>2 DEF TypeOK
<1>6. CarriedOK(r)'
  BY <1>1, <1>2, <1>4, CarriedStay DEF CarriedOK, Known
<1>7. CarriedUsers(r)' = CarriedUsers(r)
  BY <1>1, <1>2, <1>4, CarriedStay DEF CarriedUsers
<1>8. ServedOK(r)'
  BY <1>5, <1>7 DEF ServedOK, AnswerOK
<1>9. carried[r].refresh # None =>
          /\ SessionOf(carried[r].refresh)' = grant[carried[r].refresh].session
          /\ grant'[carried[r].refresh] = grant[carried[r].refresh]
  BY <1>1, <1>2, <1>4, CarriedStay DEF SessionOf
<1>10. ReplyOK(r)'
  BY <1>2, <1>5, <1>9 DEF ReplyOK, AnswerOK, SessionOf
<1>11. ClearOK(r)'
  <2> SUFFICES ASSUME op[r] = "page", what = Clear, carried[r].refresh # None
               PROVE  Reason(r, SessionOf(carried[r].refresh))'
    BY <1>2, <1>5 DEF ClearOK
  <2>1. Reason(r, grant[carried[r].refresh].session)'
    BY DEF AnswerOK
  <2> QED
    BY <2>1 DEF SessionOf
<1> QED
  BY <1>3, <1>4, <1>5, <1>6, <1>8, <1>10, <1>11, Assemble DEF ReqOK

\* A request that carries a cookie carries that of one user.
LEMMA OneUser ==
  ASSUME IInv, NEW r \in Requests,
         NEW g \in {carried[r].access, carried[r].refresh}, g # None
  PROVE  /\ g \in Grants
         /\ grant[g] \in Issued
         /\ CarriedUsers(r) = {grant[g].user}
<1>1. g \in Grants /\ grant[g] \in Issued
  BY Parts DEF ReqOK, CarriedOK, Known, TypeOK, Cookies
<1>2. {carried[r].access, carried[r].refresh} \ {None} = {g}
  BY Parts DEF ReqOK, CarriedOK
<1> QED
  BY <1>1, <1>2 DEF CarriedUsers

LEMMA Constants == None \notin Grants /\ Keep \notin Grants /\ Clear \notin Grants /\ Keep # Clear
  BY ConstantsAssumption

\* Answers without a word to Supabase.
LEMMA QuietStep ==
  ASSUME IInv, NEW r \in Requests,
         Verified(r) \/ NoCookie(r) \/ Home(r) \/ SignInFails(r) \/ SignOutFails(r)
  PROVE  IInv'
<1>1. UNCHANGED supa /\ pc[r] # "done"
  BY DEF Verified, NoCookie, Home, SignInFails, SignOutFails, At
<1>2. SupabaseOK /\ Caused
  BY <1>1, Parts DEF supa, TypeOK, SupabaseOK, Caused
<1>3. CASE Verified(r)
  <2>1. carried[r].access # None
    BY <1>3 DEF Verified, Valid
  <2>2. /\ grant[carried[r].access].user \in Users
        /\ CarriedUsers(r) = {grant[carried[r].access].user}
    BY <2>1, OneUser DEF Issued
  <2>3. Answer(r, grant[carried[r].access].user, Keep)
    BY <1>3 DEF Verified
  <2>4. AnswerOK(r, grant[carried[r].access].user, Keep)
    BY <2>2, Constants DEF AnswerOK
  <2> QED
    BY <1>1, <1>2, <2>2, <2>3, <2>4, AnswerStep
<1>4. CASE NoCookie(r)
  <2>1. Answer(r, None, Clear) /\ carried[r].refresh = None /\ op[r] = "page"
    BY <1>4 DEF NoCookie, At
  <2>2. AnswerOK(r, None, Clear)
    BY <2>1, Constants DEF AnswerOK
  <2> QED
    BY <1>1, <1>2, <2>1, <2>2, AnswerStep
<1>5. CASE Home(r) \/ SignInFails(r)
  <2>1. Answer(r, None, Keep)
    BY <1>5 DEF Home, SignInFails
  <2>2. AnswerOK(r, None, Keep)
    BY Constants DEF AnswerOK
  <2> QED
    BY <1>1, <1>2, <2>1, <2>2, AnswerStep
<1>6. CASE SignOutFails(r)
  <2>1. Answer(r, None, Clear) /\ op[r] = "logout"
    BY <1>6 DEF SignOutFails, At
  <2>2. AnswerOK(r, None, Clear)
    BY <2>1, Constants DEF AnswerOK
  <2> QED
    BY <1>1, <1>2, <2>1, <2>2, AnswerStep
<1> QED
  BY <1>3, <1>4, <1>5, <1>6

LEMMA NeedRefreshStep ==
  ASSUME IInv, NEW r \in Requests, NeedRefresh(r)
  PROVE  IInv'
<1>1. TypeOK /\ JarOK /\ ReqOK(r)
  BY Parts
<1>2. /\ pc[r] = "handle" /\ carried[r].refresh # None
      /\ pc' = [pc EXCEPT ![r] = "refresh"]
      /\ UNCHANGED <<access, refresh, grant, spent, dead, stale, op, carried, reply, served,
                     awaited, out>>
  BY DEF NeedRefresh, At, jar, supa
<1>3. TypeOK' /\ UNCHANGED jar /\ Grows /\ Caused /\ Others(r)
  BY <1>1, <1>2 DEF TypeOK, Labels, jar, Grows, Caused, Others
<1>4. reply[r] = Keep /\ served[r] = None
  BY <1>1, <1>2 DEF ReqOK
<1>5. ReqOK(r)'
  BY <1>1, <1>2, <1>4, Constants
     DEF TypeOK, ReqOK, ReplyOK, CarriedOK, Known, ServedOK, ClearOK
<1> QED
  BY <1>3, <1>5, Assemble

\* The refresh of r's tokens, whether or not its result gets through.
LEMMA RefreshStep ==
  ASSUME IInv, NEW r \in Requests, NEW g \in Grants, Refreshed(r, g) \/ RefreshLost(r, g)
  PROVE  IInv'
<1> DEFINE t == carried[r].refresh
<1>1. Exchange(r, g)
  BY DEF Refreshed, RefreshLost
<1>2. t # None /\ pc[r] = "refresh" /\ op[r] = "page"
  BY <1>1, Parts DEF Exchange, At, ReqOK
<1>3. t \in Grants /\ grant[t] \in Issued /\ CarriedUsers(r) = {grant[t].user}
  BY <1>2, OneUser
<1>4. /\ Issue(g, grant[t].user, grant[t].session)
      /\ spent' = spent \cup {t} /\ dead' = dead
  BY <1>1 DEF Exchange
<1>5. grant[t].user \in Users /\ grant[t].session \in Grants
  BY <1>3 DEF Issued
<1>6. TypeOK
  BY Parts
<1>7. /\ grant' \in [Grants -> Issued \cup {None}]
      /\ grant'[g] = [user |-> grant[t].user, session |-> grant[t].session]
      /\ grant'[g] # None
      /\ \A h \in Grants : grant[h] # None => grant'[h] = grant[h]
  BY <1>4, <1>5, <1>6, IssueGrows
<1>8. SupabaseOK
  BY <1>3, <1>4, <1>6, <1>7 DEF TypeOK, SupabaseOK
<1>9. ASSUME NEW u \in Users \cup {None}, NEW what \in Grants \cup {Keep, Clear},
             Answer(r, u, what), what # Keep
      PROVE  Caused
  <2>1. PICK x \in Grants : x = t
    BY <1>3
  <2>2. Presented(r, x)'
    BY <1>2, <1>6, <1>9, <2>1, Constants DEF Answer, Presented, At, TypeOK
  <2> QED
    BY <1>4, <2>1, <2>2 DEF Caused
<1>10. CASE Refreshed(r, g)
  <2>1. Answer(r, grant[t].user, g)
    BY <1>10 DEF Refreshed
  <2>2. AnswerOK(r, grant[t].user, g)
    BY <1>2, <1>3, <1>7, Constants DEF AnswerOK
  <2> QED
    BY <1>2, <1>5, <1>8, <1>9, <2>1, <2>2, AnswerStep, Constants
<1>11. CASE RefreshLost(r, g)
  <2>1. r \in Faulty /\ Answer(r, None, Clear)
    BY <1>11 DEF RefreshLost
  <2>2. AnswerOK(r, None, Clear)
    BY <1>2, <2>1, Constants DEF AnswerOK, Reason
  <2> QED
    BY <1>2, <1>8, <1>9, <2>1, <2>2, AnswerStep, Constants
<1> QED
  BY <1>10, <1>11

\* A refresh token presented a second time.
LEMMA SecondUse ==
  ASSUME IInv, NEW r \in Requests, At(r, "refresh", "page"), Answer(r, None, Clear),
         UNCHANGED <<grant, spent>>, carried[r].refresh \in spent \ Reuse,
         NEW s, s = grant[carried[r].refresh].session
  PROVE  UsedTwice(s)'
<1>1. TypeOK
  BY Parts
<1>2. PICK q \in Requests : Presented(q, carried[r].refresh)
  BY Parts DEF Accounted, SpentByAPage
<1>3. /\ q # r /\ At(q, "done", "page") /\ carried[q].refresh = carried[r].refresh
      /\ reply[q] # Keep
  BY <1>2 DEF Presented, At
<1>4. /\ At(q, "done", "page")' /\ At(r, "done", "page")'
      /\ reply'[q] # Keep /\ reply'[r] # Keep
      /\ carried' = carried
  BY <1>1, <1>3, Constants DEF Answer, At, TypeOK
<1> QED
  BY <1>3, <1>4 DEF UsedTwice, Presented, SessionOf

LEMMA RefreshFailsStep ==
  ASSUME IInv, NEW r \in Requests, RefreshFails(r)
  PROVE  IInv'
<1> DEFINE t == carried[r].refresh
<1>1. At(r, "refresh", "page") /\ t # None
  BY Parts DEF RefreshFails, ReqOK, At
<1>2. PICK s \in Grants : s = grant[t].session
  BY <1>1, OneUser DEF Issued
<1>3. /\ r \in Faulty \/ ~Accepted(t)
      /\ \/ dead' = dead
         \/ t \in spent \ Reuse /\ dead' = dead \cup {s}
      /\ Answer(r, None, Clear)
      /\ UNCHANGED <<grant, spent>>
  BY <1>2 DEF RefreshFails
<1>4. t \in spent \ Reuse => UsedTwice(s)'
  BY <1>1, <1>2, <1>3, SecondUse
<1>5. SupabaseOK /\ Caused
  BY <1>2, <1>3, <1>4, Parts DEF TypeOK, SupabaseOK, Caused
<1>6. Grows
  BY <1>1, <1>3, <1>5, Parts DEF Answer, At, TypeOK, Grows, SupabaseOK
<1>7. r \in Faulty \/ SignedOutOf(s)' \/ UsedTwice(s)'
  <2>1. CASE r \notin Faulty /\ s \in dead
    <3>1. SignedOutOf(s) \/ UsedTwice(s)
      BY <2>1, Parts DEF Accounted, RevokedForAReason
    <3> QED
      BY <1>6, <3>1, CausesStay
  <2> QED
    BY <1>2, <1>3, <1>4, <2>1 DEF Accepted
<1>8. Reason(r, s)'
  BY <1>7 DEF Reason
<1>9. grant'[carried'[r].refresh].session = s
  BY <1>2, <1>3 DEF Answer
<1>10. AnswerOK(r, None, Clear)
  BY <1>1, <1>8, <1>9, Constants DEF AnswerOK, At
<1> QED
  BY <1>1, <1>3, <1>5, <1>10, AnswerStep DEF At

LEMMA SignInStep ==
  ASSUME IInv, NEW r \in Requests, NEW u \in Users, NEW g \in Grants,
         SignedIn(r, u, g) \/ SignInLost(r, u, g)
  PROVE  IInv'
<1>1. /\ Issue(g, u, g) /\ UNCHANGED <<spent, dead>>
      /\ pc[r] # "done" /\ op[r] = "login"
  BY DEF SignedIn, SignInLost, At
<1>2. /\ grant' \in [Grants -> Issued \cup {None}]
      /\ grant'[g] # None
      /\ \A h \in Grants : grant[h] # None => grant'[h] = grant[h]
  BY <1>1, Parts, IssueGrows
<1>3. SupabaseOK /\ Caused
  BY <1>1, <1>2, Parts DEF TypeOK, SupabaseOK, Caused
<1>4. PICK what \in {g, Keep} : Answer(r, None, what)
  BY DEF SignedIn, SignInLost
<1>5. AnswerOK(r, None, what)
  BY <1>1, <1>2, <1>4, Constants DEF AnswerOK
<1> QED
  BY <1>1, <1>3, <1>4, <1>5, AnswerStep

LEMMA SignedOutStep ==
  ASSUME IInv, NEW r \in Requests, SignedOut(r)
  PROVE  IInv'
<1>1. /\ carried[r].access # None /\ op[r] = "logout" /\ pc[r] # "done"
      /\ Answer(r, None, Clear)
      /\ UNCHANGED <<grant, spent>>
  BY DEF SignedOut, At, Valid
<1>2. PICK s \in Grants : s = grant[carried[r].access].session
  BY <1>1, OneUser DEF Issued
<1>3. dead' = dead \cup {s}
  BY <1>2 DEF SignedOut
<1>4. SignedOutOf(s)'
  BY <1>1, <1>2, Parts DEF SignedOutOf, SessionOf, Answer, At, TypeOK
<1>5. SupabaseOK /\ Caused
  BY <1>1, <1>2, <1>3, <1>4, Parts DEF TypeOK, SupabaseOK, Caused
<1>6. AnswerOK(r, None, Clear)
  BY <1>1, Constants DEF AnswerOK
<1> QED
  BY <1>1, <1>5, <1>6, AnswerStep

-----------------------------------------------------------------------------
(* The theorems *)

LEMMA StutterStep == IInv /\ UNCHANGED vars => IInv'
<1> SUFFICES ASSUME IInv, UNCHANGED vars PROVE IInv'
  OBVIOUS
<1>1. TypeOK' /\ JarOK'
  BY Parts DEF vars, TypeOK, JarOK, JarOneGrant, Known
<1> QED
  BY <1>1, JarStep DEF vars

LEMMA NextInv == IInv /\ [Next]_vars => IInv'
<1> SUFFICES ASSUME IInv, [Next]_vars PROVE IInv'
  OBVIOUS
<1>1. CASE Browser
  BY <1>1, SendStep, BrowserStep DEF Browser
<1>2. ASSUME NEW r \in Requests, Server(r) PROVE IInv'
  BY <1>2, QuietStep, NeedRefreshStep, RefreshStep, RefreshFailsStep, SignInStep, SignedOutStep
     DEF Server
<1>3. ASSUME NEW g \in Grants, AccessExpires(g) PROVE IInv'
  BY <1>3, ExpireStep
<1>4. CASE UNCHANGED vars
  BY <1>4, StutterStep
<1> QED
  BY <1>1, <1>2, <1>3, <1>4 DEF Next

\* The server leaves the jar alone, and what a token stands for.
LEMMA ServerKeepsLogin ==
  ASSUME IInv, NEW r \in Requests, Server(r)
  PROVE  ~LoginEnds
<1>1. refresh' = refresh
  BY DEF Server, Verified, NoCookie, NeedRefresh, RefreshFails, Home, SignInFails, SignedOut,
         SignOutFails, Refreshed, RefreshLost, SignedIn, SignInLost, Answer, jar
<1>2. \/ grant' = grant
      \/ \E g \in Grants : \E u, s : Issue(g, u, s)
  BY DEF Server, Verified, NoCookie, NeedRefresh, RefreshFails, Home, SignInFails, SignedOut,
         SignOutFails, Refreshed, RefreshLost, SignedIn, SignInLost, Exchange, supa
<1>3. refresh # None => grant'[refresh] = grant[refresh]
  BY <1>2, Parts DEF Issue, JarOK, Known, TypeOK
<1> QED
  BY <1>1, <1>3 DEF LoginEnds, SessionOf

LEMMA ReceiveStep ==
  ASSUME IInv, NEW r \in Requests, Receive(r), LoginEnds
  PROVE  Reason(r, SessionOf(refresh))
<1> DEFINE t == carried[r].refresh
<1>1. TypeOK /\ ReqOK(r)
  BY Parts
<1>2. refresh # None /\ grant' = grant
  BY DEF LoginEnds, Receive, supa
<1>3. reply[r] # Keep
  BY <1>2, Constants DEF Receive, jar, LoginEnds, SessionOf
<1>4. op[r] \in {"page", "login", "logout"}
  BY <1>1, <1>3 DEF ReqOK, ReplyOK
<1>5. CASE op[r] = "page" /\ reply[r] = Clear
  BY <1>1, <1>5 DEF ReqOK, ClearOK, Reason
<1>6. CASE op[r] = "page" /\ reply[r] \in Grants
  <2>1. refresh' = reply[r] /\ reply[r] # None
    BY <1>3, <1>6, Constants DEF Receive, SetSession
  <2>2. SessionOf(reply[r]) # SessionOf(refresh)
    BY <1>2, <2>1 DEF LoginEnds, SessionOf
  <2>3. SessionOf(reply[r]) = SessionOf(t)
    BY <1>1, <1>6 DEF ReqOK, ReplyOK
  <2> QED
    BY <2>2, <2>3 DEF Reason
<1> QED
  BY <1>1, <1>3, <1>4, <1>5, <1>6 DEF TypeOK, Reason

\* The inductive invariant holds throughout.
THEOREM InvariantHolds == Spec => []IInv
  BY InitInv, NextInv, PTL DEF Spec

\* Every variable keeps its type.
THEOREM TypeCorrect == Spec => []TypeOK
  BY InvariantHolds, PTL DEF IInv

\* The two cookies of the jar are never of two logins.
THEOREM OneGrant == Spec => []JarOneGrant
  BY InvariantHolds, PTL DEF IInv

\* Nobody is shown the library of another user than the one of their cookies.
THEOREM ServedOwn == Spec => []ServedAsCarried
  BY InvariantHolds, PTL DEF IInv

\* Whatever answers arrive in whatever order, a login ends only when the cookie
\* runs out, at the user's wish, by an answer to a request without a token of
\* this login, by a failure of Supabase's, after a logout, or when two pages
\* presented a refresh token that is good for one use.
THEOREM LoginsEndForAReason == Spec => LoginEndsForAReason
<1> DEFINE A == LoginEnds =>
                  \/ refresh' = None /\ access \in stale \cup {None} /\ UNCHANGED awaited
                  \/ \E r \in awaited \ awaited' : Reason(r, SessionOf(refresh))
<1>1. ASSUME IInv, [Next]_vars PROVE [A]_vars
  <2>1. ASSUME NEW r \in Requests, Receive(r) PROVE A
    BY <1>1, <2>1, ReceiveStep DEF Receive
  <2>2. ASSUME NEW r \in Requests, Server(r) PROVE A
    BY <1>1, <2>2, ServerKeepsLogin
  <2>3. CASE \/ \E r \in Requests, o \in Ops : Send(r, o)
             \/ CloseBrowser
             \/ \E g \in Grants : AccessExpires(g)
    <3>1. refresh' = refresh /\ grant' = grant
      BY <2>3 DEF Send, CloseBrowser, AccessExpires, jar, supa
    <3> QED
      BY <3>1 DEF LoginEnds, SessionOf
  <2>4. CASE CookieExpires
    BY <2>4 DEF CookieExpires
  <2> QED
    BY <1>1, <2>1, <2>2, <2>3, <2>4 DEF Next, Browser
<1> QED
  BY <1>1, InvariantHolds, PTL DEF Spec, LoginEndsForAReason
=============================================================================
