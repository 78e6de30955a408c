----------------------------- MODULE GatewayProofs -----------------------------
(***************************************************************************)
(* Proofs about Gateway, for any configurations, requests, links and       *)
(* tokens: the parts behave as their own modules say, so what is proved of *)
(* them there holds here; nobody acts without a session, nobody is turned  *)
(* away for what others asked, every answer was right at some moment of    *)
(* its request, analytics is that of one moment, and clicks tells what     *)
(* the redirects saw.                                                      *)
(***************************************************************************)
EXTENDS Gateway, SignInProofs, FiniteSetTheorems, SequenceTheorems

-------------------------------------------------------------------------------
(* The inductive invariant                                                 *)

\* Requests come from browsers.
WebInv ==
    /\ config \in Configs
    /\ web = [r \in Requests |-> web[r]]
    /\ \A r \in Requests : web[r].client \in Clients

\* A signed cookie in a browser was issued.
JarInv ==
    \A c \in Clients : jar[c] # NoCookie /\ jar[c].signed =>
        \E s \in issued : s.sub = jar[c].sub /\ s.exp = jar[c].exp

-------------------------------------------------------------------------------
(* Requests                                                                *)

\* A request as it arrives: it comes from a browser, in the name of its session.
LEMMA ArrivalFields ==
    ASSUME WebInv, NEW a \in Arrivals
    PROVE  a.client \in Clients /\ a.user = Visitor(a.client)
<1>1. PICK op \in config.ops : a \in {Request(op, b, c, x, v) : b \in config.clients,
               c \in Codes, x \in Arguments(op), v \in VisitsOf(op)}
  BY DEF Arrivals
<1>2. PICK b \in config.clients, c \in Codes, x \in Arguments(op), v \in VisitsOf(op) :
           a = Request(op, b, c, x, v)
  BY <1>1
<1>3. b \in Clients
  BY GatewayAssumption DEF WebInv
<1> QED BY <1>2, <1>3 DEF Request

\* The steps of a request do not change its browser and its user.
LEMMA RequestGoesOn ==
    ASSUME NEW a
    PROVE  /\ \A c : Answered(a, c).client = a.client /\ Answered(a, c).user = a.user
           /\ \A x : Showing(a, x).client = a.client
           /\ \A s : At(a, s).client = a.client /\ At(a, s).user = a.user
           /\ \A x : Read(a, x).client = a.client
           /\ \A s, x, e : Telling(a, s, x, e).client = a.client
  BY DEF Answered, Showing, Telling, At, Read

LEMMA WebChanges ==
    ASSUME NEW r \in Requests, WebInv, NEW w, w.client \in Clients,
           web' = [web EXCEPT ![r] = w], config' = config
    PROVE  WebInv' /\ web'[r] = w /\ \A q \in Requests : q # r => web'[q] = web[q]
  BY DEF WebInv

\* A request that arrives acts for its session.
LEMMA ArriveStep ==
    ASSUME NEW r \in Requests, WebInv, Arrive(r)
    PROVE  /\ WebInv' /\ \E b \in Clients : web'[r].user = Visitor(b)
           /\ \A q \in Requests : q # r => web'[q] = web[q]
<1>1. PICK a \in Arrivals : \/ Refuse(r, a) \/ AnswerAtOnce(r, a) \/ StartSignIn(r, a)
                            \/ StartLink(r, a) \/ StartRead(r, a)
  BY DEF Arrive
<1>2. a.client \in Clients /\ a.user = Visitor(a.client)
  BY ArrivalFields
<1>3. ASSUME NEW w, w.client = a.client, w.user = a.user,
             web' = [web EXCEPT ![r] = w], config' = config
      PROVE  /\ WebInv' /\ \E b \in Clients : web'[r].user = Visitor(b)
             /\ \A q \in Requests : q # r => web'[q] = web[q]
  <2>1. w.client \in Clients /\ w.user = Visitor(w.client)
    BY <1>2, <1>3
  <2>2. WebInv' /\ web'[r] = w /\ \A q \in Requests : q # r => web'[q] = web[q]
    BY <2>1, <1>3, WebChanges
  <2>3. web'[r].user = Visitor(w.client)
    BY <2>1, <2>2
  <2>4. \E b \in Clients : web'[r].user = Visitor(b)
    BY <2>1, <2>3
  <2> QED BY <2>2, <2>4
<1>4. CASE Refuse(r, a)
  <2>1. web' = [web EXCEPT ![r] = Answered(a, 429)] /\ config' = config
    BY <1>4 DEF Refuse
  <2>2. Answered(a, 429).client = a.client /\ Answered(a, 429).user = a.user
    BY RequestGoesOn
  <2> QED BY <1>3, <2>1, <2>2
<1>5. CASE AnswerAtOnce(r, a)
  BY <1>3, <1>5, RequestGoesOn DEF AnswerAtOnce
<1>6. CASE StartSignIn(r, a)
  BY <1>3, <1>6, RequestGoesOn DEF StartSignIn
<1>7. CASE StartLink(r, a)
  BY <1>3, <1>7, RequestGoesOn DEF StartLink
<1>8. CASE StartRead(r, a)
  BY <1>3, <1>8, RequestGoesOn DEF StartRead
<1> QED BY <1>1, <1>4, <1>5, <1>6, <1>7, <1>8

\* A request that is served had arrived.
LEMMA ServeStep ==
    ASSUME NEW r \in Requests, WebInv, Serve(r)
    PROVE  /\ WebInv' /\ web[r].stage # "new"
           /\ \A q \in Requests : q # r => web'[q] = web[q]
<1> DEFINE Rest == WebInv' /\ \A q \in Requests : q # r => web'[q] = web[q]
<1>1. ASSUME NEW w, w.client = web[r].client, web' = [web EXCEPT ![r] = w], config' = config
      PROVE  Rest
  BY <1>1, WebChanges DEF WebInv
<1>2. web' = web /\ config' = config => Rest
  BY DEF WebInv
<1>3. \A c : Finish(r, c) /\ config' = config => Rest
  BY <1>1, RequestGoesOn DEF Finish
<1>4. \A s : Goto(r, s) /\ config' = config => Rest
  BY <1>1, RequestGoesOn DEF Goto
<1>0. web[r].stage # "new"
  BY DEF Serve, SignInRuns, LinkRuns, Reply, Availability, ListMine, Owned, Exists, NextPage
<1> SUFFICES Rest
  BY <1>0
<1> HIDE DEF Rest
<1>5. CASE SignInRuns(r)
  BY <1>2, <1>3, <1>5 DEF SignInRuns
<1>6. CASE LinkRuns(r)
  BY <1>2, <1>6 DEF LinkRuns
<1>7. CASE Reply(r)
  <2>1. PICK s, x, e : web' = [web EXCEPT ![r] = Telling(web[r], s, x, e)]
    BY <1>7 DEF Reply
  <2>2. config' = config
    BY <1>7 DEF Reply
  <2>3. Telling(web[r], s, x, e).client = web[r].client
    BY RequestGoesOn
  <2> QED
    BY <1>1, <2>1, <2>2, <2>3
<1>8. CASE Availability(r)
  BY <1>1, <1>8, RequestGoesOn DEF Availability
<1>9. CASE ListMine(r)
  BY <1>1, <1>9, RequestGoesOn DEF ListMine
<1>10. CASE Owned(r)
  BY <1>1, <1>3, <1>4, <1>10, RequestGoesOn DEF Owned, ShowLink
<1>11. CASE Exists(r)
  BY <1>3, <1>4, <1>11 DEF Exists
<1>12. CASE NextPage(r)
  BY <1>1, <1>12, RequestGoesOn DEF NextPage
<1> QED BY <1>5, <1>6, <1>7, <1>8, <1>9, <1>10, <1>11, <1>12 DEF Serve

LEMMA WebStep == WebInv /\ [GatewayNext]_gateway_vars => WebInv'
<1> SUFFICES ASSUME WebInv, [GatewayNext]_gateway_vars PROVE WebInv'
  OBVIOUS
<1>1. CASE GatewayTick \/ GatewayRotate \/ UNCHANGED gateway_vars \/ \E r \in Requests : Flush(r)
  <2>1. web' = web /\ config' = config
    BY <1>1 DEF GatewayTick, GatewayRotate, Flush, gateway_vars
  <2> QED BY <2>1 DEF WebInv
<1>2. ASSUME NEW r \in Requests, Arrive(r) PROVE WebInv'
  BY <1>2, ArriveStep
<1>3. ASSUME NEW r \in Requests, Serve(r) PROVE WebInv'
  BY <1>3, ServeStep
<1> QED BY <1>1, <1>2, <1>3 DEF GatewayNext

LEMMA WebInit == GatewayInit => WebInv
<1> SUFFICES ASSUME GatewayInit PROVE WebInv
  OBVIOUS
<1>1. Clients # {} => NewRequest.client \in Clients
  BY DEF NewRequest
<1>2. Clients # {}
  BY GatewayAssumption
<1> QED BY <1>1, <1>2 DEF GatewayInit, WebInv

-------------------------------------------------------------------------------
(* The parts run as they do alone                                          *)

LEMMA AuthStep == WebInv /\ [GatewayNext]_gateway_vars => [AuthNext]_auth_vars
<1> SUFFICES ASSUME WebInv, [GatewayNext]_gateway_vars PROVE [AuthNext]_auth_vars
  OBVIOUS
<1>1. CASE UNCHANGED gateway_vars
  BY <1>1 DEF gateway_vars
<1>2. CASE GatewayTick \/ GatewayRotate
  BY <1>2 DEF GatewayTick, GatewayRotate, AuthNext
<1>3. ASSUME NEW r \in Requests, Arrive(r) PROVE [AuthNext]_auth_vars
  <2>1. PICK a \in Arrivals : \/ Refuse(r, a) \/ AnswerAtOnce(r, a) \/ StartSignIn(r, a)
                              \/ StartLink(r, a) \/ StartRead(r, a)
    BY <1>3 DEF Arrive
  <2>2. a.client \in Clients
    BY ArrivalFields
  <2>3. CASE AnswerAtOnce(r, a)
    BY <2>2, <2>3 DEF AnswerAtOnce, AuthNext
  <2>4. CASE StartSignIn(r, a)
    BY <2>4 DEF StartSignIn, AuthNext
  <2>5. CASE Refuse(r, a) \/ StartLink(r, a) \/ StartRead(r, a)
    BY <2>5 DEF Refuse, StartLink, StartRead
  <2> QED BY <2>1, <2>3, <2>4, <2>5
<1>4. ASSUME NEW r \in Requests, Serve(r) PROVE [AuthNext]_auth_vars
  <2>1. web[r].client \in Clients
    BY DEF WebInv
  <2>2. CASE SignInRuns(r)
    BY <2>1, <2>2 DEF SignInRuns, AuthNext
  <2>3. CASE ~SignInRuns(r)
    BY <1>4, <2>3 DEF Serve, LinkRuns, Reply, Availability, ListMine, Owned, Exists, NextPage
  <2> QED BY <2>2, <2>3
<1>5. ASSUME NEW r \in Requests, Flush(r) PROVE [AuthNext]_auth_vars
  BY <1>5 DEF Flush
<1> QED BY <1>1, <1>2, <1>3, <1>4, <1>5 DEF GatewayNext

LEMMA LinkStep == [GatewayNext]_gateway_vars => [Links!Next]_(Links!vars)
<1> SUFFICES ASSUME [GatewayNext]_gateway_vars PROVE [Links!Next]_(Links!vars)
  OBVIOUS
<1>1. CASE UNCHANGED gateway_vars
  BY <1>1 DEF gateway_vars, link_vars, auth_vars, Links!vars
<1>2. CASE GatewayTick
  BY <1>2 DEF GatewayTick, Links!Next
<1>3. CASE GatewayRotate
  BY <1>3 DEF GatewayRotate, Rotate, link_vars, Links!vars
<1>4. ASSUME NEW r \in Requests, Arrive(r) PROVE [Links!Next]_(Links!vars)
  <2>1. PICK a \in Arrivals : \/ Refuse(r, a) \/ AnswerAtOnce(r, a) \/ StartSignIn(r, a)
                              \/ StartLink(r, a) \/ StartRead(r, a)
    BY <1>4 DEF Arrive
  <2>2. CASE StartLink(r, a)
    BY <2>2 DEF StartLink, Links!Next, Links!RequestStep
  <2>3. CASE Refuse(r, a) \/ StartRead(r, a)
    BY <2>3 DEF Refuse, StartRead, auth_vars, link_vars, Links!vars
  <2>4. CASE AnswerAtOnce(r, a)
    BY <2>4 DEF AnswerAtOnce, DropCookie, auth_vars, link_vars, Links!vars
  <2>5. CASE StartSignIn(r, a)
    BY <2>5 DEF StartSignIn, Login, link_vars, Links!vars
  <2> QED BY <2>1, <2>2, <2>3, <2>4, <2>5
<1>5. ASSUME NEW r \in Requests, Serve(r) PROVE [Links!Next]_(Links!vars)
  <2>1. CASE LinkRuns(r)
    BY <2>1 DEF LinkRuns, Links!Next
  <2>2. CASE SignInRuns(r)
    BY <2>2 DEF SignInRuns, SignInStep, Look, Lock, Fetch, FetchFails, Verify, auth_vars,
                link_vars, Links!vars
  <2>3. CASE ~LinkRuns(r) /\ ~SignInRuns(r)
    BY <1>5, <2>3 DEF Serve, Reply, Availability, ListMine, Owned, Exists, NextPage,
                      auth_vars, link_vars, Links!vars
  <2> QED BY <2>1, <2>2, <2>3
<1>6. ASSUME NEW r \in Requests, Flush(r) PROVE [Links!Next]_(Links!vars)
  BY <1>6 DEF Flush, auth_vars, link_vars, Links!vars
<1> QED BY <1>1, <1>2, <1>3, <1>4, <1>5, <1>6 DEF GatewayNext

\* Sign-in and its sessions behave within the HTTP API as SignIn says, whatever
\* clients send and whatever the other parts do: for any configurations.
THEOREM SignInImplemented == Spec => SignInRunsAlone
<1>1. GatewayInit => AuthInit
  BY DEF GatewayInit
<1> QED BY <1>1, WebInit, WebStep, AuthStep, PTL DEF Spec, SignInRunsAlone, AuthSpec

\* So does the link service.
THEOREM LinkServiceImplemented == Spec => LinkServiceRuns
<1>1. GatewayInit => Links!Init
  BY DEF GatewayInit
<1> QED BY <1>1, LinkStep, PTL DEF Spec, LinkServiceRuns, Links!Spec

\* What is proved of sign-in holds within the HTTP API: rejections have a reason and
\* sessions were earned.
THEOREM SignInKeepsItsWord == Spec => []SignInsAreRight
  BY SignInImplemented, SignInsDecidedRight, PTL DEF SignInRunsAlone

-------------------------------------------------------------------------------
(* Sessions                                                                *)

LEMMA JarInit == AuthInit => JarInv
<1> SUFFICES ASSUME AuthInit, NEW c \in Clients, jar[c] # NoCookie, jar[c].signed
             PROVE  \E s \in issued : s.sub = jar[c].sub /\ s.exp = jar[c].exp
  BY DEF JarInv
<1> DEFINE x == [sub |-> jar[c].sub, exp |-> jar[c].exp, by |-> NoOne]
<1>1. x \in issued
  BY DEF AuthInit
<1> QED BY <1>1

LEMMA JarStep == SignInTypeOK /\ JarInv /\ [AuthNext]_auth_vars => JarInv'
<1> SUFFICES ASSUME SignInTypeOK, JarInv, [AuthNext]_auth_vars PROVE JarInv'
  OBVIOUS
<1>1. CASE jar' = jar /\ issued' = issued
  BY <1>1 DEF JarInv
<1>2. ASSUME NEW c \in Clients, DropCookie(c) PROVE JarInv'
  BY <1>2 DEF JarInv, DropCookie, SignInTypeOK
<1>3. ASSUME NEW r \in Requests, NEW c \in Clients, Verify(r, c), ~(jar' = jar /\ issued' = issued)
      PROVE JarInv'
  <2>1. /\ jar' = [jar EXCEPT ![c] = Issue(token[r])]
        /\ issued' = issued \cup {[sub |-> token[r].sub, exp |-> now + ttl, by |-> r]}
    BY <1>3 DEF Verify
  <2> SUFFICES ASSUME NEW b \in Clients, jar'[b] # NoCookie, jar'[b].signed
               PROVE  \E s \in issued' : s.sub = jar'[b].sub /\ s.exp = jar'[b].exp
    BY DEF JarInv
  <2>2. CASE b = c
    <3>1. jar'[b].sub = token[r].sub /\ jar'[b].exp = now + ttl
      BY <2>1, <2>2 DEF Issue, SignInTypeOK
    <3> DEFINE x == [sub |-> token[r].sub, exp |-> now + ttl, by |-> r]
    <3>2. x \in issued' /\ x.sub = token[r].sub /\ x.exp = now + ttl
      BY <2>1
    <3> QED BY <3>1, <3>2
  <2>3. CASE b # c
    BY <2>1, <2>3 DEF JarInv, SignInTypeOK
  <2> QED BY <2>2, <2>3
<1>4. \/ jar' = jar /\ issued' = issued
      \/ \E c \in Clients : DropCookie(c)
      \/ \E r \in Requests, c \in Clients : Verify(r, c)
  BY DEF AuthNext, auth_vars, Tick, Rotate, Login, SignInStep, Look, Lock, Fetch, FetchFails
<1> QED BY <1>1, <1>2, <1>3, <1>4

LEMMA ActsStep ==
    WebInv /\ JarInv /\ [GatewayNext]_gateway_vars =>
        [\A r \in Requests :
           web[r].stage = "new" /\ web'[r].stage # "new" /\ web'[r].user # NoUser =>
           \E s \in issued : s.sub = web'[r].user /\ now < s.exp]_gateway_vars
<1> SUFFICES ASSUME WebInv, JarInv, GatewayNext, NEW r \in Requests, web[r].stage = "new",
                    web'[r].stage # "new", web'[r].user # NoUser
             PROVE  \E s \in issued : s.sub = web'[r].user /\ now < s.exp
  OBVIOUS
<1>1. web'[r] # web[r]
  OBVIOUS
<1>2. Arrive(r)
  <2>1. ~(GatewayTick \/ GatewayRotate \/ \E q \in Requests : Flush(q))
    BY <1>1 DEF GatewayTick, GatewayRotate, Flush
  <2>2. PICK q \in Requests : Arrive(q) \/ Serve(q)
    BY <2>1 DEF GatewayNext
  <2> QED BY <1>1, <2>2, ArriveStep, ServeStep
<1>3. PICK b \in Clients : web'[r].user = Visitor(b)
  BY <1>2, ArriveStep
<1>4. jar[b] # NoCookie /\ jar[b].signed /\ now < jar[b].exp /\ web'[r].user = jar[b].sub
  BY <1>3 DEF Visitor, Decode
<1> QED BY <1>4 DEF JarInv

\* No request acts for a user who has no session, whatever cookies browsers hold and
\* however sign-ins, expiry and requests interleave.
THEOREM NobodyActsWithoutSession == Spec => ActsWithinSession
<1>1. Spec => AuthSpec
  BY SignInImplemented DEF SignInRunsAlone
<1>2. AuthSpec => []JarInv
  BY JarInit, JarStep, SignInTyped, PTL DEF AuthSpec
<1>3. Spec => []WebInv
  BY WebInit, WebStep, PTL DEF Spec
<1> QED BY <1>1, <1>2, <1>3, ActsStep, PTL DEF Spec, ActsWithinSession

-------------------------------------------------------------------------------
(* What is proved of the link service                                      *)

\* The link service over the memory store, with its proofs.
Store == INSTANCE LinkServiceProofs WITH
            Backend <- "memory", Users <- Subs, NoOwner <- NoUser,
            Ops <- {LinkOps[o] : o \in DOMAIN LinkOps}, MaxFailures <- 0, failures <- 0

\* It is the one of Gateway.
LEMMA SameService ==
    /\ Store!SettingsAssumption /\ Store!LinksAssumption
    /\ Links!Init <=> Store!Init
    /\ [Links!Next]_(Links!vars) <=> [Store!Next]_(Store!vars)
    /\ \A r : /\ Links!Begin(r) <=> Store!Begin(r)
              /\ Links!RequestStep(r) <=> Store!RequestStep(r)
    /\ Links!Values = Store!Values
    /\ \A c : Links!Latest(c) = Store!Latest(c)
    /\ \A v : Links!Expired(v) <=> Store!Expired(v)
    /\ \A v, u : Links!MayManage(v, u) <=> Store!MayManage(v, u)
  BY LinksAssumption
     DEF Links!Never, Store!Never, Links!Callers, Store!Callers, Links!Records,
         Store!Records, Links!Values, Store!Values, Links!AllOps, Store!AllOps,
         Links!vars, Store!vars, Links!NewRequest, Store!NewRequest, Links!Latest,
         Store!Latest, Links!WriteObject, Store!WriteObject, Links!Expired,
         Store!Expired, Links!MayManage, Store!MayManage, Links!Goto, Store!Goto,
         Links!Finish, Store!Finish, Links!Deleted, Store!Deleted, Links!Redirect,
         Store!Redirect, Links!Begin, Store!Begin, Links!Expiries, Store!Expiries,
         Links!PatchedBy, Store!PatchedBy, Links!GetToResolve, Store!GetToResolve,
         Links!GetToManage, Store!GetToManage, Links!HasPointer, Store!HasPointer,
         Links!NewLinks, Store!NewLinks, Links!Created, Store!Created, Links!Create,
         Store!Create, Links!MemoryDelete, Store!MemoryDelete, Links!MemoryUpdate,
         Store!MemoryUpdate, Links!MemoryIncrVisit, Store!MemoryIncrVisit, Links!Point,
         Store!Point, Links!HeadObject, Store!HeadObject, Links!PutUpdate,
         Store!PutUpdate, Links!FindOwner, Store!FindOwner, Links!Remove, Store!Remove,
         Links!Unpoint, Store!Unpoint, Links!ReadVisit, Store!ReadVisit, Links!PutVisit,
         Store!PutVisit, Links!Interrupted, Store!Interrupted, Links!Fail, Store!Fail,
         Links!Resend, Store!Resend,
         Links!Tick, Store!Tick, Links!RequestStep, Store!RequestStep, Links!Next,
         Store!Next, Links!Init, Store!Init, Links!SettingsAssumption,
         Store!SettingsAssumption, Links!LinksAssumption, Store!LinksAssumption

StoreInv == Store!LinkInv /\ Store!Stages /\ Store!Truth

LEMMA StoreInvariant == Spec => []StoreInv
<1>1. Links!Spec => [](Store!LinkInv /\ Store!Stages /\ Store!Truth)
  <2>1. Store!Spec => [](Store!LinkInv /\ Store!Stages /\ Store!Truth)
    BY SameService, Store!MemoryInvariant
  <2> QED
    BY <2>1, SameService, PTL DEF Links!Spec, Store!Spec
<1> QED
  BY <1>1, LinkServiceImplemented, PTL DEF LinkServiceRuns, StoreInv

\* The objects of links, of which values are only added, and time.
Grows(old, new) ==
    \A c \in Codes : /\ Len(old[c]) \in Nat /\ Len(new[c]) \in Nat
                     /\ Len(old[c]) >= 1 /\ Len(new[c]) >= Len(old[c])
                     /\ \A i \in 1 .. Len(old[c]) :
                          new[c][i] = old[c][i] /\ old[c][i] \in Links!Values

LEMMA LogGrowth ==
    ASSUME StoreInv, [Links!Next]_(Links!vars)
    PROVE  /\ now \in Nat /\ now' \in Nat /\ now' >= now /\ Grows(log, log') /\ Store!LogStep
           /\ \A c \in Codes : Links!Latest(c) = log[c][Len(log[c])]
<1>1. [Store!Next]_(Store!vars)
  BY SameService
<1>2. Store!SettingsAssumption /\ Store!LinksAssumption
  BY SameService
<1>3. now \in Nat /\ now' \in Nat /\ now' >= now /\ Store!LogStep
  BY <1>1, <1>2, Store!MemoryStep DEF StoreInv
<1>4. Store!TypeOK
  BY DEF StoreInv, Store!LinkInv
<1>5. /\ \A c \in Codes :
                /\ Len(log[c]) \in Nat /\ Len(log'[c]) \in Nat
                /\ Len(log[c]) >= 1 /\ Len(log'[c]) >= Len(log[c])
                /\ \A i \in 1 .. Len(log[c]) : log'[c][i] = log[c][i]
  BY <1>2, <1>3, <1>4, Store!LogGrows
<1>6. \A c \in Codes : \A i \in 1 .. Len(log[c]) : log[c][i] \in Store!Values
  BY <1>4 DEF Store!TypeOK
<1> QED
  BY <1>3, <1>5, <1>6, SameService DEF Grows, Links!Latest

\* A request to the link service begins.
LEMMA LinkBegins ==
    ASSUME StoreInv, NEW r \in Requests, Links!Begin(r)
    PROVE  /\ \A q \in Requests \ {r} : req'[q] = req[q]
           /\ req'[r].pc # "new" /\ req'[r].since = Len(log[req'[r].code])
           /\ req'[r].op # "shorten_random" => req'[r].left = 1
<1>1. Store!SettingsAssumption /\ Store!LinksAssumption /\ Store!Begin(r) /\ Store!LinkInv
  BY SameService DEF StoreInv
<1>2. /\ \A q \in Requests \ {r} : req'[q] = req[q]
      /\ req'[r].since = Len(log[req'[r].code])
      /\ req'[r].op # "shorten_random" => req'[r].left = 1
      /\ req'[r].pc = CASE req'[r].op \in Store!Shortening -> "create"
                        [] req'[r].op = "delete" -> "delete"
                        [] OTHER -> "get"
  BY <1>1, Store!BeginFields
<1> QED
  BY <1>2

\* It goes on.
LEMMA LinkGoesOn ==
    ASSUME StoreInv, NEW r \in Requests, Links!RequestStep(r), req[r].pc # "new",
           req[r].left = 1
    PROVE  /\ \A q \in Requests \ {r} : req'[q] = req[q]
           /\ req'[r].pc # "new" /\ req'[r].since = req[r].since /\ req'[r].left = 1
           /\ req'[r].op = req[r].op /\ req'[r].code = req[r].code /\ req'[r].by = req[r].by
<1>1. Store!SettingsAssumption /\ Store!LinksAssumption /\ Store!RequestStep(r)
      /\ Store!LinkInv /\ Store!Stages
  BY SameService DEF StoreInv
<1>2. Store!Keeps(r) /\ req'[r].pc # "new"
  BY <1>1, Store!MemoryKeeps
<1> QED
  BY <1>2 DEF Store!Keeps

-------------------------------------------------------------------------------
(* What requests are                                                       *)

RequestFields == {"op", "client", "code", "user", "since", "began", "stage", "status", "form",
                  "visit", "click", "query", "cursor", "shown", "first", "gone"}
WebStages == {"new", "sign_in", "link", "availability", "list", "owned", "exists", "page",
              "done"}
Statuses == {200, 201, 204, 302, 400, 401, 403, 404, 409, 429, 503}

\* A request has its fields, and they their types.
Typed(a) ==
    /\ a = [f \in RequestFields |-> a[f]]
    /\ a.op \in Ops /\ a.client \in Clients /\ a.code \in Codes
    /\ a.user \in Subs \cup {NoUser} /\ a.visit \in Visits \cup {NoVisit}
    /\ a.stage \in WebStages /\ a.status \in Statuses \cup {0}
    /\ a.status # 0 <=> a.stage = "done"

\* b is the request that a is.
SameRequest(a, b) ==
    /\ b.op = a.op /\ b.client = a.client /\ b.code = a.code /\ b.user = a.user
    /\ b.since = a.since /\ b.began = a.began /\ b.form = a.form /\ b.visit = a.visit

LEMMA OnwardFields ==
    ASSUME NEW a, Typed(a)
    PROVE  /\ \A s \in WebStages \ {"new", "done"} : a.stage # "done" =>
                /\ Typed(At(a, s)) /\ SameRequest(a, At(a, s))
                /\ At(a, s).stage = s /\ At(a, s).status = 0
           /\ \A s \in Statuses :
                /\ Typed(Answered(a, s)) /\ SameRequest(a, Answered(a, s))
                /\ Answered(a, s).stage = "done" /\ Answered(a, s).status = s
           /\ \A x : /\ Typed(Showing(a, x)) /\ SameRequest(a, Showing(a, x))
                     /\ Showing(a, x).stage = "done" /\ Showing(a, x).status = 200
           /\ \A s \in Statuses : \A x, e :
                /\ Typed(Telling(a, s, x, e)) /\ SameRequest(a, Telling(a, s, x, e))
                /\ Telling(a, s, x, e).stage = "done" /\ Telling(a, s, x, e).status = s
           /\ \A p : /\ Typed(Read(a, p)) /\ SameRequest(a, Read(a, p))
                     /\ Read(a, p).stage = a.stage
<1>1. a = [f \in RequestFields |-> a[f]]
  BY DEF Typed
<1>2. ASSUME NEW s \in WebStages \ {"new", "done"}, a.stage # "done"
      PROVE  /\ Typed(At(a, s)) /\ SameRequest(a, At(a, s))
             /\ At(a, s).stage = s /\ At(a, s).status = 0
  <2>1. /\ At(a, s).stage = s
        /\ \A f \in RequestFields \ {"stage"} : At(a, s)[f] = a[f]
        /\ At(a, s) = [f \in RequestFields |-> At(a, s)[f]]
    BY <1>1 DEF At, RequestFields
  <2> QED
    BY <1>2, <2>1 DEF Typed, SameRequest, RequestFields
<1>3. \A s \in Statuses :
        /\ Answered(a, s).stage = "done" /\ Answered(a, s).status = s
        /\ \A f \in RequestFields \ {"stage", "status"} : Answered(a, s)[f] = a[f]
        /\ Answered(a, s) = [f \in RequestFields |-> Answered(a, s)[f]]
  BY <1>1 DEF Answered, RequestFields
<1>4. ASSUME NEW s \in Statuses
      PROVE  /\ Typed(Answered(a, s)) /\ SameRequest(a, Answered(a, s))
             /\ Answered(a, s).stage = "done" /\ Answered(a, s).status = s
  <2>1. s # 0 /\ "done" \in WebStages
    BY DEF Statuses, WebStages
  <2>2. \A f \in {"op", "client", "code", "user", "since", "began", "visit", "form"} :
          Answered(a, s)[f] = a[f]
    BY <1>3 DEF RequestFields
  <2> QED
    BY <1>3, <2>1, <2>2 DEF Typed, SameRequest
<1>5. ASSUME NEW x
      PROVE  /\ Typed(Showing(a, x)) /\ SameRequest(a, Showing(a, x))
             /\ Showing(a, x).stage = "done" /\ Showing(a, x).status = 200
  <2> DEFINE b == Answered(a, 200)
  <2>1. Typed(b) /\ SameRequest(a, b) /\ b.stage = "done" /\ b.status = 200
    BY <1>4 DEF Statuses
  <2>2. b = [f \in RequestFields |-> b[f]] /\ Showing(a, x) = [b EXCEPT !.shown = x]
    BY <2>1 DEF Typed, Showing
  <2> HIDE DEF b
  <2>3. /\ \A f \in RequestFields \ {"shown"} : Showing(a, x)[f] = b[f]
        /\ Showing(a, x) = [f \in RequestFields |-> Showing(a, x)[f]]
    BY <2>2 DEF RequestFields
  <2> QED
    BY <2>1, <2>3 DEF Typed, SameRequest, RequestFields
<1>6. ASSUME NEW p
      PROVE  /\ Typed(Read(a, p)) /\ SameRequest(a, Read(a, p))
             /\ Read(a, p).stage = a.stage
  <2>1. /\ \A f \in RequestFields \ {"shown", "cursor", "first", "gone"} : Read(a, p)[f] = a[f]
        /\ Read(a, p) = [f \in RequestFields |-> Read(a, p)[f]]
    BY <1>1 DEF Read, RequestFields
  <2> QED
    BY <2>1 DEF Typed, SameRequest, RequestFields
<1>7. ASSUME NEW s \in Statuses, NEW x, NEW e
      PROVE  /\ Typed(Telling(a, s, x, e)) /\ SameRequest(a, Telling(a, s, x, e))
             /\ Telling(a, s, x, e).stage = "done" /\ Telling(a, s, x, e).status = s
  <2> DEFINE b == Answered(a, s)
             w == Telling(a, s, x, e)
  <2>1. Typed(b) /\ SameRequest(a, b) /\ b.stage = "done" /\ b.status = s
    BY <1>4
  <2>2. b = [f \in RequestFields |-> b[f]] /\ w = [b EXCEPT !.shown = x, !.click = e]
    BY <2>1 DEF Typed, Telling
  <2> HIDE DEF b, w
  <2>3. /\ \A f \in RequestFields \ {"shown", "click"} : w[f] = b[f]
        /\ w = [f \in RequestFields |-> w[f]]
    BY <2>2 DEF RequestFields
  <2>4. Typed(w) /\ SameRequest(a, w) /\ w.stage = "done" /\ w.status = s
    BY <2>1, <2>3 DEF Typed, SameRequest, RequestFields
  <2> QED
    BY <2>4 DEF w
<1> QED
  BY <1>2, <1>4, <1>5, <1>6, <1>7

\* Only replies make clicks.
LEMMA OnwardClick ==
    ASSUME NEW a, Typed(a)
    PROVE  /\ \A s : At(a, s).click = a.click /\ Answered(a, s).click = a.click
           /\ \A x : Showing(a, x).click = a.click /\ Showing(a, x).shown = x
           /\ \A p : Read(a, p).click = a.click
           /\ \A s, x, e : Telling(a, s, x, e).click = e /\ Telling(a, s, x, e).shown = x
<1>1. a = [f \in RequestFields |-> a[f]]
  BY DEF Typed
<1>2. \A s : /\ At(a, s).click = a.click /\ Answered(a, s).click = a.click
             /\ Answered(a, s) = [f \in RequestFields |-> Answered(a, s)[f]]
  BY <1>1 DEF At, Answered, RequestFields
<1>3. \A x : Showing(a, x).click = a.click /\ Showing(a, x).shown = x
  BY <1>2 DEF Showing, RequestFields
<1>4. \A p : Read(a, p).click = a.click
  BY <1>1 DEF Read, RequestFields
<1>5. \A s, x, e : Telling(a, s, x, e).click = e /\ Telling(a, s, x, e).shown = x
  BY <1>2 DEF Telling, RequestFields
<1> QED
  BY <1>2, <1>3, <1>4, <1>5

LEMMA NewRequestTyped == Typed(NewRequest) /\ NewRequest.stage = "new" /\ NewRequest.status = 0
<1>1. /\ (CHOOSE b \in Clients : TRUE) \in Clients
      /\ (CHOOSE c \in Codes : TRUE) \in Codes
  BY GatewayAssumption, LinksAssumption DEF Links!LinksAssumption
<1>2. NewRequest = [f \in RequestFields |-> NewRequest[f]]
  <2> DEFINE B == CHOOSE b \in Clients : TRUE
             C == CHOOSE c \in Codes : TRUE
             S == [c \in Codes |-> 1]
  <2>1. NewRequest =
          [op |-> "me", client |-> B, code |-> C, user |-> NoUser, since |-> S, began |-> 0,
           stage |-> "new", status |-> 0, form |-> "good", visit |-> NoVisit, click |-> <<>>,
           query |-> NoQuery, cursor |-> 0, shown |-> <<>>, first |-> <<>>, gone |-> 0]
    BY DEF NewRequest
  <2> HIDE DEF B, C, S
  <2> QED
    BY <2>1 DEF RequestFields
<1>3. /\ NewRequest.op = "me" /\ NewRequest.client = (CHOOSE b \in Clients : TRUE)
      /\ NewRequest.code = (CHOOSE c \in Codes : TRUE) /\ NewRequest.user = NoUser
      /\ NewRequest.visit = NoVisit /\ NewRequest.stage = "new" /\ NewRequest.status = 0
  BY DEF NewRequest
<1> QED
  <2>1. "me" \in Ops /\ "new" \in WebStages /\ "new" # "done"
    BY DEF Ops, WebStages
  <2> QED
    BY <1>1, <1>2, <1>3, <2>1 DEF Typed

\* A request as it arrives.
LEMMA ArrivalTyped ==
    ASSUME config \in Configs, SignInTypeOK, StoreInv, NEW a \in Arrivals
    PROVE  /\ Typed(a) /\ a.stage = "new" /\ a.status = 0
           /\ a.since = [d \in Codes |-> Len(log[d])] /\ a.began = now /\ a.click = <<>>
           /\ a.form \in Forms(a.op)
<1>1. PICK op \in config.ops : a \in {Request(op, b, c, x, v) : b \in config.clients,
               c \in Codes, x \in Arguments(op), v \in VisitsOf(op)}
  BY DEF Arrivals
<1>2. PICK b \in config.clients, c \in Codes, x \in Arguments(op), v \in VisitsOf(op) :
        a = Request(op, b, c, x, v)
  BY <1>1
<1>3. /\ config.ops \subseteq Ops /\ config.clients \subseteq Clients
      /\ config.visits \subseteq Visits
  BY GatewayAssumption
<1>4. op \in Ops /\ b \in Clients /\ v \in Visits \cup {NoVisit} /\ x.form \in Forms(op)
  BY <1>3 DEF VisitsOf, Arguments
<1>5. Visitor(b) \in Subs \cup {NoUser}
  BY <1>4 DEF Visitor, Decode, SignInTypeOK, Sessions
<1>7. a = [f \in RequestFields |-> a[f]]
  BY <1>2 DEF Request, RequestFields
<1>8. /\ a.op = op /\ a.client = b /\ a.code = c /\ a.user = Visitor(b)
      /\ a.since = [d \in Codes |-> Len(log[d])] /\ a.began = now /\ a.click = <<>>
      /\ a.stage = "new" /\ a.status = 0 /\ a.form = x.form /\ a.visit = v
  BY <1>2 DEF Request
<1> QED
  BY <1>4, <1>5, <1>7, <1>8 DEF Typed, WebStages

\* Each sign-in that is through has its answer.
OutcomesInv == \A r \in Requests : step[r] = "done" => outcome[r] # 0

LEMMA OutcomesStep == SignInTypeOK /\ OutcomesInv /\ [AuthNext]_auth_vars => OutcomesInv'
<1> SUFFICES ASSUME SignInTypeOK, OutcomesInv, [AuthNext]_auth_vars PROVE OutcomesInv'
  OBVIOUS
<1>1. CASE UNCHANGED <<step, outcome>>
  BY <1>1 DEF OutcomesInv
<1>2. ASSUME NEW r \in Requests, \E s \in {"look", "lock", "fetch", "verify"} : Continue(r, s)
      PROVE  OutcomesInv'
  BY <1>2 DEF Continue, OutcomesInv, SignInTypeOK
<1>3. ASSUME NEW r \in Requests, \E c \in {200, 401} : Answer(r, c)
      PROVE  OutcomesInv'
  BY <1>3 DEF Answer, OutcomesInv, SignInTypeOK
<1>4. ASSUME NEW r \in Requests, NEW t \in Tokens, Login(r, t) PROVE OutcomesInv'
  BY <1>2, <1>3, <1>4 DEF Login
<1>5. ASSUME NEW r \in Requests, NEW c \in Clients, SignInStep(r, c) PROVE OutcomesInv'
  BY <1>2, <1>3, <1>5 DEF SignInStep, Look, Lock, Fetch, FetchFails, Verify
<1> QED
  BY <1>1, <1>4, <1>5 DEF AuthNext, auth_vars, login_vars, Tick, Rotate, DropCookie

\* Requests under way: what their stage tells of them, and of the request to the link
\* service that they make.
UnderWay(r) ==
    LET a == web[r] IN
    /\ a.stage = "sign_in" => a.op = "login"
    /\ a.stage = "availability" => a.op = "availability"
    /\ a.stage = "list" => a.op = "list"
    /\ a.stage = "owned" => a.op \in Reads \/ (a.op = "update" /\ a.form = "unusable")
    /\ a.stage \in {"exists", "page"} => a.op \in {"clicks", "analytics"}
    /\ a.stage = "link" =>
         /\ a.op \in DOMAIN LinkOps
         /\ req[r].op = LinkOps[a.op] /\ req[r].code = a.code /\ req[r].by = a.user
         /\ req[r].since = a.since[a.code] /\ req[r].pc # "new" /\ req[r].left = 1

RequestsInv ==
    /\ config \in Configs
    /\ web = [r \in Requests |-> web[r]]
    /\ \A r \in Requests : Typed(web[r]) /\ UnderWay(r)

\* What arrives, and what becomes of it.
Arrived(r, a, w) ==
    /\ a.stage = "new" /\ a.since = [d \in Codes |-> Len(log[d])] /\ a.began = now
    /\ a.form \in Forms(a.op) /\ w.click = <<>>
    /\ Typed(w) /\ SameRequest(a, w) /\ w.stage \notin {"new", "exists", "page"}
    /\ web' = [web EXCEPT ![r] = w] /\ UNCHANGED <<config, now, log, stream, trimmed>>
    /\ \/ Exhausted(a.op, a.client) /\ w.status = 429 /\ UNCHANGED tat
       \/ w.status \in {0, 200, 204, 400, 401, 503} /\ Admit(a.op, a.client)
    /\ w.status \in {200, 204} => w.op \in {"me", "logout"}

LEMMA Arrives ==
    ASSUME RequestsInv, SignInTypeOK, StoreInv, NEW r \in Requests, Arrive(r)
    PROVE  /\ \E a \in Arrivals : \E w : Arrived(r, a, w)
           /\ web[r].stage = "new" /\ r <= config.requests
           /\ \A q \in Requests : q < r => web[q].stage # "new"
<1>1. /\ web[r].stage = "new" /\ r <= config.requests
      /\ \A q \in Requests : q < r => web[q].stage # "new"
  BY DEF Arrive
<1>2. PICK a \in Arrivals : \/ Refuse(r, a) \/ AnswerAtOnce(r, a) \/ StartSignIn(r, a)
                            \/ StartLink(r, a) \/ StartRead(r, a)
  BY DEF Arrive
<1>3. /\ Typed(a) /\ a.stage = "new" /\ a.status = 0
      /\ a.since = [d \in Codes |-> Len(log[d])] /\ a.began = now /\ a.click = <<>>
      /\ a.form \in Forms(a.op)
  BY ArrivalTyped DEF RequestsInv
<1>4. \E w : Arrived(r, a, w)
  <2>1. CASE Refuse(r, a)
    <3> DEFINE w == Answered(a, 429)
    <3>1. Typed(w) /\ SameRequest(a, w) /\ w.stage = "done" /\ w.status = 429
      BY <1>3, OnwardFields DEF Statuses
    <3>2. web' = [web EXCEPT ![r] = w]
          /\ Exhausted(a.op, a.client) /\ UNCHANGED <<config, now, log, stream, trimmed, tat>>
      BY <2>1 DEF Refuse, auth_vars, link_vars, click_vars
    <3>3. w.click = <<>>
      BY <1>3, OnwardClick
    <3> HIDE DEF w
    <3>4. Arrived(r, a, w)
      BY <1>3, <3>1, <3>2, <3>3 DEF Arrived
    <3> QED
      BY <3>4
  <2>2. CASE AnswerAtOnce(r, a)
    <3> DEFINE w == Answered(a, AtOnce(a))
    <3>1. /\ AtOnce(a) \in {200, 204, 400, 401, 503}
          /\ AtOnce(a) \in {200, 204} => a.op \in {"me", "logout"}
      BY <2>2 DEF AnswerAtOnce, AtOnce
    <3>2. Typed(w) /\ SameRequest(a, w) /\ w.stage = "done" /\ w.status = AtOnce(a)
      BY <1>3, <3>1, OnwardFields DEF Statuses
    <3>3. web' = [web EXCEPT ![r] = w]
          /\ Admit(a.op, a.client) /\ UNCHANGED <<config, now, log, stream, trimmed>>
      BY <2>2 DEF AnswerAtOnce, auth_vars, link_vars, click_vars, DropCookie
    <3>5. w.click = <<>>
      BY <1>3, OnwardClick
    <3> HIDE DEF w
    <3>4. Arrived(r, a, w)
      BY <1>3, <3>1, <3>2, <3>3, <3>5 DEF Arrived, SameRequest
    <3> QED
      BY <3>4
  <2>3. ASSUME NEW s \in WebStages \ {"new", "exists", "page", "done"},
               web' = [web EXCEPT ![r] = At(a, s)], Admit(a.op, a.client), UNCHANGED <<config, now, log, stream, trimmed>>
        PROVE  \E w : Arrived(r, a, w)
    <3> DEFINE w == At(a, s)
    <3>1. Typed(w) /\ SameRequest(a, w) /\ w.stage = s /\ w.status = 0
      BY <1>3, OnwardFields
    <3>2. web' = [web EXCEPT ![r] = w] /\ w.click = <<>>
      BY <1>3, <2>3, OnwardClick
    <3> HIDE DEF w
    <3>3. w.stage \notin {"new", "exists", "page"} /\ w.status \in {0, 200, 204, 400, 401, 503}
          /\ w.status \notin {200, 204}
      BY <3>1
    <3>4. Arrived(r, a, w)
      BY <1>3, <2>3, <3>1, <3>2, <3>3 DEF Arrived
    <3> QED
      BY <3>4
  <2>4. CASE StartSignIn(r, a)
    BY <2>3, <2>4 DEF StartSignIn, link_vars, click_vars, Login, WebStages
  <2>5. CASE StartLink(r, a)
    BY <2>3, <2>5 DEF StartLink, auth_vars, click_vars, Links!Begin, WebStages
  <2>6. CASE StartRead(r, a)
    <3> DEFINE s == IF a.op \in {"availability", "list"} THEN a.op ELSE "owned"
    <3>1. s \in WebStages \ {"new", "exists", "page", "done"}
      BY DEF WebStages
    <3>2. /\ web' = [web EXCEPT ![r] = At(a, s)]
          /\ Admit(a.op, a.client) /\ UNCHANGED <<config, now, log, stream, trimmed>>
      BY <2>6 DEF StartRead, auth_vars, link_vars, click_vars
    <3> HIDE DEF s
    <3> QED
      BY <2>3, <3>1, <3>2
  <2> QED
    BY <1>2, <2>1, <2>2, <2>4, <2>5, <2>6
<1> QED
  BY <1>1, <1>4

\* What the answers of the link service and of sign-ins become.
LEMMA LinkStatuses ==
    ASSUME StoreInv, NEW r \in Requests, req[r].pc = "done", req[r].op # "shorten_random",
           NEW op
    PROVE  /\ req[r].answer \in {"ok", "found", "not_found", "conflict", "denied"}
           /\ StatusOf(op, req[r].answer) \in {200, 201, 204, 302, 403, 404, 409}
<1>1. Store!Truthful(r) /\ Store!TypeOK
  BY DEF StoreInv, Store!Truth, Store!LinkInv
<1>2. req[r].answer \in {"none", "ok", "found", "not_found", "denied", "conflict", "error"}
  BY <1>1 DEF Store!TypeOK, Store!RequestStates
<1>3. req[r].answer \in {"ok", "found", "not_found", "conflict", "denied"}
  BY <1>1, <1>2 DEF Store!Truthful, Store!Answered
<1> QED
  BY <1>3 DEF StatusOf, Success

\* What a step of a request under way makes of it.
Served(r, w) ==
    /\ Typed(w) /\ SameRequest(web[r], w) /\ w.stage # "new" /\ w.status # 429
    /\ web' = [web EXCEPT ![r] = w] /\ UNCHANGED <<config, now, tat>>

LEMMA Serves ==
    ASSUME RequestsInv, OutcomesInv, SignInTypeOK, StoreInv, NEW r \in Requests, Serve(r)
    PROVE  web[r].stage \notin {"new", "done"} /\ \E w : Served(r, w)
<1> DEFINE a == web[r]
<1>0. Typed(a) /\ web = [q \in Requests |-> web[q]]
  BY DEF RequestsInv
<1>1. ASSUME NEW s \in Statuses \ {429}, web' = [web EXCEPT ![r] = Answered(a, s)],
             UNCHANGED <<config, now, tat>>
      PROVE  \E w : Served(r, w)
  <2> DEFINE w == Answered(a, s)
  <2>1. Typed(w) /\ SameRequest(a, w) /\ w.stage = "done" /\ w.status = s
    BY <1>0, OnwardFields
  <2>2. web' = [web EXCEPT ![r] = w]
    BY <1>1
  <2> HIDE DEF w
  <2>3. Served(r, w)
    BY <1>1, <2>1, <2>2 DEF Served
  <2> QED
    BY <2>3
<1>2. ASSUME NEW s \in WebStages \ {"new", "done"}, a.stage # "done",
             web' = [web EXCEPT ![r] = At(a, s)], UNCHANGED <<config, now, tat>>
      PROVE  \E w : Served(r, w)
  <2> DEFINE w == At(a, s)
  <2>1. Typed(w) /\ SameRequest(a, w) /\ w.stage = s /\ w.status = 0
    BY <1>0, <1>2, OnwardFields
  <2>2. web' = [web EXCEPT ![r] = w]
    BY <1>2
  <2> HIDE DEF w
  <2>3. w.stage # "new" /\ w.status # 429
    BY <2>1
  <2>4. Served(r, w)
    BY <1>2, <2>1, <2>2, <2>3 DEF Served
  <2> QED
    BY <2>4
<1>3. ASSUME UNCHANGED <<web, config, now, tat>>, a.stage \notin {"new", "done"}
      PROVE  \E w : Served(r, w)
  <2>1. a.status = 0 /\ SameRequest(a, a)
    BY <1>0, <1>3 DEF Typed, SameRequest
  <2>2. web' = [web EXCEPT ![r] = a]
    BY <1>0, <1>3
  <2> HIDE DEF a
  <2>3. a.status # 429
    BY <2>1
  <2>4. Served(r, a)
    BY <1>0, <1>3, <2>1, <2>2, <2>3 DEF Served, a
  <2> QED
    BY <2>4
<1>5. CASE SignInRuns(r)
  <2>1. a.stage = "sign_in" /\ UNCHANGED <<config, now, tat>>
    BY <1>5 DEF SignInRuns, SignInStep, auth_vars, Look, Lock, Fetch, FetchFails, Verify
  <2>2. CASE UNCHANGED web
    BY <1>3, <2>1, <2>2
  <2>3. CASE step[r] = "done" /\ Finish(r, outcome[r])
    <3>1. outcome[r] \in Statuses \ {429}
      BY <2>3 DEF OutcomesInv, SignInTypeOK, Statuses
    <3> QED
      BY <1>1, <2>1, <2>3, <3>1 DEF Finish
  <2> QED
    BY <1>5, <2>1, <2>2, <2>3 DEF SignInRuns
<1>6. CASE LinkRuns(r)
  <2>1. a.stage = "link" /\ UNCHANGED <<web, config, now, tat>>
    BY <1>6 DEF LinkRuns, auth_vars
  <2> QED
    BY <1>3, <2>1
<1>7. CASE Reply(r)
  <2> DEFINE s == StatusOf(a.op, req[r].answer)
  <2>1. a.stage = "link" /\ UNCHANGED <<config, now, tat>> /\ req[r].pc = "done"
        /\ web' = [web EXCEPT ![r] = Telling(a, s, Content(r), Recorded(r))]
    BY <1>7 DEF Reply, auth_vars
  <2>2. req[r].op # "shorten_random"
    BY <2>1 DEF RequestsInv, UnderWay, LinkOps
  <2>3. s \in Statuses \ {429}
    BY <2>1, <2>2, LinkStatuses DEF Statuses
  <2> DEFINE w == Telling(a, s, Content(r), Recorded(r))
  <2> HIDE DEF s
  <2>4. Typed(w) /\ SameRequest(a, w) /\ w.stage = "done" /\ w.status = s
    BY <1>0, <2>3, OnwardFields
  <2>5. web' = [web EXCEPT ![r] = w]
    BY <2>1
  <2> HIDE DEF w
  <2>6. w.stage # "new" /\ w.status # 429
    BY <2>3, <2>4
  <2>7. Served(r, w)
    BY <2>1, <2>4, <2>5, <2>6 DEF Served
  <2> QED
    BY <2>1, <2>7
<1>8. ASSUME NEW x, web' = [web EXCEPT ![r] = Showing(a, x)], UNCHANGED <<config, now, tat>>
      PROVE  \E w : Served(r, w)
  <2> DEFINE w == Showing(a, x)
  <2>1. Typed(w) /\ SameRequest(a, w) /\ w.stage = "done" /\ w.status = 200
    BY <1>0, OnwardFields
  <2>2. web' = [web EXCEPT ![r] = w]
    BY <1>8
  <2> HIDE DEF w
  <2>3. Served(r, w)
    <3>1. w.stage # "new" /\ w.status # 429
      BY <2>1
    <3> QED
      BY <1>8, <2>1, <2>2, <3>1 DEF Served
  <2> QED
    BY <2>3
<1>9. CASE Availability(r) \/ ListMine(r)
  <2>1. a.stage \in {"availability", "list"} /\ UNCHANGED <<config, now, tat>>
        /\ \E x : web' = [web EXCEPT ![r] = Showing(a, x)]
    BY <1>9 DEF Availability, ListMine, auth_vars
  <2> QED
    BY <1>8, <2>1
<1>10. CASE Owned(r) \/ Exists(r)
  <2>1. a.stage \in {"owned", "exists"} /\ UNCHANGED <<config, now, tat>>
        /\ \/ \E s \in {400, 403, 404} : Finish(r, s)
           \/ \E s \in {"exists", "page"} : Goto(r, s)
           \/ \E x : web' = [web EXCEPT ![r] = Showing(a, x)]
    BY <1>10 DEF Owned, Exists, ShowLink, auth_vars
  <2>2. {200, 400, 403, 404} \subseteq Statuses \ {429}
        /\ {"exists", "page"} \subseteq WebStages \ {"new", "done"}
    BY DEF Statuses, WebStages
  <2> QED
    BY <1>1, <1>2, <1>8, <2>1, <2>2 DEF Finish, Goto
<1>11. CASE NextPage(r)
  <2> DEFINE p == Older(r)
             b == Read(a, p)
  <2>1. a.stage = "page" /\ UNCHANGED <<config, now, tat>>
        /\ \/ web' = [web EXCEPT ![r] = At(b, "exists")]
           \/ \E x : web' = [web EXCEPT ![r] = Showing(b, x)]
    BY <1>11 DEF NextPage, auth_vars
  <2>2. Typed(b) /\ SameRequest(a, b) /\ b.stage = "page"
    BY <1>0, <2>1, OnwardFields
  <2>6. UNCHANGED <<config, now, tat>>
    BY <2>1
  <2> HIDE DEF b
  <2>3. CASE web' = [web EXCEPT ![r] = At(b, "exists")]
    <3> DEFINE w == At(b, "exists")
    <3>1. Typed(w) /\ SameRequest(b, w) /\ w.stage = "exists" /\ w.status = 0
      BY <2>2, OnwardFields DEF WebStages
    <3>2. web' = [web EXCEPT ![r] = w]
      BY <2>3
    <3> HIDE DEF w
    <3>3. w.stage # "new" /\ w.status # 429
      BY <3>1
    <3>4. SameRequest(web[r], w)
      BY <2>2, <3>1 DEF SameRequest
    <3>5. Served(r, w)
      BY <2>6, <3>1, <3>2, <3>3, <3>4 DEF Served
    <3> QED
      BY <2>1, <3>5
  <2>5. ASSUME NEW x, web' = [web EXCEPT ![r] = Showing(b, x)] PROVE \E w : Served(r, w)
    <3> DEFINE w == Showing(b, x)
    <3>1. Typed(w) /\ SameRequest(b, w) /\ w.stage = "done" /\ w.status = 200
      BY <2>2, OnwardFields
    <3>2. web' = [web EXCEPT ![r] = w]
      BY <2>5
    <3> HIDE DEF w
    <3>3. w.stage # "new" /\ w.status # 429
      BY <3>1
    <3>4. SameRequest(web[r], w)
      BY <2>2, <3>1 DEF SameRequest
    <3>5. Served(r, w)
      BY <2>6, <3>1, <3>2, <3>3, <3>4 DEF Served
    <3> QED
      BY <2>1, <3>5
  <2> QED
    BY <2>1, <2>3, <2>5
<1>12. a.stage \notin {"new", "done"}
  BY DEF Serve, SignInRuns, LinkRuns, Reply, Availability, ListMine, Owned, Exists, NextPage
<1> QED
  BY <1>5, <1>6, <1>7, <1>9, <1>10, <1>11, <1>12 DEF Serve

LEMMA ArrivesUnderWay ==
    ASSUME RequestsInv, SignInTypeOK, StoreInv, NEW r \in Requests, Arrive(r)
    PROVE  UnderWay(r)' /\ \A q \in Requests \ {r} : req'[q] = req[q]
<1>1. PICK a \in Arrivals : \/ Refuse(r, a) \/ AnswerAtOnce(r, a) \/ StartSignIn(r, a)
                            \/ StartLink(r, a) \/ StartRead(r, a)
  BY DEF Arrive
<1>2. /\ Typed(a) /\ a.stage = "new" /\ a.since[a.code] = Len(log[a.code]) /\ a.form \in Forms(a.op)
  BY ArrivalTyped DEF RequestsInv, Typed
<1>3. web = [q \in Requests |-> web[q]]
  BY DEF RequestsInv
<1>4. ASSUME NEW s \in Statuses, web' = [web EXCEPT ![r] = Answered(a, s)]
      PROVE  UnderWay(r)'
  <2>1. web'[r].stage = "done"
    BY <1>2, <1>3, <1>4, OnwardFields
  <2> QED
    BY <2>1 DEF UnderWay
<1>5. ASSUME NEW s \in WebStages \ {"new", "done"}, web' = [web EXCEPT ![r] = At(a, s)]
      PROVE  web'[r].stage = s /\ SameRequest(a, web'[r])
  BY <1>2, <1>3, <1>5, OnwardFields
<1>6. CASE Refuse(r, a)
  BY <1>4, <1>6 DEF Refuse, link_vars, Statuses
<1>7. CASE AnswerAtOnce(r, a)
  <2>1. AtOnce(a) \in Statuses
    BY <1>7 DEF AnswerAtOnce, AtOnce, Statuses
  <2> QED
    BY <1>4, <1>7, <2>1 DEF AnswerAtOnce, link_vars
<1>8. CASE StartSignIn(r, a)
  <2>1. web'[r].stage = "sign_in" /\ web'[r].op = "login"
    BY <1>5, <1>8 DEF StartSignIn, WebStages, SameRequest
  <2> QED
    BY <1>8, <2>1 DEF StartSignIn, link_vars, UnderWay
<1>9. CASE StartLink(r, a)
  <2>1. web'[r].stage = "link" /\ SameRequest(a, web'[r])
    BY <1>5, <1>9 DEF StartLink, WebStages
  <2>2. /\ a.op \in DOMAIN LinkOps /\ Links!Begin(r)
        /\ req'[r].op = LinkOps[a.op] /\ req'[r].code = a.code /\ req'[r].by = a.user
    BY <1>9 DEF StartLink
  <2>3. /\ \A q \in Requests \ {r} : req'[q] = req[q]
        /\ req'[r].pc # "new" /\ req'[r].since = Len(log[req'[r].code])
        /\ req'[r].op # "shorten_random" => req'[r].left = 1
    BY <2>2, LinkBegins
  <2>4. \A op \in DOMAIN LinkOps : LinkOps[op] # "shorten_random"
    BY DEF LinkOps
  <2>5. req'[r].left = 1
    BY <2>2, <2>3, <2>4
  <2> QED
    BY <1>2, <2>1, <2>2, <2>3, <2>5 DEF UnderWay, SameRequest
<1>10. CASE StartRead(r, a)
  <2> DEFINE s == IF a.op \in {"availability", "list"} THEN a.op ELSE "owned"
  <2>1. /\ s \in WebStages \ {"new", "done"}
        /\ s \in {"availability", "list", "owned"}
        /\ s # "owned" => a.op = s
        /\ s = "owned" => a.op \notin {"availability", "list"}
    BY DEF WebStages
  <2>2. /\ web' = [web EXCEPT ![r] = At(a, s)] /\ UNCHANGED req
        /\ a.op \in Reads \cup {"availability", "list"} \/ a.form = "unusable"
    BY <1>10 DEF StartRead, link_vars
  <2>3. a.form = "unusable" => a.op \in {"update", "analytics"}
    BY <1>2 DEF Forms
  <2> HIDE DEF s
  <2>4. web'[r].stage = s /\ SameRequest(a, web'[r])
    BY <1>5, <2>1, <2>2
  <2>5. s = "owned" => a.op \in Reads \/ (a.op = "update" /\ a.form = "unusable")
    <3>1. "analytics" \in Reads
      BY DEF Reads
    <3> QED
      BY <2>1, <2>2, <2>3, <3>1
  <2> QED
    BY <2>1, <2>2, <2>4, <2>5 DEF UnderWay, SameRequest
<1> QED
  BY <1>1, <1>6, <1>7, <1>8, <1>9, <1>10

LEMMA ServesUnderWay ==
    ASSUME RequestsInv, OutcomesInv, SignInTypeOK, StoreInv, NEW r \in Requests, Serve(r)
    PROVE  UnderWay(r)' /\ \A q \in Requests \ {r} : req'[q] = req[q]
<1> DEFINE a == web[r]
<1>0. Typed(a) /\ web = [q \in Requests |-> web[q]] /\ UnderWay(r)
  BY DEF RequestsInv
<1>1. ASSUME web'[r].stage = "done" PROVE UnderWay(r)'
  BY <1>1 DEF UnderWay
<1>2. PICK w : Served(r, w)
  BY Serves
<1>3. web'[r] = w /\ SameRequest(a, w)
  BY <1>0, <1>2 DEF Served
<1>4. ASSUME NEW s, NEW b, Typed(b), web' = [web EXCEPT ![r] = Answered(b, s)], s \in Statuses
      PROVE  UnderWay(r)'
  BY <1>0, <1>1, <1>4, OnwardFields
<1>5. ASSUME NEW x, NEW b, Typed(b), web' = [web EXCEPT ![r] = Showing(b, x)]
      PROVE  UnderWay(r)'
  BY <1>0, <1>1, <1>5, OnwardFields
<1>6. ASSUME NEW s \in {"exists", "page"}, NEW b, Typed(b), b.stage # "done",
             a.op \in {"clicks", "analytics"}, web' = [web EXCEPT ![r] = At(b, s)]
      PROVE  UnderWay(r)'
  <2>1. web'[r].stage = s
    BY <1>0, <1>6, OnwardFields DEF WebStages
  <2>2. web'[r].op \in {"clicks", "analytics"}
    BY <1>3, <1>6 DEF SameRequest
  <2> QED
    BY <1>6, <2>1, <2>2 DEF UnderWay
<1>7. CASE SignInRuns(r)
  <2>1. UNCHANGED req /\ a.stage = "sign_in"
    BY <1>7 DEF SignInRuns, link_vars
  <2>2. CASE UNCHANGED web
    BY <1>0, <2>1, <2>2 DEF UnderWay
  <2>3. CASE step[r] = "done" /\ Finish(r, outcome[r])
    <3>1. outcome[r] \in Statuses
      BY <2>3 DEF OutcomesInv, SignInTypeOK, Statuses
    <3> QED
      BY <1>0, <1>4, <2>1, <2>3, <3>1 DEF Finish
  <2> QED
    BY <1>7, <2>2, <2>3 DEF SignInRuns
<1>8. CASE LinkRuns(r)
  <2>1. a.stage = "link" /\ UNCHANGED web /\ Links!RequestStep(r)
    BY <1>8 DEF LinkRuns
  <2>2. req[r].pc # "new" /\ req[r].left = 1
    BY <1>0, <2>1 DEF UnderWay
  <2>3. /\ \A q \in Requests \ {r} : req'[q] = req[q]
        /\ req'[r].pc # "new" /\ req'[r].since = req[r].since /\ req'[r].left = 1
        /\ req'[r].op = req[r].op /\ req'[r].code = req[r].code /\ req'[r].by = req[r].by
    BY <2>1, <2>2, LinkGoesOn
  <2> QED
    BY <1>0, <2>1, <2>3 DEF UnderWay
<1>9. CASE Reply(r)
  <2> DEFINE s == StatusOf(a.op, req[r].answer)
  <2>1. a.stage = "link" /\ req[r].pc = "done" /\ UNCHANGED req
        /\ web' = [web EXCEPT ![r] = Telling(a, s, Content(r), Recorded(r))]
    BY <1>9 DEF Reply, link_vars
  <2>2. req[r].op # "shorten_random"
    BY <1>0, <2>1 DEF UnderWay, LinkOps
  <2>3. s \in Statuses
    BY <2>1, <2>2, LinkStatuses DEF Statuses
  <2> HIDE DEF s
  <2>4. web'[r].stage = "done"
    BY <1>0, <2>1, <2>3, OnwardFields
  <2> QED
    BY <1>1, <2>1, <2>4
<1>10. CASE Availability(r) \/ ListMine(r)
  BY <1>0, <1>5, <1>10 DEF Availability, ListMine, link_vars
<1>11. CASE Owned(r) \/ Exists(r)
  <2>1. /\ a.stage \in {"owned", "exists"} /\ UNCHANGED req
        /\ \/ \E s \in {400, 403, 404} : Finish(r, s)
           \/ \E s \in {"exists", "page"} : Goto(r, s) /\ a.op \in {"clicks", "analytics"}
           \/ \E x : web' = [web EXCEPT ![r] = Showing(a, x)]
    BY <1>0, <1>11 DEF Owned, Exists, ShowLink, link_vars, UnderWay
  <2>2. {200, 400, 403, 404} \subseteq Statuses
    BY DEF Statuses
  <2> QED
    BY <1>0, <1>4, <1>5, <1>6, <2>1, <2>2 DEF Finish, Goto
<1>12. CASE NextPage(r)
  <2> DEFINE b == Read(a, Older(r))
  <2>1. a.stage = "page" /\ UNCHANGED req
        /\ \/ web' = [web EXCEPT ![r] = At(b, "exists")]
           \/ \E x : web' = [web EXCEPT ![r] = Showing(b, x)]
    BY <1>12 DEF NextPage, link_vars
  <2>2. Typed(b) /\ b.stage = "page"
    BY <1>0, <2>1, OnwardFields
  <2>3. a.op \in {"clicks", "analytics"}
    BY <1>0, <2>1 DEF UnderWay
  <2> HIDE DEF b
  <2> QED
    BY <1>5, <1>6, <2>1, <2>2, <2>3
<1> QED
  BY <1>7, <1>8, <1>9, <1>10, <1>11, <1>12 DEF Serve

LEMMA RequestsStep ==
    ASSUME RequestsInv, OutcomesInv, SignInTypeOK, StoreInv, [GatewayNext]_gateway_vars
    PROVE  RequestsInv'
<1>1. CASE GatewayTick \/ GatewayRotate \/ UNCHANGED gateway_vars \/ \E r \in Requests : Flush(r)
  <2>1. UNCHANGED <<web, config, req>>
    BY <1>1 DEF GatewayTick, GatewayRotate, Flush, gateway_vars, link_vars, Links!Tick
  <2> QED
    BY <2>1 DEF RequestsInv, UnderWay
<1>2. ASSUME NEW r \in Requests, NEW w, Typed(w), web' = [web EXCEPT ![r] = w],
             UNCHANGED config, UnderWay(r)', \A q \in Requests \ {r} : req'[q] = req[q]
      PROVE  RequestsInv'
  <2>1. web' = [q \in Requests |-> web'[q]] /\ web'[r] = w
        /\ \A q \in Requests \ {r} : web'[q] = web[q]
    BY <1>2 DEF RequestsInv
  <2>2. ASSUME NEW q \in Requests \ {r} PROVE UnderWay(q)'
    BY <1>2, <2>1 DEF RequestsInv, UnderWay
  <2> QED
    BY <1>2, <2>1, <2>2 DEF RequestsInv
<1>3. ASSUME NEW r \in Requests, Arrive(r) PROVE RequestsInv'
  <2>1. PICK a \in Arrivals : \E w : Arrived(r, a, w)
    BY <1>3, Arrives
  <2>2. PICK w : Arrived(r, a, w)
    BY <2>1
  <2>3. Typed(w) /\ web' = [web EXCEPT ![r] = w] /\ UNCHANGED config
    BY <2>2 DEF Arrived
  <2>4. UnderWay(r)' /\ \A q \in Requests \ {r} : req'[q] = req[q]
    BY <1>3, ArrivesUnderWay
  <2> QED
    BY <1>2, <2>3, <2>4
<1>4. ASSUME NEW r \in Requests, Serve(r) PROVE RequestsInv'
  BY <1>2, <1>4, Serves, ServesUnderWay DEF Served
<1> QED
  BY <1>1, <1>3, <1>4 DEF GatewayNext

-------------------------------------------------------------------------------
(* Quotas                                                                  *)

\* The admitted requests that the limiter counts under a key.
Counted(s, b) ==
    {q \in Requests : /\ web[q].stage # "new" /\ web[q].status # 429
                      /\ Endpoint(web[q].op) = s /\ web[q].client = b}

\* Those that count for what r is told.
Before(r) ==
    {q \in Requests : /\ q < r /\ web[q].client = web[r].client
                      /\ Endpoint(web[q].op) = Endpoint(web[r].op) /\ web[q].status # 429}

\* Requests arrive in the order of their numbers.
OrderInv ==
    \A r \in Requests : web[r].stage # "new" =>
        r <= config.requests /\ \A q \in Requests : q < r => web[q].stage # "new"

\* A bucket holds no more than was counted.
QuotaInv ==
    /\ OrderInv
    /\ tat \in [Scopes \X Clients -> Nat]
    /\ \A s \in Scopes, b \in Clients : tat[<<s, b>>] <= now + Cardinality(Counted(s, b))
    /\ \A r \in Requests : web[r].status = 429 => Cardinality(Before(r)) >= config.perHour

LEMMA CountedFinite ==
    ASSUME config \in Configs, OrderInv, NEW s, NEW b
    PROVE  IsFiniteSet(Counted(s, b)) /\ Cardinality(Counted(s, b)) \in Nat
<1>1. config.requests \in Nat /\ \A q \in Requests : q \in Nat
  BY GatewayAssumption
<1>2. Counted(s, b) \subseteq 0 .. config.requests
  BY <1>1 DEF Counted, OrderInv
<1>3. IsFiniteSet(0 .. config.requests)
  BY <1>1, FS_Interval
<1> QED
  BY <1>2, <1>3, FS_Subset, FS_CardinalityType

\* The scope of a limited request.
LEMMA KeyTyped ==
    ASSUME NEW op \in Ops, NEW b \in Clients, Limited(op)
    PROVE  /\ Endpoint(op) \in Scopes /\ Key(op, b) = <<Endpoint(op), b>>
           /\ Key(op, b) \in Scopes \X Clients /\ config.perHour > 0
  BY DEF Limited, Endpoint, Scopes, Ops, LinkOps, Unlimited, Key

\* A request that was turned away, after others have moved on.
LEMMA BeforeStays ==
    ASSUME RequestsInv, OrderInv, NEW x \in Requests,
           \A q \in Requests \ {x} : web'[q] = web[q],
           \/ web[x].stage = "new"
           \/ /\ SameRequest(web[x], web'[x])
              /\ web[x].status # 429 /\ web'[x].status # 429,
           NEW r \in Requests \ {x}, web[r].status = 429
    PROVE  Before(r)' = Before(r)
<1>1. web[r].stage = "done"
  BY DEF RequestsInv, Typed
<1>2. \A q \in Requests : q < r => web[q].stage # "new"
  BY <1>1 DEF OrderInv
<1>4. CASE web[x].stage = "new"
  <2>1. ~(x < r)
    BY <1>2, <1>4
  <2> QED
    BY <2>1 DEF Before
<1>5. CASE SameRequest(web[x], web'[x]) /\ web[x].status # 429 /\ web'[x].status # 429
  BY <1>5 DEF Before, SameRequest
<1> QED
  BY <1>4, <1>5

LEMMA ArriveQuota ==
    ASSUME RequestsInv, SignInTypeOK, StoreInv, QuotaInv, NEW r \in Requests, Arrive(r)
    PROVE  QuotaInv'
<1>0. PICK a \in Arrivals : \E w : Arrived(r, a, w)
  BY Arrives
<1>1. PICK w : Arrived(r, a, w)
  BY <1>0
<1>2. /\ web[r].stage = "new" /\ r <= config.requests
      /\ \A q \in Requests : q < r => web[q].stage # "new"
  BY Arrives
<1>11. web' = [web EXCEPT ![r] = w] /\ OrderInv
  BY <1>1 DEF Arrived, QuotaInv
<1>12. /\ web'[r] = w /\ \A q \in Requests \ {r} : web'[q] = web[q]
       /\ web' = [q \in Requests |-> web'[q]]
  BY <1>11 DEF RequestsInv
<1>3. /\ web'[r] = w /\ \A q \in Requests \ {r} : web'[q] = web[q]
      /\ web' = [q \in Requests |-> web'[q]]
      /\ w.stage # "new" /\ w.op \in Ops /\ w.client \in Clients
      /\ a.op = w.op /\ a.client = w.client
      /\ config' = config /\ now' = now /\ now \in Nat
  BY <1>1, <1>12 DEF Arrived, Typed, SameRequest, SignInTypeOK
<1>4. config \in Configs /\ config.perHour \in Nat /\ Requests \subseteq Nat
      /\ r \in Nat /\ \A q \in Requests : q \in Nat
  BY GatewayAssumption DEF RequestsInv
<1>5. OrderInv'
  BY <1>2, <1>3, <1>4 DEF OrderInv, QuotaInv
<1> DEFINE e == Endpoint(w.op)
           c == w.client
<1>6. \A s, b : Counted(s, b) \subseteq Counted(s, b)'
  BY <1>2, <1>3 DEF Counted
<1>7. \A s, b : /\ IsFiniteSet(Counted(s, b)') /\ Cardinality(Counted(s, b)) \in Nat
                /\ Cardinality(Counted(s, b)') \in Nat
                /\ Cardinality(Counted(s, b)') >= Cardinality(Counted(s, b))
  <2> SUFFICES ASSUME NEW s, NEW b
               PROVE  /\ IsFiniteSet(Counted(s, b)') /\ Cardinality(Counted(s, b)) \in Nat
                      /\ Cardinality(Counted(s, b)') \in Nat
                      /\ Cardinality(Counted(s, b)') >= Cardinality(Counted(s, b))
    OBVIOUS
  <2>1. IsFiniteSet(Counted(s, b)) /\ Cardinality(Counted(s, b)) \in Nat
    BY <1>4, CountedFinite DEF QuotaInv
  <2>2. Counted(s, b)' \subseteq Counted(s, b) \cup {r}
    BY <1>3 DEF Counted
  <2>3. IsFiniteSet(Counted(s, b) \cup {r})
    BY <2>1, FS_AddElement
  <2>4. IsFiniteSet(Counted(s, b)')
    BY <2>2, <2>3, FS_Subset
  <2>5. Cardinality(Counted(s, b)) <= Cardinality(Counted(s, b)')
    BY <1>6, <2>4, FS_Subset
  <2>6. Cardinality(Counted(s, b)') \in Nat
    BY <2>4, FS_CardinalityType
  <2> QED
    BY <2>1, <2>4, <2>5, <2>6
<1>8. ASSUME NEW q \in Requests \ {r}, web'[q].status = 429
      PROVE  Cardinality(Before(q)') >= config.perHour
  <2>1. web[q].status = 429
    BY <1>3, <1>8
  <2>2. Before(q)' = Before(q)
    BY <1>2, <1>3, <1>11, <2>1, BeforeStays
  <2> QED
    BY <2>1, <2>2 DEF QuotaInv
<1>9. CASE Exhausted(a.op, a.client) /\ w.status = 429 /\ UNCHANGED tat
  <2>1. Limited(w.op) /\ Filled(Key(w.op, c)) > now + config.perHour
    BY <1>3, <1>9 DEF Exhausted
  <2>2. e \in Scopes /\ Key(w.op, c) = <<e, c>> /\ <<e, c>> \in Scopes \X Clients
        /\ config.perHour > 0
    BY <1>3, <2>1, KeyTyped
  <2>3. tat[<<e, c>>] \in Nat
    BY <2>2 DEF QuotaInv
  <2>4. tat[<<e, c>>] >= now + config.perHour
    BY <1>3, <1>4, <2>1, <2>2, <2>3 DEF Filled
  <2>5. Cardinality(Counted(e, c)) >= config.perHour
    <3>1. Cardinality(Counted(e, c)) \in Nat
      BY <1>7
    <3>2. tat[<<e, c>>] <= now + Cardinality(Counted(e, c))
      BY <1>3, <2>2 DEF QuotaInv
    <3> QED
      BY <1>3, <1>4, <2>3, <2>4, <3>1, <3>2
  <2>6. Counted(e, c) \subseteq Before(r)'
    <3> SUFFICES ASSUME NEW q \in Counted(e, c) PROVE q \in Before(r)'
      OBVIOUS
    <3>1. q \in Requests /\ web[q].stage # "new" /\ web[q].status # 429
          /\ Endpoint(web[q].op) = e /\ web[q].client = c
      BY DEF Counted
    <3>2. q # r /\ ~(r < q)
      BY <1>2, <3>1 DEF QuotaInv, OrderInv
    <3>3. q \in Nat /\ r \in Nat
      BY <1>4, <3>1
    <3>4. q < r \/ q = r \/ r < q
      BY <3>3
    <3>5. q < r
      BY <3>2, <3>4
    <3>6. web'[q] = web[q] /\ web'[r] = w
      BY <1>3, <3>1, <3>2
    <3> HIDE DEF e, c
    <3>7. /\ web'[q].client = c /\ Endpoint(web'[q].op) = e /\ web'[q].status # 429
          /\ q \in Requests
      BY <3>1, <3>6
    <3>8. web'[r].client = c /\ Endpoint(web'[r].op) = e
      BY <3>6 DEF e, c
    <3> QED
      BY <3>5, <3>7, <3>8 DEF Before
  <2>7. IsFiniteSet(Before(r)')
    <3>1. Before(r)' \subseteq 0 .. r
      <4> SUFFICES ASSUME NEW q \in Before(r)' PROVE q \in 0 .. r
        OBVIOUS
      <4>1. q \in Requests /\ q < r
        BY DEF Before
      <4> QED
        BY <1>4, <4>1
    <3>2. IsFiniteSet(0 .. r)
      BY <1>4, FS_Interval
    <3> QED
      BY <3>1, <3>2, FS_Subset
  <2>8. Cardinality(Before(r)') >= config.perHour
    <3>1. Cardinality(Counted(e, c)) <= Cardinality(Before(r)')
      BY <2>6, <2>7, FS_Subset
    <3>2. Cardinality(Before(r)') \in Nat /\ Cardinality(Counted(e, c)) \in Nat
      BY <1>7, <2>7, FS_CardinalityType
    <3> QED
      BY <1>4, <2>5, <3>1, <3>2
  <2>9. \A s \in Scopes, b \in Clients : tat'[<<s, b>>] <= now' + Cardinality(Counted(s, b)')
    <3> SUFFICES ASSUME NEW s \in Scopes, NEW b \in Clients
                 PROVE  tat[<<s, b>>] <= now + Cardinality(Counted(s, b)')
      BY <1>3, <1>9
    <3>1. tat[<<s, b>>] \in Nat /\ tat[<<s, b>>] <= now + Cardinality(Counted(s, b))
      BY DEF QuotaInv
    <3>2. /\ Cardinality(Counted(s, b)) \in Nat /\ Cardinality(Counted(s, b)') \in Nat
          /\ Cardinality(Counted(s, b)') >= Cardinality(Counted(s, b))
      BY <1>7
    <3> QED
      BY <1>3, <3>1, <3>2
  <2>10. tat' \in [Scopes \X Clients -> Nat]
    BY <1>9 DEF QuotaInv
  <2> QED
    BY <1>3, <1>5, <1>8, <2>8, <2>9, <2>10 DEF QuotaInv
<1>10. CASE w.status \in {0, 200, 204, 400, 401, 503} /\ Admit(a.op, a.client)
  <2>0. w.status # 429
    BY <1>10
  <2>1. CASE UNCHANGED tat
    <3>1. \A s \in Scopes, b \in Clients : tat'[<<s, b>>] <= now' + Cardinality(Counted(s, b)')
      <4> SUFFICES ASSUME NEW s \in Scopes, NEW b \in Clients
                   PROVE  tat[<<s, b>>] <= now + Cardinality(Counted(s, b)')
        BY <1>3, <2>1
      <4>1. tat[<<s, b>>] \in Nat /\ tat[<<s, b>>] <= now + Cardinality(Counted(s, b))
        BY DEF QuotaInv
      <4>2. /\ Cardinality(Counted(s, b)) \in Nat /\ Cardinality(Counted(s, b)') \in Nat
            /\ Cardinality(Counted(s, b)') >= Cardinality(Counted(s, b))
        BY <1>7
      <4> QED
        BY <1>3, <4>1, <4>2
    <3>2. tat' \in [Scopes \X Clients -> Nat]
      BY <2>1 DEF QuotaInv
    <3> QED
      BY <1>3, <1>5, <1>8, <2>0, <3>1, <3>2 DEF QuotaInv
  <2>2. CASE Limited(w.op) /\ tat' = [tat EXCEPT ![Key(w.op, c)] = Filled(Key(w.op, c))]
    <3>1. e \in Scopes /\ Key(w.op, c) = <<e, c>> /\ <<e, c>> \in Scopes \X Clients
      BY <1>3, <2>2, KeyTyped
    <3>2. tat[<<e, c>>] \in Nat /\ Filled(<<e, c>>) \in Nat
          /\ Filled(<<e, c>>) = (IF tat[<<e, c>>] > now THEN tat[<<e, c>>] ELSE now) + 1
      BY <1>3, <3>1 DEF QuotaInv, Filled
    <3>3. tat' \in [Scopes \X Clients -> Nat] /\ tat'[<<e, c>>] = Filled(<<e, c>>)
          /\ \A k \in Scopes \X Clients : k # <<e, c>> => tat'[k] = tat[k]
      BY <2>2, <3>1, <3>2 DEF QuotaInv
    <3>4. Cardinality(Counted(e, c)') = Cardinality(Counted(e, c)) + 1
      <4>1. Counted(e, c)' = Counted(e, c) \cup {r} /\ r \notin Counted(e, c)
        BY <1>2, <1>3, <2>0 DEF Counted
      <4>2. IsFiniteSet(Counted(e, c))
        BY <1>4, CountedFinite DEF QuotaInv
      <4> QED
        BY <4>1, <4>2, FS_AddElement
    <3>5. \A s \in Scopes, b \in Clients : tat'[<<s, b>>] <= now' + Cardinality(Counted(s, b)')
      <4> SUFFICES ASSUME NEW s \in Scopes, NEW b \in Clients
                   PROVE  tat'[<<s, b>>] <= now + Cardinality(Counted(s, b)')
        BY <1>3
      <4>1. tat[<<s, b>>] \in Nat /\ tat[<<s, b>>] <= now + Cardinality(Counted(s, b))
        BY DEF QuotaInv
      <4>2. /\ Cardinality(Counted(s, b)) \in Nat /\ Cardinality(Counted(s, b)') \in Nat
            /\ Cardinality(Counted(s, b)') >= Cardinality(Counted(s, b))
        BY <1>7
      <4>3. CASE <<s, b>> = <<e, c>>
        <5>1. s = e /\ b = c
          BY <4>3
        <5>2. Cardinality(Counted(s, b)') = Cardinality(Counted(s, b)) + 1
          BY <3>4, <5>1
        <5>3. tat'[<<s, b>>] = (IF tat[<<s, b>>] > now THEN tat[<<s, b>>] ELSE now) + 1
          BY <3>2, <3>3, <5>1
        <5> HIDE DEF e, c
        <5> QED
          BY <1>3, <4>1, <4>2, <5>2, <5>3
      <4>4. CASE <<s, b>> # <<e, c>>
        <5>1. tat'[<<s, b>>] = tat[<<s, b>>]
          BY <3>3, <4>4
        <5> QED
          BY <1>3, <4>1, <4>2, <5>1
      <4> QED
        BY <4>3, <4>4
    <3> QED
      BY <1>3, <1>5, <1>8, <2>0, <3>3, <3>5 DEF QuotaInv
  <2> QED
    BY <1>3, <1>10, <2>1, <2>2 DEF Admit
<1> QED
  BY <1>1, <1>9, <1>10 DEF Arrived

LEMMA QuotaStep ==
    ASSUME RequestsInv, OutcomesInv, SignInTypeOK, StoreInv, QuotaInv,
           [GatewayNext]_gateway_vars
    PROVE  QuotaInv'
<1>0. now \in Nat /\ Requests \subseteq Nat
  BY GatewayAssumption DEF SignInTypeOK
<1>1. CASE GatewayTick \/ GatewayRotate \/ UNCHANGED gateway_vars \/ \E r \in Requests : Flush(r)
  <2>1. UNCHANGED <<web, config, tat>> /\ (now' = now \/ now' = now + 1)
    BY <1>1 DEF GatewayTick, GatewayRotate, Flush, Tick, Rotate, gateway_vars, auth_vars
  <2>2. OrderInv'
    BY <2>1 DEF QuotaInv, OrderInv
  <2>3. \A s, b : Counted(s, b)' = Counted(s, b)
    BY <2>1 DEF Counted
  <2>4. \A r \in Requests : Before(r)' = Before(r)
    BY <2>1 DEF Before
  <2>5. ASSUME NEW s \in Scopes, NEW b \in Clients
        PROVE  tat'[<<s, b>>] <= now' + Cardinality(Counted(s, b)')
    <3>1. Cardinality(Counted(s, b)) \in Nat
      BY CountedFinite DEF QuotaInv, RequestsInv
    <3>2. tat[<<s, b>>] \in Nat /\ tat[<<s, b>>] <= now + Cardinality(Counted(s, b))
      BY DEF QuotaInv
    <3> QED
      BY <1>0, <2>1, <2>3, <3>1, <3>2
  <2> QED
    BY <2>1, <2>2, <2>4, <2>5 DEF QuotaInv
<1>2. ASSUME NEW r \in Requests, Serve(r) PROVE QuotaInv'
  <2>1. PICK w : Served(r, w)
    BY <1>2, Serves
  <2>2. /\ web'[r] = w /\ \A q \in Requests \ {r} : web'[q] = web[q]
        /\ w.stage # "new" /\ w.status # 429 /\ SameRequest(web[r], w)
        /\ web[r].stage \notin {"new", "done"}
        /\ UNCHANGED <<config, now, tat>> /\ web' = [web EXCEPT ![r] = w] /\ OrderInv
    BY <1>2, <2>1, Serves DEF Served, RequestsInv, QuotaInv
  <2>3. web[r].status # 429
    <3>1. web[r].status = 0
      BY <2>2 DEF RequestsInv, Typed
    <3> QED
      BY <3>1
  <2>4. OrderInv'
    BY <2>2 DEF QuotaInv, OrderInv
  <2>5. \A s, b : Counted(s, b)' = Counted(s, b)
    BY <2>2, <2>3 DEF Counted, SameRequest
  <2>6. ASSUME NEW q \in Requests, web'[q].status = 429
        PROVE  Cardinality(Before(q)') >= config'.perHour
    <3>1. q # r /\ web[q].status = 429
      BY <2>2, <2>6
    <3>2. Before(q)' = Before(q)
      BY <2>2, <2>3, <3>1, BeforeStays
    <3> QED
      BY <2>2, <3>1, <3>2 DEF QuotaInv
  <2> QED
    BY <2>2, <2>4, <2>5, <2>6 DEF QuotaInv
<1> QED
  BY <1>1, <1>2, ArriveQuota DEF GatewayNext

-------------------------------------------------------------------------------
(* Clicks, and requests as they should be                                  *)

\* The event of a visit on day t.
Seen(v, t) == Clicks!EventOf(v, t * Clicks!Day + v.moment, Salt)
Messages == {Clicks!Encode(Seen(v, t)) : v \in Visits \cup {NoVisit}, t \in 0 .. MaxNow}

\* Only a redirect makes a click, of what it saw.
ClickOK(a) ==
    a.click # <<>> =>
        /\ a.op = "redirect" /\ a.status = 302
        /\ \E t \in 0 .. MaxNow : a.click = <<Seen(a.visit, t)>>

\* m is the click of request q.
Origin(q, c, m) ==
    web[q].code = c /\ web[q].click # <<>> /\ m = Clicks!Encode(web[q].click[1])

\* Streams hold clicks of their codes.
StreamInv ==
    /\ \A r \in Requests : ClickOK(web[r])
    /\ stream \in [Codes -> Seq(Messages)]
    /\ trimmed = [c \in Codes |-> trimmed[c]]
    /\ \A c \in Codes : trimmed[c] \in 0 .. Len(stream[c])
    /\ \A c \in Codes : \A i \in 1 .. Len(stream[c]) :
           \E q \in Requests : Origin(q, c, stream[c][i])

\* A request that has no click yet gets one that is right, or none.
LEMMA ClickStays ==
    ASSUME StreamInv, UNCHANGED <<stream, trimmed>>, NEW r \in Requests, web[r].click = <<>>,
           \A q \in Requests \ {r} : web'[q] = web[q], ClickOK(web'[r])
    PROVE  StreamInv'
<1>1. \A q \in Requests : ClickOK(web'[q])
  BY DEF StreamInv
<1>2. ASSUME NEW c \in Codes, NEW i \in 1 .. Len(stream[c])
      PROVE  \E q \in Requests : Origin(q, c, stream[c][i])'
  <2>1. PICK q \in Requests : Origin(q, c, stream[c][i])
    BY <1>2 DEF StreamInv
  <2>2. q # r
    BY <2>1 DEF Origin
  <2> QED
    BY <2>1, <2>2 DEF Origin
<1> QED
  BY <1>1, <1>2 DEF StreamInv

LEMMA FlushStep ==
    ASSUME RequestsInv, StreamInv, NEW r \in Requests, Flush(r)
    PROVE  /\ StreamInv' /\ UNCHANGED <<web, now, log, config>>
           /\ \A c \in Codes : /\ Len(stream'[c]) >= Len(stream[c]) /\ trimmed'[c] >= trimmed[c]
                               /\ \A i \in 1 .. Len(stream[c]) : stream'[c][i] = stream[c][i]
<1> DEFINE c == web[r].code
           m == Clicks!Encode(web[r].click[1])
           length == Len(stream[c]) + 1
<1>1. /\ web[r].click # <<>> /\ stream' = [stream EXCEPT ![c] = Append(@, m)]
      /\ \/ UNCHANGED trimmed
         \/ \E n \in trimmed[c] .. length - config.maxLen :
              config.maxLen > 0 /\ trimmed' = [trimmed EXCEPT ![c] = n]
      /\ UNCHANGED <<web, now, log, config>>
  BY DEF Flush, auth_vars, link_vars
<1>2. c \in Codes /\ config.maxLen \in Nat /\ ClickOK(web[r]) /\ web[r].visit \in Visits \cup {NoVisit}
  BY GatewayAssumption DEF RequestsInv, Typed, StreamInv
<1>3. m \in Messages
  <2>1. PICK t \in 0 .. MaxNow : web[r].click = <<Seen(web[r].visit, t)>>
    BY <1>1, <1>2 DEF ClickOK
  <2>2. web[r].click[1] = Seen(web[r].visit, t)
    BY <2>1
  <2> QED
    BY <1>2, <2>2 DEF Messages
<1>4. Origin(r, c, m)
  BY <1>1 DEF Origin
<1>13. \A q \in Requests : ClickOK(web'[q])
  BY <1>1 DEF StreamInv
<1> HIDE DEF c, m
<1>5. /\ stream' \in [Codes -> Seq(Messages)]
      /\ Len(stream[c]) \in Nat /\ Len(stream'[c]) = Len(stream[c]) + 1
      /\ stream'[c][Len(stream[c]) + 1] = m
      /\ \A i \in 1 .. Len(stream[c]) : stream'[c][i] = stream[c][i]
      /\ \A d \in Codes \ {c} : stream'[d] = stream[d]
  <2>1. stream \in [Codes -> Seq(Messages)] /\ stream[c] \in Seq(Messages)
    BY <1>2 DEF StreamInv
  <2>2. stream' = [stream EXCEPT ![c] = Append(stream[c], m)]
    BY <1>1
  <2>3. /\ Append(stream[c], m) \in Seq(Messages)
        /\ Len(Append(stream[c], m)) = Len(stream[c]) + 1
        /\ Append(stream[c], m)[Len(stream[c]) + 1] = m
        /\ \A i \in 1 .. Len(stream[c]) : Append(stream[c], m)[i] = stream[c][i]
    BY <1>3, <2>1
  <2> QED
    BY <1>2, <2>1, <2>2, <2>3
<1>6. /\ trimmed' = [d \in Codes |-> trimmed'[d]]
      /\ trimmed'[c] \in trimmed[c] .. Len(stream[c]) + 1
      /\ \A d \in Codes \ {c} : trimmed'[d] = trimmed[d]
  <2>1. trimmed = [d \in Codes |-> trimmed[d]] /\ trimmed[c] \in 0 .. Len(stream[c])
    BY <1>2 DEF StreamInv
  <2>2. CASE UNCHANGED trimmed
    BY <1>5, <2>1, <2>2
  <2>3. ASSUME NEW n \in trimmed[c] .. length - config.maxLen, trimmed' = [trimmed EXCEPT ![c] = n]
        PROVE  /\ trimmed' = [d \in Codes |-> trimmed'[d]]
               /\ trimmed'[c] \in trimmed[c] .. Len(stream[c]) + 1
               /\ \A d \in Codes \ {c} : trimmed'[d] = trimmed[d]
    <3>1. trimmed' = [d \in Codes |-> trimmed'[d]] /\ trimmed'[c] = n
          /\ \A d \in Codes \ {c} : trimmed'[d] = trimmed[d]
      BY <1>2, <2>1, <2>3
    <3>2. n \in trimmed[c] .. Len(stream[c]) + 1
      BY <1>2, <1>5, <2>1, <2>3
    <3> QED
      BY <3>1, <3>2
  <2> QED
    BY <1>1, <2>2, <2>3
<1>7. \A d \in Codes : /\ Len(stream'[d]) >= Len(stream[d]) /\ trimmed'[d] >= trimmed[d]
                       /\ trimmed'[d] \in 0 .. Len(stream'[d])
                       /\ \A i \in 1 .. Len(stream[d]) : stream'[d][i] = stream[d][i]
  <2> SUFFICES ASSUME NEW d \in Codes
               PROVE  /\ Len(stream'[d]) >= Len(stream[d]) /\ trimmed'[d] >= trimmed[d]
                      /\ trimmed'[d] \in 0 .. Len(stream'[d])
                      /\ \A i \in 1 .. Len(stream[d]) : stream'[d][i] = stream[d][i]
    OBVIOUS
  <2>1. trimmed[d] \in 0 .. Len(stream[d]) /\ Len(stream[d]) \in Nat
    BY DEF StreamInv
  <2>2. CASE d = c
    BY <1>5, <1>6, <2>1, <2>2
  <2>3. CASE d # c
    BY <1>5, <1>6, <2>1, <2>3
  <2> QED
    BY <2>2, <2>3
<1>8. ASSUME NEW d \in Codes, NEW i \in 1 .. Len(stream'[d])
      PROVE  \E q \in Requests : Origin(q, d, stream'[d][i])
  <2>1. CASE i \in 1 .. Len(stream[d])
    <3>1. stream'[d][i] = stream[d][i]
      BY <1>7, <2>1
    <3> QED
      BY <2>1, <3>1 DEF StreamInv
  <2>2. CASE i \notin 1 .. Len(stream[d])
    <3>1. d = c /\ i = Len(stream[c]) + 1
      BY <1>5, <1>8, <2>2
    <3> QED
      BY <1>4, <1>5, <3>1
  <2> QED
    BY <2>1, <2>2
<1>9. \A d \in Codes : \A i \in 1 .. Len(stream'[d]) :
          \E q \in Requests : Origin(q, d, stream[d][i])'
  BY <1>1, <1>8 DEF Origin
<1> QED
  BY <1>1, <1>5, <1>6, <1>7, <1>9, <1>13 DEF StreamInv

\* What a request that is served has for a click.
LEMMA ServedClick ==
    ASSUME RequestsInv, SignInTypeOK, StoreInv, StreamInv, NEW r \in Requests, Serve(r)
    PROVE  /\ web[r].click = <<>> /\ ClickOK(web'[r]) /\ UNCHANGED <<stream, trimmed>>
           /\ \A q \in Requests \ {r} : web'[q] = web[q]
<1> DEFINE a == web[r]
<1>0. Typed(a) /\ web = [q \in Requests |-> web[q]] /\ ClickOK(web[r]) /\ UnderWay(r) /\ WebInv
  BY DEF RequestsInv, StreamInv, WebInv, Typed
<1>1. a.stage \notin {"new", "done"} /\ \A q \in Requests \ {r} : web'[q] = web[q]
  BY <1>0, ServeStep DEF Serve, SignInRuns, LinkRuns, Reply, Availability, ListMine, Owned,
                         Exists, NextPage
<1>2. a.click = <<>>
  BY <1>0, <1>1 DEF Typed, ClickOK
<1>3. UNCHANGED <<stream, trimmed>>
  BY DEF Serve, SignInRuns, LinkRuns, Reply, Availability, ListMine, Owned, Exists, NextPage,
         click_vars
<1> SUFFICES ClickOK(web'[r])
  BY <1>1, <1>2, <1>3
<1>4. ASSUME NEW w, web' = [web EXCEPT ![r] = w], w.click = <<>> PROVE ClickOK(web'[r])
  BY <1>0, <1>4 DEF ClickOK
<1>5. CASE UNCHANGED web
  BY <1>5, <1>0
<1>6. CASE Reply(r)
  <2> DEFINE w == Telling(a, StatusOf(a.op, req[r].answer), Content(r), Recorded(r))
  <2>1. web' = [web EXCEPT ![r] = w] /\ a.stage = "link" /\ req[r].pc = "done"
    BY <1>6 DEF Reply
  <2>2. StatusOf(a.op, req[r].answer) \in Statuses
    <3>1. req[r].op # "shorten_random"
      BY <1>0, <2>1 DEF UnderWay, LinkOps
    <3> QED
      BY <2>1, <3>1, LinkStatuses DEF Statuses
  <2>3. /\ w.click = Recorded(r) /\ SameRequest(a, w)
        /\ w.status = StatusOf(a.op, req[r].answer)
    BY <1>0, <2>2, OnwardClick, OnwardFields
  <2> HIDE DEF w
  <2>4. CASE Recorded(r) = <<>>
    BY <1>4, <2>1, <2>3, <2>4
  <2>5. CASE Recorded(r) # <<>>
    <3>1. /\ a.op = "redirect" /\ req[r].answer = "found" /\ Recorded(r) = <<Seen(a.visit, now)>>
      BY <2>5 DEF Recorded, Seen
    <3>2. w.status = 302
      BY <2>3, <3>1 DEF StatusOf, Success
    <3>3. web'[r] = w /\ now \in 0 .. MaxNow
      BY <1>0, <2>1 DEF SignInTypeOK
    <3>4. /\ web'[r].op = "redirect" /\ web'[r].status = 302 /\ web'[r].visit = a.visit
          /\ web'[r].click = <<Seen(a.visit, now)>>
      BY <2>3, <3>1, <3>2, <3>3 DEF SameRequest
    <3> HIDE DEF a
    <3> QED
      BY <3>3, <3>4 DEF ClickOK
  <2> QED
    BY <2>4, <2>5
<1>7. CASE \/ \E s : web' = [web EXCEPT ![r] = Answered(a, s)]
           \/ \E s : web' = [web EXCEPT ![r] = At(a, s)]
           \/ \E x : web' = [web EXCEPT ![r] = Showing(a, x)]
  BY <1>0, <1>2, <1>4, <1>7, OnwardClick
<1>8. CASE NextPage(r)
  <2> DEFINE b == Read(a, Older(r))
  <2>1. Typed(b) /\ b.click = <<>>
    BY <1>0, <1>2, OnwardClick, OnwardFields
  <2>2. \/ web' = [web EXCEPT ![r] = At(b, "exists")]
        \/ \E x : web' = [web EXCEPT ![r] = Showing(b, x)]
    BY <1>8 DEF NextPage
  <2> HIDE DEF b
  <2> QED
    BY <1>4, <2>1, <2>2, OnwardClick
<1>9. CASE SignInRuns(r) \/ LinkRuns(r) \/ Availability(r) \/ ListMine(r) \/ Owned(r) \/ Exists(r)
  BY <1>5, <1>7, <1>9 DEF SignInRuns, LinkRuns, Availability, ListMine, Owned, Exists, Finish,
                          Goto, ShowLink
<1> QED
  BY <1>6, <1>8, <1>9 DEF Serve

LEMMA StreamStep ==
    ASSUME RequestsInv, SignInTypeOK, StoreInv, StreamInv, [GatewayNext]_gateway_vars
    PROVE  StreamInv'
<1>1. CASE GatewayTick \/ GatewayRotate \/ UNCHANGED gateway_vars
  <2>1. UNCHANGED <<stream, trimmed, web>>
    BY <1>1 DEF GatewayTick, GatewayRotate, gateway_vars, click_vars
  <2>2. \A q, d, x : Origin(q, d, x)' <=> Origin(q, d, x)
    BY <2>1 DEF Origin
  <2>3. \A q \in Requests : ClickOK(web'[q])
    BY <2>1 DEF StreamInv
  <2> QED
    BY <2>1, <2>2, <2>3 DEF StreamInv
<1>2. ASSUME NEW r \in Requests, Arrive(r) PROVE StreamInv'
  <2>1. PICK a \in Arrivals : \E w : Arrived(r, a, w)
    BY <1>2, Arrives
  <2>2. PICK w : Arrived(r, a, w)
    BY <2>1
  <2>3. /\ web' = [web EXCEPT ![r] = w] /\ w.click = <<>> /\ UNCHANGED <<stream, trimmed>>
        /\ web[r].stage = "new"
    BY <1>2, <2>2, Arrives DEF Arrived
  <2>4. web'[r] = w /\ \A q \in Requests \ {r} : web'[q] = web[q]
    BY <2>3 DEF RequestsInv
  <2>5. web[r].click = <<>>
    <3>1. ClickOK(web[r]) /\ web[r].status = 0
      BY <2>3 DEF RequestsInv, Typed, StreamInv
    <3> QED
      BY <3>1 DEF ClickOK
  <2>6. ClickOK(web'[r])
    BY <2>3, <2>4 DEF ClickOK
  <2> QED
    BY <2>3, <2>4, <2>5, <2>6, ClickStays
<1>3. ASSUME NEW r \in Requests, Serve(r) PROVE StreamInv'
  BY <1>3, ServedClick, ClickStays
<1>4. ASSUME NEW r \in Requests, Flush(r) PROVE StreamInv'
  BY <1>4, FlushStep
<1> QED
  BY <1>1, <1>2, <1>3, <1>4 DEF GatewayNext

LEMMA RequestsInit ==
    ASSUME GatewayInit
    PROVE  RequestsInv /\ OutcomesInv /\ QuotaInv /\ StreamInv
<1>1. \A r \in Requests : web[r] = NewRequest
  BY DEF GatewayInit
<1>2. RequestsInv
  <2>1. \A r \in Requests : Typed(web[r]) /\ web[r].stage = "new"
    BY <1>1, NewRequestTyped
  <2> QED
    BY <2>1 DEF GatewayInit, RequestsInv, UnderWay
<1>3. OutcomesInv
  BY DEF GatewayInit, AuthInit, OutcomesInv
<1>4. QuotaInv
  <2>1. \A r \in Requests : web[r].stage = "new" /\ web[r].status = 0
    BY <1>1, NewRequestTyped
  <2>2. OrderInv
    BY <2>1 DEF OrderInv
  <2>3. config \in Configs /\ now = 0 /\ tat = [k \in Scopes \X Clients |-> 0]
    BY DEF GatewayInit, AuthInit
  <2>4. \A s, b : Cardinality(Counted(s, b)) \in Nat
    BY <2>2, <2>3, CountedFinite
  <2> QED
    BY <2>1, <2>2, <2>3, <2>4 DEF QuotaInv
<1>5. StreamInv
  <2>1. \A r \in Requests : ClickOK(web[r])
    <3>1. NewRequest.click = <<>>
      BY DEF NewRequest
    <3> QED
      BY <1>1, <3>1 DEF ClickOK
  <2>2. /\ stream = [c \in Codes |-> <<>>] /\ trimmed = [c \in Codes |-> 0]
        /\ <<>> \in Seq(Messages) /\ Len(<<>>) = 0
    BY DEF GatewayInit
  <2>3. /\ stream \in [Codes -> Seq(Messages)] /\ \A c \in Codes : Len(stream[c]) = 0
        /\ trimmed = [c \in Codes |-> trimmed[c]] /\ \A c \in Codes : trimmed[c] = 0
    BY <2>2
  <2> QED
    BY <2>1, <2>3 DEF StreamInv
<1> QED
  BY <1>2, <1>3, <1>4, <1>5

\* The inductive invariant of requests.
GatewayInv == RequestsInv /\ OutcomesInv /\ QuotaInv /\ StreamInv

\* Requests under way are what their stage says, their sign-ins and accesses to the
\* store are theirs, and no bucket of the limiter holds more than it was given.
THEOREM GatewayInvariant == Spec => [](SignInTypeOK /\ StoreInv /\ GatewayInv)
<1>1. Spec => []SignInTypeOK
  BY SignInImplemented, SignInTyped, PTL DEF SignInRunsAlone
<1>2. WebInv /\ SignInTypeOK /\ StoreInv /\ GatewayInv /\ [GatewayNext]_gateway_vars => GatewayInv'
  BY AuthStep, OutcomesStep, RequestsStep, QuotaStep, StreamStep DEF GatewayInv
<1>3. GatewayInit => GatewayInv
  BY RequestsInit DEF GatewayInv
<1> QED
  BY <1>1, <1>2, <1>3, StoreInvariant, WebInit, WebStep, PTL DEF Spec

\* config.go:99, the quota is "per client IP, endpoint scope": whoever is turned away
\* has used up the quota of that endpoint by requests of their own, however requests,
\* failures of Redis and time interleave; and every request is well-formed at every
\* moment.
THEOREM RequestsAreOK == Spec => []RequestsOK
<1>1. SignInTypeOK /\ GatewayInv => TypeOK
  <2> SUFFICES ASSUME SignInTypeOK, GatewayInv PROVE TypeOK
    OBVIOUS
  <2>1. \A c \in Codes : trimmed[c] \in 0 .. Len(stream[c])
    BY DEF GatewayInv, StreamInv
  <2>2. config \in Configs /\ tat \in [Scopes \X Clients -> Nat]
    BY DEF GatewayInv, RequestsInv, QuotaInv
  <2>3. ASSUME NEW r \in Requests
        PROVE  /\ web[r].op \in Ops /\ web[r].client \in Clients /\ web[r].code \in Codes
               /\ web[r].user \in Subs \cup {NoUser}
               /\ web[r].stage \in {"new", "sign_in", "link", "availability", "list", "owned",
                                    "exists", "page", "done"}
               /\ web[r].status \in {0, 200, 201, 204, 302, 400, 401, 403, 404, 409, 429, 503}
               /\ web[r].status # 0 <=> web[r].stage = "done"
    <3>1. Typed(web[r])
      BY DEF GatewayInv, RequestsInv
    <3> QED
      BY <3>1 DEF Typed, WebStages, Statuses
  <2> QED
    BY <2>1, <2>2, <2>3 DEF TypeOK
<1>2. GatewayInv => LimitedByOwnRequests
  <2> SUFFICES ASSUME GatewayInv, NEW r \in Requests, web[r].status = 429
               PROVE  Cardinality({q \in Requests : /\ q < r /\ web[q].client = web[r].client
                                      /\ Endpoint(web[q].op) = Endpoint(web[r].op)
                                      /\ web[q].status # 429}) >= config.perHour
    BY DEF LimitedByOwnRequests
  <2> QED
    BY DEF GatewayInv, QuotaInv, Before
<1> QED
  BY <1>1, <1>2, GatewayInvariant, PTL DEF RequestsOK

-------------------------------------------------------------------------------
(* Answers were true                                                       *)

\* When request a may have seen the link of code d in a history, and as what.
Moments(a, l, d) == a.since[d] .. Len(l[d])
Was(a, l, d) == {l[d][i] : i \in Moments(a, l, d)}

\* Whoever sent a may manage v.
Manageable(a, v) == v # Absent /\ Links!MayManage(v, a.user)

Lapsed(v, t) == v.expires # -1 /\ t > v.expires

\* When a began the link was no older than it may become.
Live(a, v) == v # Absent /\ (v.expires = -1 \/ a.began <= v.expires)

\* Nothing to resolve, or nothing at all, at time t.
Missing(a, v, t) ==
    v = Absent \/ (LinkOps[a.op] = "resolve" /\ (v.disabled \/ Lapsed(v, t)))

\* AnswersWereTrue of one request: what was seen at one moment,
TrueOnce(a, seen, t) ==
    /\ a.status = 403 => \E v \in seen : v # Absent /\ ~Manageable(a, v)
    /\ a.status = 404 /\ a.op \in Reads => Absent \in seen
    /\ a.status = 404 /\ a.op \in DOMAIN LinkOps => \E v \in seen : Missing(a, v, t)
    /\ a.status = 200 /\ a.op \in {"stats", "get_status", "update", "disable", "enable"}
         => \E v \in seen : Manageable(a, v) /\ a.shown = <<v>>
    /\ a.status = 201 /\ a.op = "shorten" =>
         Absent \in seen /\ \E v \in seen : v # Absent /\ v.owner = a.user
    /\ a.status = 409 => \E v \in seen : v # Absent
    /\ a.status = 200 /\ a.op = "availability" => \E v \in seen : a.shown = <<v = Absent>>

\* one thing after the other,
ResolvedIn(a, h, span) ==
    \E i, j \in span : /\ i <= j /\ Live(a, h[i]) /\ ~h[i].disabled
                       /\ h[j] # Absent /\ a.shown = <<h[j]>>
ReadIn(a, h, span) == \E i, j \in span : i <= j /\ Manageable(a, h[i]) /\ h[j] # Absent
RemovedIn(a, h, span) == \E i, j \in span : i < j /\ Manageable(a, h[i]) /\ h[j] = Absent

TrueInOrder(a, h, span) ==
    /\ a.status \in {200, 302} /\ a.op \in {"redirect", "resolve", "lookup"} => ResolvedIn(a, h, span)
    /\ a.status = 200 /\ a.op \in {"clicks", "analytics"} => ReadIn(a, h, span)
    /\ a.status = 204 /\ a.op = "delete" => RemovedIn(a, h, span)

\* and the links of a list.
ListedAs(a, v) == Live(a, v) /\ v.owner = a.user
LeftOut(a, v, t) == v = Absent \/ v.owner # a.user \/ Lapsed(v, t)
TrueOfList(a, l, t) ==
    a.status = 200 /\ a.op = "list" => \A d \in Codes :
        IF d \in a.shown THEN \E v \in Was(a, l, d) : ListedAs(a, v)
        ELSE \E v \in Was(a, l, d) : LeftOut(a, v, t)

TrueOf(a, l, t) ==
    /\ TrueOnce(a, Was(a, l, a.code), t)
    /\ TrueInOrder(a, l[a.code], Moments(a, l, a.code))
    /\ TrueOfList(a, l, t)

\* The request knows when it began, what the histories were then,
Begun(r) ==
    web[r].stage # "new" => /\ web[r].began \in Nat /\ web[r].began <= now
                            /\ \A d \in Codes : web[r].since[d] \in 1 .. Len(log[d])

\* what its request to the link service found,
PathOf(r) ==
    \A t \in Nat : web[r].stage = "link" /\ web[r].began = t => Store!Path(r, t)

\* what it will have seen, and that its answer was true.
Witnessed(r) ==
    /\ web[r].stage = "exists" =>
         \E v \in Was(web[r], log, web[r].code) : Manageable(web[r], v)
    /\ web[r].stage = "page" =>
         ReadIn(web[r], log[web[r].code], Moments(web[r], log, web[r].code))
    /\ TrueOf(web[r], log, now)

WitnessInv == \A r \in Requests : Begun(r) /\ PathOf(r) /\ Witnessed(r)

LEMMA MomentsGrow ==
    ASSUME NEW a, NEW old, NEW new, Grows(old, new), NEW d \in Codes,
           a.since[d] \in 1 .. Len(old[d])
    PROVE  /\ Moments(a, old, d) \subseteq Moments(a, new, d) /\ Moments(a, old, d) \subseteq Nat
           /\ \A i \in Moments(a, old, d) :
                new[d][i] = old[d][i] /\ old[d][i] \in Links!Values /\ i <= Len(old[d])
           /\ Was(a, old, d) \subseteq Was(a, new, d) /\ Was(a, old, d) \subseteq Links!Values
           /\ Len(old[d]) \in Moments(a, old, d) /\ old[d][Len(old[d])] \in Was(a, old, d)
           /\ a.since[d] \in 1 .. Len(new[d])
<1> DEFINE m == Len(old[d])
           n == Len(new[d])
           s == a.since[d]
<1>1. /\ m \in Nat /\ n \in Nat /\ m >= 1 /\ n >= m
      /\ \A i \in 1 .. m : new[d][i] = old[d][i] /\ old[d][i] \in Links!Values
  BY DEF Grows
<1>2. Moments(a, old, d) = s .. m /\ Moments(a, new, d) = s .. n /\ s \in 1 .. m
  BY DEF Moments
<1> HIDE DEF m, n, s
<1>3. /\ Moments(a, old, d) \subseteq Moments(a, new, d) /\ Moments(a, old, d) \subseteq Nat
      /\ \A i \in Moments(a, old, d) :
           new[d][i] = old[d][i] /\ old[d][i] \in Links!Values /\ i <= m
      /\ m \in Moments(a, old, d) /\ s \in 1 .. n
  BY <1>1, <1>2
<1>4. /\ Was(a, old, d) \subseteq Was(a, new, d) /\ Was(a, old, d) \subseteq Links!Values
      /\ old[d][m] \in Was(a, old, d)
  BY <1>3 DEF Was
<1> QED
  BY <1>3, <1>4 DEF m, n, s

\* What was true of a request stays true while its link is written and time passes.
LEMMA TrueStays ==
    ASSUME NEW a, NEW old, NEW new, Grows(old, new), a.code \in Codes,
           \A d \in Codes : a.since[d] \in 1 .. Len(old[d]),
           NEW t \in Nat, NEW u \in Nat, u >= t, TrueOf(a, old, t)
    PROVE  TrueOf(a, new, u)
<1>1. \A v \in Links!Values : v # Absent /\ Lapsed(v, t) => Lapsed(v, u)
  <2> SUFFICES ASSUME NEW v \in Links!Values, v # Absent, v.expires # -1, t > v.expires
               PROVE  u > v.expires
    BY DEF Lapsed
  <2>1. v.expires \in Int
    BY DEF Links!Values, Links!Records
  <2> QED
    BY <2>1
<1>2. \A d \in Codes : Was(a, old, d) \subseteq Was(a, new, d) /\ Was(a, old, d) \subseteq Links!Values
  BY MomentsGrow
<1>3. TrueOnce(a, Was(a, new, a.code), u)
  <2> DEFINE seen == Was(a, old, a.code)
             more == Was(a, new, a.code)
  <2>1. seen \subseteq more /\ seen \subseteq Links!Values /\ TrueOnce(a, seen, t)
    BY <1>2 DEF TrueOf
  <2> HIDE DEF seen, more
  <2>2. \A v \in seen : Missing(a, v, t) => Missing(a, v, u)
    BY <1>1, <2>1 DEF Missing
  <2>3. TrueOnce(a, more, u)
    BY <2>1, <2>2 DEF TrueOnce
  <2> QED
    BY <2>3 DEF more
<1>4. TrueInOrder(a, new[a.code], Moments(a, new, a.code))
  <2> DEFINE h == old[a.code]
             g == new[a.code]
             s == Moments(a, old, a.code)
             z == Moments(a, new, a.code)
  <2>1. s \subseteq z /\ \A i \in s : g[i] = h[i]
    BY MomentsGrow
  <2>4. TrueInOrder(a, h, s)
    BY DEF TrueOf
  <2> HIDE DEF h, g, s, z
  <2>2. /\ ResolvedIn(a, h, s) => ResolvedIn(a, g, z)
        /\ ReadIn(a, h, s) => ReadIn(a, g, z)
        /\ RemovedIn(a, h, s) => RemovedIn(a, g, z)
    BY <2>1 DEF ResolvedIn, ReadIn, RemovedIn
  <2>3. TrueInOrder(a, g, z)
    BY <2>2, <2>4 DEF TrueInOrder
  <2> QED
    BY <2>3 DEF g, z
<1>5. TrueOfList(a, new, u)
  <2> SUFFICES ASSUME a.status = 200, a.op = "list", NEW d \in Codes
               PROVE  IF d \in a.shown THEN \E v \in Was(a, new, d) : ListedAs(a, v)
                      ELSE \E v \in Was(a, new, d) : LeftOut(a, v, u)
    BY DEF TrueOfList
  <2>1. IF d \in a.shown THEN \E v \in Was(a, old, d) : ListedAs(a, v)
        ELSE \E v \in Was(a, old, d) : LeftOut(a, v, t)
    BY DEF TrueOf, TrueOfList
  <2>2. \A v \in Was(a, old, d) : LeftOut(a, v, t) => LeftOut(a, v, u)
    BY <1>1, <1>2 DEF LeftOut
  <2> QED
    BY <1>2, <2>1, <2>2
<1> QED
  BY <1>3, <1>4, <1>5 DEF TrueOf

\* A request that has no answer yet, or one that tells nothing of a link.
LEMMA TellsNothing ==
    ASSUME NEW a, NEW l, NEW t,
           \/ a.status \in {0, 400, 401, 429, 503}
           \/ a.op \in {"login", "logout", "me"} /\ a.status \in {200, 204}
    PROVE  TrueOf(a, l, t)
<1>1. CASE a.status \in {0, 400, 401, 429, 503}
  BY <1>1 DEF TrueOf, TrueOnce, TrueInOrder, TrueOfList
<1>2. CASE a.op \in {"login", "logout", "me"} /\ a.status \in {200, 204}
  BY <1>2 DEF TrueOf, TrueOnce, TrueInOrder, TrueOfList, Reads
<1> QED
  BY <1>1, <1>2

LEMMA SameWas ==
    ASSUME NEW a, NEW b, SameRequest(a, b), NEW l
    PROVE  /\ \A d : Was(b, l, d) = Was(a, l, d) /\ Moments(b, l, d) = Moments(a, l, d)
           /\ \A v : /\ Manageable(b, v) <=> Manageable(a, v)
                     /\ Live(b, v) <=> Live(a, v)
           /\ \A h, s : ReadIn(b, h, s) <=> ReadIn(a, h, s)
<1>1. b.since = a.since /\ b.user = a.user /\ b.began = a.began
  BY DEF SameRequest
<1>2. \A d : Moments(b, l, d) = Moments(a, l, d)
  BY <1>1 DEF Moments
<1>3. \A v : (Manageable(b, v) <=> Manageable(a, v)) /\ (Live(b, v) <=> Live(a, v))
  BY <1>1 DEF Manageable, Live
<1> QED
  BY <1>2, <1>3 DEF Was, ReadIn

\* What a reply of the link service says, and shows, was so.
LEMMA ReplyTrue ==
    ASSUME RequestsInv, StoreInv, NEW r \in Requests, Begun(r), PathOf(r),
           web[r].stage = "link", req[r].pc = "done", NEW w, SameRequest(web[r], w),
           w.status = StatusOf(w.op, req[r].answer), w.shown = Content(r), w.op = web[r].op
    PROVE  TrueOf(w, log, now)
<1> DEFINE seen == Was(w, log, w.code)
           span == Moments(w, log, w.code)
           h == log[w.code]
<1>1. /\ w.op \in DOMAIN LinkOps /\ req[r].op = LinkOps[w.op] /\ req[r].code = w.code
      /\ req[r].by = w.user /\ req[r].since = w.since[w.code]
      /\ w.began = web[r].began /\ w.began \in Nat
  BY DEF RequestsInv, UnderWay, SameRequest, Begun
<1>2. /\ Store!Truthful(r) /\ Store!Was(r) = seen /\ Store!Held(r) = seen \ {Absent}
      /\ Store!Span(r) = span
  <2>1. Store!Was(r) = seen /\ Store!Span(r) = span
    BY <1>1 DEF Store!Was, Was, Moments, Store!Span
  <2> QED
    BY <2>1 DEF StoreInv, Store!Truth, Store!Held
<1>3. Store!Path(r, w.began)
  BY <1>1 DEF PathOf
<1>4. /\ \A v : Store!Expired(v) <=> Lapsed(v, now)
      /\ \A v : Store!MayManage(v, w.user) <=> Links!MayManage(v, w.user)
      /\ \A v : Store!Manageable(v, w.user) <=> Manageable(w, v)
      /\ \A v : Store!Servable(v, w.began) <=> Live(w, v) /\ ~v.disabled
  BY SameService DEF Store!Expired, Store!Never, Lapsed, Store!Manageable, Manageable,
                     Store!Servable, Live
<1>5. h = log[req[r].code]
  BY <1>1
<1>6. LinkOps[w.op] # "shorten_random" /\ DOMAIN LinkOps = {"shorten", "redirect", "resolve",
            "lookup", "update", "disable", "enable", "delete"}
  BY <1>1 DEF LinkOps
<1>7. req[r].answer \in {"ok", "found", "not_found", "conflict", "denied"}
  BY <1>1, <1>6, LinkStatuses
<1>8. TrueOfList(w, log, now)
  BY <1>1, <1>6 DEF TrueOfList
<1>9. ASSUME TrueOnce(w, seen, now), TrueInOrder(w, h, span) PROVE TrueOf(w, log, now)
  BY <1>8, <1>9 DEF TrueOf
<1> HIDE DEF seen, span, h
<1>10. ASSUME w.status \notin {200, 204, 302} PROVE TrueInOrder(w, h, span)
  BY <1>10 DEF TrueInOrder
<1>11. w.op \notin Reads \cup {"availability", "list"}
  BY <1>1, <1>6 DEF Reads
<1>12. CASE req[r].answer = "not_found"
  <2>1. w.status = 404
    BY <1>12 DEF StatusOf
  <2>2. \E v \in seen : Missing(w, v, now)
    BY <1>1, <1>2, <1>4, <1>12 DEF Store!Truthful, Store!Answered, Missing
  <2> QED
    BY <1>9, <1>10, <1>11, <2>1, <2>2 DEF TrueOnce
<1>13. CASE req[r].answer = "conflict"
  <2>1. w.status = 409
    BY <1>13 DEF StatusOf
  <2>2. \E v \in seen : v # Absent
    BY <1>2, <1>13 DEF Store!Truthful, Store!Answered
  <2> QED
    BY <1>9, <1>10, <2>1, <2>2 DEF TrueOnce
<1>14. CASE req[r].answer = "denied"
  <2>1. w.status = 403
    BY <1>14 DEF StatusOf
  <2>2. \E v \in seen : v # Absent /\ ~Manageable(w, v)
    BY <1>1, <1>2, <1>4, <1>14 DEF Store!Truthful, Store!Answered, Manageable
  <2> QED
    BY <1>9, <1>10, <2>1, <2>2 DEF TrueOnce
<1>15. CASE req[r].answer = "found"
  <2>1. LinkOps[w.op] = "resolve"
    BY <1>1, <1>2, <1>15 DEF Store!Truthful, Store!Answered
  <2>2. w.op \in {"redirect", "resolve", "lookup"}
    BY <1>1, <2>1 DEF LinkOps
  <2>3. w.status \in {200, 302} /\ w.shown = <<req[r].saw>>
    BY <1>15, <2>2 DEF StatusOf, Success, Content
  <2>4. PICK i \in span, j \in span :
           i <= j /\ Store!Servable(h[i], w.began) /\ h[j] # Absent /\ req[r].saw = h[j]
    BY <1>2, <1>3, <1>5, <1>15 DEF Store!Path, Store!Answered
  <2>5. ResolvedIn(w, h, span)
    BY <1>4, <2>3, <2>4 DEF ResolvedIn
  <2>6. TrueInOrder(w, h, span)
    BY <2>2, <2>5 DEF TrueInOrder
  <2>7. TrueOnce(w, seen, now)
    BY <2>2, <2>3 DEF TrueOnce
  <2> QED
    BY <1>9, <2>6, <2>7
<1>16. CASE req[r].answer = "ok"
  <2>1. /\ LinkOps[w.op] # "resolve"
        /\ LinkOps[w.op] = "shorten" =>
             Absent \in seen /\ \E v \in seen : v # Absent /\ v.owner = w.user
    BY <1>1, <1>2, <1>16 DEF Store!Truthful, Store!Answered, Store!Shortening
  <2>2. w.op \in {"shorten", "update", "disable", "enable", "delete"}
    BY <1>1, <1>6, <2>1 DEF LinkOps
  <2>3. CASE w.op = "shorten"
    <3>1. w.status = 201
      BY <1>16, <2>3 DEF StatusOf, Success
    <3>2. LinkOps[w.op] = "shorten"
      BY <2>3 DEF LinkOps
    <3>3. TrueOnce(w, seen, now)
      BY <2>1, <2>3, <3>1, <3>2 DEF TrueOnce
    <3> QED
      BY <1>9, <1>10, <3>1, <3>3
  <2>4. CASE w.op \in {"update", "disable", "enable"}
    <3>1. w.status = 200 /\ w.shown = <<req[r].put>>
      BY <1>16, <2>4 DEF StatusOf, Success, Content
    <3>2. req[r].op \in Store!Editing
      BY <1>1, <2>4 DEF LinkOps, Store!Editing
    <3>3. req[r].put \in seen
      BY <1>2, <1>16, <3>2 DEF Store!Truthful, Store!Answered
    <3>4. Store!Manageable(req[r].put, w.user)
      BY <1>1, <1>3, <1>16, <3>2 DEF Store!Path, Store!Answered
    <3>5. TrueOnce(w, seen, now)
      BY <1>4, <2>4, <3>1, <3>3, <3>4 DEF TrueOnce
    <3>6. TrueInOrder(w, h, span)
      BY <2>4, <3>1 DEF TrueInOrder
    <3> QED
      BY <1>9, <3>5, <3>6
  <2>5. CASE w.op = "delete"
    <3>1. w.status = 204 /\ req[r].op = "delete_as"
      BY <1>1, <1>16, <2>5 DEF StatusOf, Success, LinkOps
    <3>2. PICK i \in span, j \in span :
             i < j /\ Store!Manageable(h[i], w.user) /\ h[j] = Absent
      BY <1>1, <1>2, <1>3, <1>5, <1>16, <3>1 DEF Store!Path, Store!Answered
    <3>3. RemovedIn(w, h, span)
      BY <1>4, <3>2 DEF RemovedIn
    <3>4. TrueOnce(w, seen, now)
      BY <2>5, <3>1 DEF TrueOnce
    <3>5. TrueInOrder(w, h, span)
      BY <2>5, <3>1, <3>3 DEF TrueInOrder
    <3> QED
      BY <1>9, <3>4, <3>5
  <2> QED
    BY <2>2, <2>3, <2>4, <2>5
<1> QED
  BY <1>7, <1>12, <1>13, <1>14, <1>15, <1>16

\* Every link as it is now is among what a request has seen.
LEMMA SeesLatest ==
    ASSUME RequestsInv, StoreInv, NEW r \in Requests, Begun(r), web[r].stage # "new"
    PROVE  /\ Grows(log, log) /\ \A d \in Codes : Links!Latest(d) = log[d][Len(log[d])]
           /\ \A d \in Codes : /\ Links!Latest(d) \in Was(web[r], log, d)
                               /\ Links!Latest(d) \in Links!Values
           /\ web[r].code \in Codes /\ Link(r) \in Was(web[r], log, web[r].code)
<1>1. Grows(log, log) /\ \A c \in Codes : Links!Latest(c) = log[c][Len(log[c])]
  <2>1. /\ \A c \in Codes : Len(log[c]) \in Nat /\ Len(log[c]) >= 1
        /\ \A c \in Codes : \A i \in 1 .. Len(log[c]) : log[c][i] \in Links!Values
    BY SameService DEF StoreInv, Store!LinkInv, Store!TypeOK
  <2> QED
    BY <2>1, SameService DEF Grows, Store!Latest
<1>2. web[r].code \in Codes /\ \A d \in Codes : web[r].since[d] \in 1 .. Len(log[d])
  BY DEF Begun, RequestsInv, Typed
<1>3. \A d \in Codes : /\ Links!Latest(d) \in Was(web[r], log, d)
                       /\ Links!Latest(d) \in Links!Values
  <2> SUFFICES ASSUME NEW d \in Codes
               PROVE  /\ Links!Latest(d) \in Was(web[r], log, d)
                      /\ Links!Latest(d) \in Links!Values
    OBVIOUS
  <2>1. /\ log[d][Len(log[d])] \in Was(web[r], log, d)
        /\ Was(web[r], log, d) \subseteq Links!Values
    BY <1>1, <1>2, MomentsGrow
  <2> QED
    BY <1>1, <2>1
<1> QED
  BY <1>1, <1>2, <1>3 DEF Link

LEMMA BegunStays ==
    ASSUME NEW r, Begun(r), web[r].stage # "new", NEW w, web'[r] = w,
           w.since = web[r].since, w.began = web[r].began,
           now \in Nat, now' \in Nat, now' >= now, Grows(log, log')
    PROVE  Begun(r)'
<1>1. \A d \in Codes : w.since[d] \in 1 .. Len(log'[d])
  <2> SUFFICES ASSUME NEW d \in Codes PROVE w.since[d] \in 1 .. Len(log'[d])
    OBVIOUS
  <2>1. /\ w.since[d] \in 1 .. Len(log[d]) /\ Len(log[d]) \in Nat /\ Len(log'[d]) \in Nat
        /\ Len(log'[d]) >= Len(log[d])
    BY DEF Begun, Grows
  <2> QED
    BY <2>1
<1>2. w.began \in Nat /\ w.began <= now'
  BY DEF Begun
<1> QED
  BY <1>1, <1>2 DEF Begun

LEMMA ReadStays ==
    ASSUME NEW a, NEW old, NEW new, Grows(old, new), NEW d \in Codes,
           a.since[d] \in 1 .. Len(old[d]), ReadIn(a, old[d], Moments(a, old, d))
    PROVE  ReadIn(a, new[d], Moments(a, new, d))
<1>1. PICK i \in Moments(a, old, d), j \in Moments(a, old, d) :
         i <= j /\ Manageable(a, old[d][i]) /\ old[d][j] # Absent
  BY DEF ReadIn
<1>2. /\ Moments(a, old, d) \subseteq Moments(a, new, d)
      /\ \A k \in Moments(a, old, d) :
           new[d][k] = old[d][k] /\ old[d][k] \in Links!Values /\ k <= Len(old[d])
  BY MomentsGrow, Zenon
<1> QED
  BY <1>1, <1>2 DEF ReadIn

LEMMA StaysWitnessed ==
    ASSUME WitnessInv, RequestsInv, StoreInv, [Links!Next]_(Links!vars), NEW r \in Requests,
           web'[r] = web[r], web[r].stage = "link" => req'[r] = req[r]
    PROVE  Begun(r)' /\ PathOf(r)' /\ Witnessed(r)'
<1> DEFINE a == web[r]
<1>1. Typed(a) /\ Begun(r) /\ PathOf(r) /\ Witnessed(r)
  BY DEF WitnessInv, RequestsInv
<1>2. now \in Nat /\ now' \in Nat /\ now' >= now /\ Grows(log, log') /\ Store!LogStep
  BY LogGrowth
<1>6. web'[r] = a
  OBVIOUS
<1>3. CASE a.stage = "new"
  <2>1. a.status = 0
    BY <1>1, <1>3 DEF Typed
  <2>2. TrueOf(a, log', now')
    BY <2>1, TellsNothing
  <2> HIDE DEF a
  <2> QED
    BY <1>3, <1>6, <2>2 DEF Witnessed, Begun, PathOf
<1>4. CASE a.stage # "new"
  <2>1. a.code \in Codes /\ \A d \in Codes : a.since[d] \in 1 .. Len(log[d])
    BY <1>1, <1>4 DEF Typed, Begun
  <2>2. Begun(r)'
    BY <1>1, <1>2, <1>4, BegunStays
  <2>3. PathOf(r)'
    <3> SUFFICES ASSUME NEW t \in Nat, web'[r].stage = "link", web'[r].began = t
                 PROVE  Store!Path(r, t)'
      BY DEF PathOf
    <3>1. Store!Path(r, t)
      BY <1>1 DEF PathOf
    <3>2. req[r].pc # "new" /\ req'[r] = req[r] /\ Store!LinkInv
      BY DEF RequestsInv, UnderWay, StoreInv
    <3> QED
      BY <1>2, <3>1, <3>2, SameService, Store!PathStays
  <2>4. TrueOf(a, log', now')
    BY <1>1, <1>2, <2>1, TrueStays DEF Witnessed
  <2>5. a.stage = "exists" => \E v \in Was(a, log', a.code) : Manageable(a, v)
    BY <1>1, <1>2, <2>1, MomentsGrow DEF Witnessed
  <2>6. a.stage = "page" => ReadIn(a, log'[a.code], Moments(a, log', a.code))
    BY <1>1, <1>2, <2>1, ReadStays DEF Witnessed
  <2> HIDE DEF a
  <2>7. Witnessed(r)'
    BY <1>6, <2>4, <2>5, <2>6 DEF Witnessed, Was, Moments, Manageable
  <2> QED
    BY <2>2, <2>3, <2>7
<1> QED
  BY <1>3, <1>4

\* What a request will have become, and what must be so of that.
LEMMA BecomesWitnessed ==
    ASSUME NEW r, NEW w, web'[r] = w, UNCHANGED <<now, log>>, TrueOf(w, log, now),
           w.stage = "exists" => \E v \in Was(w, log, w.code) : Manageable(w, v),
           w.stage = "page" => ReadIn(w, log[w.code], Moments(w, log, w.code))
    PROVE  Witnessed(r)'
<1>1. TrueOf(web'[r], log', now') = TrueOf(w, log, now)
  OBVIOUS
<1>2. Was(web'[r], log', web'[r].code) = Was(w, log, w.code)
      /\ Moments(web'[r], log', web'[r].code) = Moments(w, log, w.code)
      /\ log'[web'[r].code] = log[w.code]
  OBVIOUS
<1>3. web'[r].stage = w.stage /\ \A v : Manageable(web'[r], v) <=> Manageable(w, v)
  OBVIOUS
<1>4. \A x, s : ReadIn(web'[r], x, s) <=> ReadIn(w, x, s)
  OBVIOUS
<1> QED
  BY <1>1, <1>2, <1>3, <1>4 DEF Witnessed

LEMMA ArrivesWitnessed ==
    ASSUME RequestsInv, SignInTypeOK, StoreInv, NEW r \in Requests, Arrive(r)
    PROVE  /\ Begun(r)' /\ PathOf(r)' /\ Witnessed(r)'
           /\ \A q \in Requests \ {r} : web'[q] = web[q]
<1>0. PICK a \in Arrivals : \E w : Arrived(r, a, w)
  BY Arrives
<1>1. PICK w : Arrived(r, a, w)
  BY <1>0
<1>2. /\ web' = [web EXCEPT ![r] = w] /\ web = [q \in Requests |-> web[q]]
      /\ UNCHANGED <<now, log>> /\ Typed(w)
      /\ w.since = [d \in Codes |-> Len(log[d])] /\ w.began = now
      /\ w.stage \notin {"new", "exists", "page"}
      /\ w.status \in {0, 200, 204, 400, 401, 429, 503}
      /\ w.status \in {200, 204} => w.op \in {"me", "logout"}
  BY <1>1 DEF Arrived, SameRequest, RequestsInv
<1>3. web'[r] = w /\ \A q \in Requests \ {r} : web'[q] = web[q]
  BY <1>2
<1>4. Begun(r)'
  <2>1. \A c \in Codes : Len(log[c]) \in Nat /\ Len(log[c]) >= 1
    BY DEF StoreInv, Store!LinkInv, Store!TypeOK
  <2>2. \A d \in Codes : w.since[d] \in 1 .. Len(log[d])
    BY <1>2, <2>1
  <2>3. now \in Nat
    BY DEF SignInTypeOK
  <2> QED
    BY <1>2, <1>3, <2>2, <2>3 DEF Begun
<1>5. TrueOf(w, log, now)
  BY <1>2, TellsNothing
<1>6. Witnessed(r)'
  BY <1>2, <1>3, <1>5, BecomesWitnessed
<1>7. PathOf(r)'
  <2> SUFFICES ASSUME NEW t \in Nat, web'[r].stage = "link" PROVE Store!Path(r, t)'
    BY DEF PathOf
  <2>1. PICK b \in Arrivals : \/ Refuse(r, b) \/ AnswerAtOnce(r, b) \/ StartSignIn(r, b)
                              \/ StartLink(r, b) \/ StartRead(r, b)
    BY DEF Arrive
  <2>2. Typed(b) /\ b.stage = "new"
    BY ArrivalTyped DEF RequestsInv
  <2>3. ~Refuse(r, b) /\ ~AnswerAtOnce(r, b)
    <3>1. ASSUME NEW s \in Statuses, web' = [web EXCEPT ![r] = Answered(b, s)] PROVE FALSE
      BY <1>2, <2>2, <3>1, OnwardFields
    <3>2. 429 \in Statuses /\ (AtOnce(b) # 0 => AtOnce(b) \in Statuses)
      BY DEF Statuses, AtOnce
    <3> QED
      BY <3>1, <3>2 DEF Refuse, AnswerAtOnce
  <2>4. ASSUME NEW s \in {"sign_in", "availability", "list", "owned"},
               web' = [web EXCEPT ![r] = At(b, s)]
        PROVE  FALSE
    BY <1>2, <2>2, <2>4, OnwardFields DEF WebStages
  <2>5. ~StartSignIn(r, b)
    BY <2>4 DEF StartSignIn
  <2>6. ~StartRead(r, b)
    BY <2>4 DEF StartRead
  <2>7. Store!Begin(r)
    BY <2>1, <2>3, <2>5, <2>6, SameService DEF StartLink
  <2> QED
    BY <2>7, SameService, Store!PathBegins DEF StoreInv
<1> QED
  BY <1>3, <1>4, <1>6, <1>7

\* A step of a request under way, and what must be so of what it makes of it.
LEMMA ServedWitnessed ==
    ASSUME NEW r \in Requests, Begun(r), RequestsInv, StoreInv, web[r].stage # "new", NEW w,
           Served(r, w), UNCHANGED log, TrueOf(w, log, now), w.stage # "link",
           w.stage = "exists" =>
               \E v \in Was(web[r], log, web[r].code) : Manageable(web[r], v),
           w.stage = "page" =>
               ReadIn(web[r], log[web[r].code], Moments(web[r], log, web[r].code))
    PROVE  Begun(r)' /\ PathOf(r)' /\ Witnessed(r)'
<1> DEFINE a == web[r]
<1>1. web'[r] = w /\ UNCHANGED <<now, log>> /\ SameRequest(a, w)
  BY DEF Served, RequestsInv
<1>2. w.code = a.code /\ w.since = a.since /\ w.began = a.began
  BY <1>1 DEF SameRequest
<1>3. Begun(r)'
  BY <1>1, <1>2 DEF Begun
<1>4. PathOf(r)'
  BY <1>1 DEF PathOf
<1>5. /\ w.stage = "exists" => \E v \in Was(w, log, w.code) : Manageable(w, v)
      /\ w.stage = "page" => ReadIn(w, log[w.code], Moments(w, log, w.code))
  <2>1. /\ \A d : Was(w, log, d) = Was(a, log, d) /\ Moments(w, log, d) = Moments(a, log, d)
        /\ \A v : Manageable(w, v) <=> Manageable(a, v)
        /\ \A h, s : ReadIn(w, h, s) <=> ReadIn(a, h, s)
    BY <1>1, SameWas
  <2> QED
    BY <1>2, <2>1
<1>6. Witnessed(r)'
  BY <1>1, <1>5, BecomesWitnessed
<1> QED
  BY <1>3, <1>4, <1>6

\* A request to the link service goes on.
LEMMA RunsWitnessed ==
    ASSUME WitnessInv, RequestsInv, StoreInv, [Links!Next]_(Links!vars), NEW r \in Requests,
           LinkRuns(r)
    PROVE  Begun(r)' /\ PathOf(r)' /\ Witnessed(r)'
<1> DEFINE a == web[r]
<1>1. /\ a.stage = "link" /\ UNCHANGED web /\ Store!RequestStep(r)
      /\ req[r].pc # "new" /\ req[r].left = 1 /\ Begun(r) /\ PathOf(r) /\ Witnessed(r)
      /\ Typed(a)
  BY SameService DEF LinkRuns, RequestsInv, UnderWay, WitnessInv
<1>2. now \in Nat /\ now' \in Nat /\ now' >= now /\ Grows(log, log') /\ Store!LogStep
  BY LogGrowth
<1>3. Begun(r)'
  BY <1>1, <1>2, BegunStays
<1>4. PathOf(r)'
  <2> SUFFICES ASSUME NEW t \in Nat, web'[r].began = t PROVE Store!Path(r, t)'
    BY DEF PathOf
  <2>1. Store!Path(r, t) /\ t <= now
    BY <1>1 DEF PathOf, Begun
  <2> QED
    BY <1>1, <1>2, <2>1, SameService, Store!PathStep DEF StoreInv
<1>5. TrueOf(a, log', now')
  <2>1. a.status = 0
    BY <1>1 DEF Typed
  <2> QED
    BY <2>1, TellsNothing
<1>6. web'[r] = a /\ a.stage = "link"
  BY <1>1
<1> HIDE DEF a
<1>7. Witnessed(r)'
  BY <1>5, <1>6 DEF Witnessed
<1> QED
  BY <1>3, <1>4, <1>7

LEMMA ServesWitnessed ==
    ASSUME WitnessInv, RequestsInv, OutcomesInv, SignInTypeOK, StoreInv,
           [Links!Next]_(Links!vars), NEW r \in Requests, Serve(r)
    PROVE  Begun(r)' /\ PathOf(r)' /\ Witnessed(r)'
<1> DEFINE a == web[r]
           c == a.code
           v == Link(r)
           seen == Was(a, log, c)
           span == Moments(a, log, c)
           h == log[c]
           top == Len(h)
<1>0. /\ Typed(a) /\ UnderWay(r) /\ web = [q \in Requests |-> web[q]] /\ Begun(r)
      /\ a.stage \notin {"new", "done"}
      /\ a.stage = "exists" => \E x \in seen : Manageable(a, x)
      /\ a.stage = "page" => ReadIn(a, h, span)
  <2>1. a.stage \notin {"new", "done"}
    BY Serves
  <2>2. /\ Typed(a) /\ UnderWay(r) /\ web = [q \in Requests |-> web[q]]
        /\ Begun(r) /\ Witnessed(r)
    BY DEF RequestsInv, WitnessInv
  <2> QED
    BY <2>1, <2>2 DEF Witnessed
<1>1. PICK w : Served(r, w)
  BY Serves
<1>2. web'[r] = w /\ SameRequest(a, w) /\ w.op = a.op /\ w.code = c
  BY <1>0, <1>1 DEF Served, SameRequest
<1>3. /\ v \in seen /\ c \in Codes
      /\ \A d \in Codes : /\ Links!Latest(d) \in Was(a, log, d)
                          /\ Links!Latest(d) \in Links!Values
  BY <1>0, SeesLatest
<1>4. /\ top \in span /\ h[top] = v /\ span \subseteq Nat /\ \A i \in span : i <= top
      /\ seen = {h[i] : i \in span}
  <2>1. /\ Grows(log, log) /\ \A d \in Codes : Links!Latest(d) = log[d][Len(log[d])]
    BY <1>0, SeesLatest
  <2>2. c \in Codes /\ a.since[c] \in 1 .. Len(log[c])
    BY <1>0, <1>3 DEF Begun
  <2>3. /\ Len(log[c]) \in Moments(a, log, c) /\ Moments(a, log, c) \subseteq Nat
        /\ \A i \in Moments(a, log, c) : i <= Len(log[c])
    BY <2>1, <2>2, MomentsGrow
  <2> QED
    BY <2>1, <2>2, <2>3 DEF Was, Link
<1>5. /\ \A d : Was(w, log, d) = Was(a, log, d) /\ Moments(w, log, d) = Moments(a, log, d)
      /\ \A x : /\ Manageable(w, x) <=> Manageable(a, x)
                /\ Live(w, x) <=> Live(a, x)
      /\ \A x, s : ReadIn(w, x, s) <=> ReadIn(a, x, s)
  BY <1>2, SameWas
<1>6. TrueOf(w, log, now) <=>
          TrueOnce(w, seen, now) /\ TrueInOrder(w, h, span) /\ TrueOfList(w, log, now)
  BY <1>2, <1>5 DEF TrueOf
<1>7. ASSUME UNCHANGED log, TrueOf(w, log, now), w.stage # "link",
             w.stage = "exists" => \E x \in seen : Manageable(a, x),
             w.stage = "page" => ReadIn(a, h, span)
      PROVE  Begun(r)' /\ PathOf(r)' /\ Witnessed(r)'
  BY <1>0, <1>1, <1>7, ServedWitnessed
<1> HIDE DEF seen, span, h, top, c
<1>8. ASSUME UNCHANGED log, NEW b, Typed(b), NEW s \in Statuses,
             web' = [web EXCEPT ![r] = Answered(b, s)], w.status = s => TrueOf(w, log, now)
      PROVE  Begun(r)' /\ PathOf(r)' /\ Witnessed(r)'
  <2>1. w.status = s /\ w.stage = "done"
    BY <1>0, <1>2, <1>8, OnwardFields
  <2> QED
    BY <1>7, <1>8, <2>1
<1>9. ASSUME UNCHANGED log, NEW b, Typed(b), NEW x, web' = [web EXCEPT ![r] = Showing(b, x)],
             w.status = 200 /\ w.shown = x => TrueOf(w, log, now)
      PROVE  Begun(r)' /\ PathOf(r)' /\ Witnessed(r)'
  <2>1. w.status = 200 /\ w.stage = "done" /\ w.shown = x
    BY <1>0, <1>2, <1>9, OnwardFields, OnwardClick
  <2> QED
    BY <1>7, <1>9, <2>1
<1>10. ASSUME UNCHANGED log, NEW b, Typed(b), b.stage # "done", NEW s \in {"exists", "page"},
              web' = [web EXCEPT ![r] = At(b, s)],
              s = "exists" => \E x \in seen : Manageable(a, x),
              s = "page" => ReadIn(a, h, span)
       PROVE  Begun(r)' /\ PathOf(r)' /\ Witnessed(r)'
  <2>1. w.status = 0 /\ w.stage = s
    BY <1>0, <1>2, <1>10, OnwardFields DEF WebStages
  <2>2. TrueOf(w, log, now)
    BY <2>1, TellsNothing
  <2> QED
    BY <1>7, <1>10, <2>1, <2>2
<1>11. CASE SignInRuns(r)
  <2>1. a.stage = "sign_in" /\ UNCHANGED log /\ a.op = "login"
    BY <1>0, <1>11 DEF SignInRuns, link_vars, UnderWay
  <2>2. CASE step[r] = "done" /\ Finish(r, outcome[r])
    <3>1. outcome[r] \in {200, 401}
      BY <2>2 DEF OutcomesInv, SignInTypeOK
    <3>2. w.status = outcome[r] => TrueOf(w, log, now)
      BY <1>2, <2>1, <3>1, TellsNothing
    <3>3. outcome[r] \in Statuses
      BY <3>1 DEF Statuses
    <3> QED
      BY <1>0, <1>8, <2>1, <2>2, <3>2, <3>3 DEF Finish
  <2>3. CASE UNCHANGED web
    BY <2>1, <2>3, StaysWitnessed
  <2> QED
    BY <1>11, <2>2, <2>3 DEF SignInRuns
<1>12. CASE LinkRuns(r)
  BY <1>12, RunsWitnessed
<1>13. CASE Reply(r)
  <2> DEFINE s == StatusOf(a.op, req[r].answer)
  <2>1. /\ a.stage = "link" /\ req[r].pc = "done" /\ UNCHANGED log
        /\ web' = [web EXCEPT ![r] = Telling(a, s, Content(r), Recorded(r))]
    BY <1>13 DEF Reply, link_vars
  <2>2. req[r].op # "shorten_random"
    BY <1>0, <2>1 DEF UnderWay, LinkOps
  <2>3. s \in Statuses
    BY <2>1, <2>2, LinkStatuses DEF Statuses
  <2> HIDE DEF s
  <2>4. w.status = s /\ w.shown = Content(r) /\ w.stage = "done"
    BY <1>0, <1>2, <2>1, <2>3, OnwardFields, OnwardClick
  <2>5. PathOf(r)
    BY DEF WitnessInv
  <2>6. TrueOf(w, log, now)
    BY <1>0, <1>2, <2>1, <2>4, <2>5, ReplyTrue DEF s
  <2> QED
    BY <1>7, <2>1, <2>4, <2>6
<1>14. CASE Availability(r)
  <2>1. /\ a.stage = "availability" /\ UNCHANGED log
        /\ web' = [web EXCEPT ![r] = Showing(a, <<v = Absent>>)]
    BY <1>14 DEF Availability, link_vars, Available, Link
  <2>2. w.op = "availability"
    BY <1>0, <1>2, <2>1 DEF UnderWay
  <2>3. w.status = 200 /\ w.shown = <<v = Absent>> => TrueOf(w, log, now)
    <3> SUFFICES ASSUME w.status = 200, w.shown = <<v = Absent>> PROVE TrueOf(w, log, now)
      OBVIOUS
    <3>1. TrueInOrder(w, h, span) /\ TrueOfList(w, log, now)
      BY <2>2 DEF TrueInOrder, TrueOfList
    <3>2. TrueOnce(w, seen, now)
      BY <1>3, <2>2 DEF TrueOnce, Reads
    <3> QED
      BY <1>6, <3>1, <3>2
  <2> QED
    BY <1>0, <1>9, <2>1, <2>3
<1>15. CASE ListMine(r)
  <2>1. /\ a.stage = "list" /\ UNCHANGED log
        /\ web' = [web EXCEPT ![r] = Showing(a, Mine(a.user))]
    BY <1>15 DEF ListMine, link_vars
  <2>2. w.op = "list" /\ w.user = a.user /\ w.began = a.began
    BY <1>0, <1>2, <2>1 DEF UnderWay, SameRequest
  <2>3. w.status = 200 /\ w.shown = Mine(a.user) => TrueOf(w, log, now)
    <3> SUFFICES ASSUME w.status = 200, w.shown = Mine(a.user) PROVE TrueOf(w, log, now)
      OBVIOUS
    <3>1. TrueInOrder(w, h, span) /\ TrueOnce(w, seen, now)
      BY <2>2 DEF TrueInOrder, TrueOnce, Reads, LinkOps
    <3>2. ASSUME NEW d \in Codes
          PROVE  IF d \in w.shown THEN \E x \in Was(w, log, d) : ListedAs(w, x)
                 ELSE \E x \in Was(w, log, d) : LeftOut(w, x, now)
      <4> DEFINE l == Links!Latest(d)
      <4>1. l \in Was(w, log, d) /\ l \in Links!Values
        BY <1>3, <1>5
      <4>2. Links!Expired(l) <=> Lapsed(l, now)
        BY DEF Links!Expired, Links!Never, Lapsed
      <4>3. d \in w.shown <=> l # Absent /\ l.owner = w.user /\ ~Lapsed(l, now)
        BY <2>2, <4>2 DEF Mine
      <4> HIDE DEF l
      <4>4. l # Absent /\ ~Lapsed(l, now) => Live(w, l)
        <5> SUFFICES ASSUME l # Absent, ~Lapsed(l, now), l.expires # -1
                     PROVE  w.began <= l.expires
          BY DEF Live
        <5>1. l.expires \in Int
          BY <4>1 DEF Links!Values, Links!Records
        <5>2. now \in Nat /\ w.began \in Nat /\ w.began <= now
          BY <1>0, <2>2 DEF Begun, SignInTypeOK
        <5>3. ~(now > l.expires)
          BY DEF Lapsed
        <5> QED
          BY <5>1, <5>2, <5>3
      <4> QED
        BY <4>1, <4>3, <4>4 DEF ListedAs, LeftOut
    <3>3. TrueOfList(w, log, now)
      BY <3>2 DEF TrueOfList
    <3> QED
      BY <1>6, <3>1, <3>3
  <2> QED
    BY <1>0, <1>9, <2>1, <2>3
<1>16. ASSUME UNCHANGED log, v = Absent, Finish(r, 404), a.op \in Reads \cup {"update"}
       PROVE  Begun(r)' /\ PathOf(r)' /\ Witnessed(r)'
  <2>1. w.status = 404 => TrueOf(w, log, now)
    <3> SUFFICES ASSUME w.status = 404 PROVE TrueOf(w, log, now)
      OBVIOUS
    <3>1. TrueInOrder(w, h, span) /\ TrueOfList(w, log, now)
      BY DEF TrueInOrder, TrueOfList
    <3>2. TrueOnce(w, seen, now)
      BY <1>3, <1>16 DEF TrueOnce, Missing
    <3> QED
      BY <1>6, <3>1, <3>2
  <2>2. 404 \in Statuses
    BY DEF Statuses
  <2> QED
    BY <1>0, <1>8, <1>16, <2>1, <2>2 DEF Finish
<1>17. CASE Owned(r)
  <2>1. /\ UNCHANGED log /\ a.stage = "owned"
        /\ a.op \in Reads \/ (a.op = "update" /\ a.form = "unusable")
    BY <1>0, <1>17 DEF Owned, link_vars, UnderWay
  <2>2. {200, 400, 403} \subseteq Statuses
    BY DEF Statuses
  <2>3. CASE v = Absent /\ Finish(r, 404)
    BY <1>16, <2>1, <2>3
  <2>4. CASE v # Absent /\ ~Links!MayManage(v, a.user) /\ Finish(r, 403)
    <3>1. v # Absent /\ ~Manageable(w, v)
      BY <1>5, <2>4 DEF Manageable
    <3>2. w.status = 403 => TrueOf(w, log, now)
      <4> SUFFICES ASSUME w.status = 403 PROVE TrueOf(w, log, now)
        OBVIOUS
      <4>1. TrueInOrder(w, h, span) /\ TrueOfList(w, log, now)
        BY DEF TrueInOrder, TrueOfList
      <4>2. TrueOnce(w, seen, now)
        BY <1>3, <3>1 DEF TrueOnce
      <4> QED
        BY <1>6, <4>1, <4>2
    <3> QED
      BY <1>0, <1>8, <2>1, <2>2, <2>4, <3>2 DEF Finish
  <2>5. CASE Finish(r, 400)
    <3>1. w.status = 400 => TrueOf(w, log, now)
      BY TellsNothing
    <3> QED
      BY <1>0, <1>8, <2>1, <2>2, <2>5, <3>1 DEF Finish
  <2>6. CASE v # Absent /\ Links!MayManage(v, a.user) /\ Goto(r, "exists")
    <3>1. \E x \in seen : Manageable(a, x)
      BY <1>3, <2>6 DEF Manageable
    <3> QED
      BY <1>0, <1>10, <2>1, <2>6, <3>1 DEF Goto
  <2>7. CASE /\ v # Absent /\ Links!MayManage(v, a.user) /\ ShowLink(r)
             /\ a.form = "good" /\ a.op \notin {"clicks", "analytics"}
    <3>1. Manageable(w, v) /\ w.op \in {"stats", "get_status"}
      BY <1>2, <1>5, <2>1, <2>7 DEF Manageable, Reads
    <3>2. w.status = 200 /\ w.shown = <<v>> => TrueOf(w, log, now)
      <4> SUFFICES ASSUME w.status = 200, w.shown = <<v>> PROVE TrueOf(w, log, now)
        OBVIOUS
      <4>1. TrueInOrder(w, h, span) /\ TrueOfList(w, log, now)
        BY <3>1 DEF TrueInOrder, TrueOfList
      <4>2. TrueOnce(w, seen, now)
        BY <1>3, <3>1 DEF TrueOnce
      <4> QED
        BY <1>6, <4>1, <4>2
    <3> QED
      BY <1>0, <1>9, <2>1, <2>7, <3>2 DEF ShowLink
  <2> QED
    BY <1>17, <2>3, <2>4, <2>5, <2>6, <2>7 DEF Owned
<1>18. CASE Exists(r)
  <2>1. /\ UNCHANGED log /\ a.stage = "exists" /\ a.op \in Reads
    BY <1>0, <1>18 DEF Exists, link_vars, UnderWay, Reads
  <2>2. CASE v = Absent /\ Finish(r, 404)
    BY <1>16, <2>1, <2>2
  <2>3. CASE v # Absent /\ Goto(r, "page")
    <3>1. PICK i \in span : Manageable(a, h[i])
      BY <1>0, <1>4, <2>1
    <3>2. ReadIn(a, h, span)
      BY <1>4, <2>3, <3>1 DEF ReadIn
    <3> QED
      BY <1>0, <1>10, <2>1, <2>3, <3>2 DEF Goto
  <2> QED
    BY <1>18, <2>2, <2>3 DEF Exists
<1>19. CASE NextPage(r)
  <2> DEFINE b == Read(a, Older(r))
  <2>1. /\ a.stage = "page" /\ UNCHANGED log
        /\ \/ web' = [web EXCEPT ![r] = At(b, "exists")]
           \/ \E x : web' = [web EXCEPT ![r] = Showing(b, x)]
    BY <1>19 DEF NextPage, link_vars
  <2>2. Typed(b) /\ b.stage = "page"
    BY <1>0, <2>1, OnwardFields
  <2>3. a.op \in {"clicks", "analytics"} /\ ReadIn(a, h, span) /\ \E x \in seen : Manageable(a, x)
    BY <1>0, <1>4, <2>1 DEF UnderWay, ReadIn
  <2>4. w.status = 200 => TrueOf(w, log, now)
    <3> SUFFICES ASSUME w.status = 200 PROVE TrueOf(w, log, now)
      OBVIOUS
    <3>1. w.op \in {"clicks", "analytics"} /\ ReadIn(w, h, span)
      BY <1>2, <1>5, <2>3
    <3>2. TrueInOrder(w, h, span) /\ TrueOfList(w, log, now)
      BY <3>1 DEF TrueInOrder, TrueOfList
    <3>3. TrueOnce(w, seen, now)
      BY <3>1 DEF TrueOnce
    <3> QED
      BY <1>6, <3>2, <3>3
  <2> HIDE DEF b
  <2> QED
    BY <1>9, <1>10, <2>1, <2>2, <2>3, <2>4
<1> QED
  BY <1>11, <1>12, <1>13, <1>14, <1>15, <1>17, <1>18, <1>19 DEF Serve

LEMMA WitnessStep ==
    ASSUME WitnessInv, GatewayInv, SignInTypeOK, StoreInv, [Links!Next]_(Links!vars),
           [GatewayNext]_gateway_vars
    PROVE  WitnessInv'
<1>0. RequestsInv /\ OutcomesInv /\ StreamInv
  BY DEF GatewayInv
<1>1. CASE UNCHANGED <<web, req>>
  BY <1>0, <1>1, StaysWitnessed DEF WitnessInv
<1>2. ASSUME NEW r \in Requests, Begun(r)' /\ PathOf(r)' /\ Witnessed(r)',
             \A q \in Requests \ {r} : web'[q] = web[q] /\ req'[q] = req[q]
      PROVE  WitnessInv'
  <2> SUFFICES ASSUME NEW q \in Requests, q # r PROVE Begun(q)' /\ PathOf(q)' /\ Witnessed(q)'
    BY <1>2 DEF WitnessInv
  <2> QED
    BY <1>0, <1>2, StaysWitnessed
<1>3. ASSUME NEW r \in Requests, Arrive(r) PROVE WitnessInv'
  BY <1>0, <1>2, <1>3, ArrivesWitnessed, ArrivesUnderWay
<1>4. ASSUME NEW r \in Requests, Serve(r) PROVE WitnessInv'
  <2>1. PICK w : Served(r, w)
    BY <1>0, <1>4, Serves
  <2>2. \A q \in Requests \ {r} : web'[q] = web[q]
    BY <1>0, <2>1 DEF Served, RequestsInv
  <2> QED
    BY <1>0, <1>2, <1>4, <2>2, ServesWitnessed, ServesUnderWay
<1>5. ASSUME NEW r \in Requests, Flush(r) PROVE WitnessInv'
  BY <1>1, <1>5 DEF Flush, link_vars
<1>6. CASE GatewayTick \/ GatewayRotate \/ UNCHANGED gateway_vars
  BY <1>1, <1>6 DEF GatewayTick, GatewayRotate, gateway_vars, link_vars, Links!Tick
<1> QED
  BY <1>3, <1>4, <1>5, <1>6 DEF GatewayNext

LEMMA WitnessStarts == GatewayInit => WitnessInv
<1> SUFFICES ASSUME GatewayInit, NEW r \in Requests PROVE Begun(r) /\ PathOf(r) /\ Witnessed(r)
  BY DEF WitnessInv
<1>1. web[r] = NewRequest
  BY DEF GatewayInit
<1>2. web[r].stage = "new" /\ web[r].status = 0
  BY <1>1, NewRequestTyped
<1>3. TrueOf(web[r], log, now)
  BY <1>2, TellsNothing
<1> QED
  BY <1>2, <1>3 DEF Witnessed, Begun, PathOf

\* links.go and its handlers read a link several times, while others change it: every
\* answer, though, was right at some moment between the arrival of its request and now,
\* in what it shows too.  404 says that the link was missing (or not to be resolved),
\* 403 that it was another's, 409 that its code was taken, and success that the link was
\* there and the caller's, as it is shown; a redirect leads where its link led when it
\* could be served, or later; availability and the list tell of links what was so.
THEOREM AnswersHadTheirMoment == Spec => []AnswersWereTrue
<1>1. WitnessInv => AnswersWereTrue
  <2> SUFFICES ASSUME WitnessInv, NEW r \in Requests
               PROVE
        LET c == web[r].code
            shown == web[r].shown
            user == web[r].user
            mine(v) == v # Absent /\ Links!MayManage(v, user)
            live(v) == v # Absent /\ (v.expires = Links!Never \/ web[r].began <= v.expires)
            gone(v) == v = Absent \/ (LinkOps[web[r].op] = "resolve" /\
                           (v.disabled \/ Links!Expired(v)))
        IN
        /\ web[r].status = 403 => \E v \in During(r, c) : v # Absent /\ ~mine(v)
        /\ Told(r, {404}, Reads) => Absent \in During(r, c)
        /\ Told(r, {404}, DOMAIN LinkOps) => \E v \in During(r, c) : gone(v)
        /\ Told(r, {200, 302}, {"redirect", "resolve", "lookup"}) =>
               \E i, j \in Span(r, c) :
                  /\ i <= j /\ live(log[c][i]) /\ ~log[c][i].disabled
                  /\ log[c][j] # Absent /\ shown = <<log[c][j]>>
        /\ Told(r, {200}, {"stats", "get_status", "update", "disable", "enable"}) =>
               \E v \in During(r, c) : mine(v) /\ shown = <<v>>
        /\ Told(r, {200}, {"clicks", "analytics"}) =>
               \E i, j \in Span(r, c) : i <= j /\ mine(log[c][i]) /\ log[c][j] # Absent
        /\ Told(r, {204}, {"delete"}) =>
               \E i, j \in Span(r, c) : i < j /\ mine(log[c][i]) /\ log[c][j] = Absent
        /\ Told(r, {201}, {"shorten"}) =>
               /\ Absent \in During(r, c)
               /\ \E v \in During(r, c) : v # Absent /\ v.owner = user
        /\ web[r].status = 409 => \E v \in During(r, c) : v # Absent
        /\ Told(r, {200}, {"availability"}) =>
               \E v \in During(r, c) : shown = <<v = Absent>>
        /\ Told(r, {200}, {"list"}) => \A d \in Codes :
               IF d \in shown THEN \E v \in During(r, d) : live(v) /\ v.owner = user
               ELSE \E v \in During(r, d) : v = Absent \/ v.owner # user \/ Links!Expired(v)
    BY DEF AnswersWereTrue
  <2> DEFINE a == web[r]
             mine(v) == v # Absent /\ Links!MayManage(v, a.user)
             live(v) == v # Absent /\ (v.expires = Links!Never \/ a.began <= v.expires)
             gone(v) == v = Absent \/ (LinkOps[a.op] = "resolve" /\
                            (v.disabled \/ Links!Expired(v)))
  <2>1. /\ \A d : Span(r, d) = Moments(a, log, d) /\ During(r, d) = Was(a, log, d)
        /\ TrueOf(a, log, now)
    BY DEF WitnessInv, Witnessed, During, Span, Was, Moments
  <2>2. \A v : Lapsed(v, now) <=> Links!Expired(v)
    BY DEF Links!Expired, Links!Never, Lapsed
  <2>3. \A v : /\ Manageable(a, v) <=> mine(v)
               /\ Live(a, v) <=> live(v)
               /\ Missing(a, v, now) <=> gone(v)
    BY <2>2 DEF Manageable, Live, Missing, Links!Never
  <2>4. TrueOnce(a, During(r, a.code), now)
    BY <2>1 DEF TrueOf
  <2>5. TrueInOrder(a, log[a.code], Span(r, a.code))
    BY <2>1 DEF TrueOf
  <2>6. a.status = 200 /\ a.op = "list" => \A d \in Codes :
            IF d \in a.shown THEN \E v \in During(r, d) : Live(a, v) /\ v.owner = a.user
            ELSE \E v \in During(r, d) : v = Absent \/ v.owner # a.user \/ Links!Expired(v)
    <3>1. TrueOfList(a, log, now)
      BY <2>1 DEF TrueOf
    <3> HIDE DEF a
    <3> QED
      BY <2>1, <2>2, <3>1 DEF TrueOfList, ListedAs, LeftOut
  <2> HIDE DEF mine, live, gone
  <2>7. /\ a.status = 403 => \E v \in During(r, a.code) : v # Absent /\ ~mine(v)
        /\ a.status = 404 /\ a.op \in Reads => Absent \in During(r, a.code)
        /\ a.status = 404 /\ a.op \in DOMAIN LinkOps => \E v \in During(r, a.code) : gone(v)
        /\ a.status = 200 /\ a.op \in {"stats", "get_status", "update", "disable", "enable"}
             => \E v \in During(r, a.code) : mine(v) /\ a.shown = <<v>>
        /\ a.status = 201 /\ a.op = "shorten" =>
             /\ Absent \in During(r, a.code)
             /\ \E v \in During(r, a.code) : v # Absent /\ v.owner = a.user
        /\ a.status = 409 => \E v \in During(r, a.code) : v # Absent
        /\ a.status = 200 /\ a.op = "availability" =>
             \E v \in During(r, a.code) : a.shown = <<v = Absent>>
    <3> HIDE DEF a
    <3> QED
      BY <2>3, <2>4 DEF TrueOnce
  <2>8. /\ a.status \in {200, 302} /\ a.op \in {"redirect", "resolve", "lookup"} =>
             \E i, j \in Span(r, a.code) :
                /\ i <= j /\ live(log[a.code][i]) /\ ~log[a.code][i].disabled
                /\ log[a.code][j] # Absent /\ a.shown = <<log[a.code][j]>>
        /\ a.status = 200 /\ a.op \in {"clicks", "analytics"} =>
             \E i, j \in Span(r, a.code) :
                i <= j /\ mine(log[a.code][i]) /\ log[a.code][j] # Absent
        /\ a.status = 204 /\ a.op = "delete" =>
             \E i, j \in Span(r, a.code) :
                i < j /\ mine(log[a.code][i]) /\ log[a.code][j] = Absent
    <3> HIDE DEF a
    <3> QED
      BY <2>3, <2>5 DEF TrueInOrder, ResolvedIn, ReadIn, RemovedIn
  <2> QED
    BY <2>3, <2>6, <2>7, <2>8 DEF Told, mine, live, gone
<1>2. Spec => [][Links!Next]_(Links!vars)
  BY LinkServiceImplemented, PTL DEF LinkServiceRuns, Links!Spec
<1>3. /\ WitnessInv /\ SignInTypeOK /\ StoreInv /\ GatewayInv
      /\ [Links!Next]_(Links!vars) /\ [GatewayNext]_gateway_vars
      => WitnessInv'
  BY WitnessStep
<1> QED
  BY <1>1, <1>2, <1>3, GatewayInvariant, WitnessStarts, PTL DEF Spec

-------------------------------------------------------------------------------

-------------------------------------------------------------------------------
(* Sorting                                                                 *)

\* B orders S.
Orders(B, S) ==
    /\ \A x \in S : <<x, x>> \notin B
    /\ \A x, y \in S : x # y => <<x, y>> \in B \/ <<y, x>> \in B
    /\ \A x, y, z \in S : <<x, y>> \in B /\ <<y, z>> \in B => <<x, z>> \in B

Below(x, B, S) == {y \in S : <<y, x>> \in B}
Place(x, B, S) == Cardinality(Below(x, B, S))

\* The elements of a finite set have different places, from 0 on.
LEMMA Places ==
    ASSUME NEW S, IsFiniteSet(S), NEW B, Orders(B, S)
    PROVE  /\ \A x \in S : Place(x, B, S) \in 0 .. Cardinality(S) - 1
           /\ \A x, y \in S : <<x, y>> \in B => Place(x, B, S) < Place(y, B, S)
<1>1. ASSUME NEW x \in S
      PROVE  /\ IsFiniteSet(Below(x, B, S)) /\ Place(x, B, S) \in Nat
             /\ Place(x, B, S) \in 0 .. Cardinality(S) - 1
             /\ IsFiniteSet(Below(x, B, S) \cup {x})
             /\ Cardinality(Below(x, B, S) \cup {x}) = Place(x, B, S) + 1
  <2>1. Below(x, B, S) \in SUBSET S /\ x \notin Below(x, B, S)
        /\ Below(x, B, S) \cup {x} \in SUBSET S
    BY DEF Below, Orders
  <2>2. IsFiniteSet(Below(x, B, S)) /\ Place(x, B, S) \in Nat /\ Cardinality(S) \in Nat
    BY <2>1, FS_Subset, FS_CardinalityType DEF Place
  <2>3. /\ IsFiniteSet(Below(x, B, S) \cup {x})
        /\ Cardinality(Below(x, B, S) \cup {x}) = Place(x, B, S) + 1
    BY <2>1, <2>2, FS_AddElement DEF Place
  <2>4. Cardinality(Below(x, B, S) \cup {x}) <= Cardinality(S)
    BY <2>1, FS_Subset
  <2> QED
    BY <2>2, <2>3, <2>4
<1>2. ASSUME NEW x \in S, NEW y \in S, <<x, y>> \in B PROVE Place(x, B, S) < Place(y, B, S)
  <2> DEFINE T == Below(x, B, S) \cup {x}
             U == Below(y, B, S)
  <2>1. T \in SUBSET U
    BY <1>2 DEF Below, Orders
  <2>2. IsFiniteSet(U) /\ Cardinality(U) = Place(y, B, S) /\ Cardinality(T) = Place(x, B, S) + 1
    BY <1>1 DEF Place
  <2>3. Place(x, B, S) \in Nat /\ Place(y, B, S) \in Nat
    BY <1>1
  <2> HIDE DEF T, U
  <2>4. Cardinality(T) <= Cardinality(U)
    BY <2>1, <2>2, FS_Subset
  <2> QED
    BY <2>2, <2>3, <2>4
<1> QED
  BY <1>1, <1>2

\* s enumerates S in order.
Enumerates(s, B, S) ==
    /\ s \in [1 .. Cardinality(S) -> S]
    /\ \A i, j \in 1 .. Cardinality(S) : i < j => <<s[i], s[j]>> \in B

\* A finite set can be sorted.
LEMMA EnumerationExists ==
    ASSUME NEW S, IsFiniteSet(S), NEW B, Orders(B, S)
    PROVE  \E s : Enumerates(s, B, S)
<1> DEFINE n == Cardinality(S)
           place == [x \in S |-> Place(x, B, S)]
           s == [i \in 1 .. n |-> CHOOSE x \in S : place[x] = i - 1]
<1>1. n \in Nat
  BY FS_CardinalityType
<1>2. /\ \A x \in S : place[x] \in 0 .. n - 1
      /\ \A x, y \in S : <<x, y>> \in B => place[x] < place[y]
  BY Places
<1> HIDE DEF place
<1>3. place \in [S -> 0 .. n - 1]
  BY <1>2 DEF place
<1>4. place \in Injection(S, 0 .. n - 1)
  <2>1. ASSUME NEW x \in S, NEW y \in S, place[x] = place[y] PROVE x = y
    <3> SUFFICES ASSUME x # y PROVE FALSE
      OBVIOUS
    <3>1. place[x] < place[y] \/ place[y] < place[x]
      BY <1>2 DEF Orders
    <3>2. place[x] \in Int /\ place[y] \in Int
      BY <1>2
    <3> QED
      BY <2>1, <3>1, <3>2
  <2> QED
    BY <1>3, <2>1 DEF Injection, IsInjective
<1>5. IsFiniteSet(0 .. n - 1) /\ Cardinality(0 .. n - 1) = n
  BY <1>1, FS_Interval
<1>6. place \in Surjection(S, 0 .. n - 1)
  BY <1>4, <1>5, FS_Injection
<1>7. ASSUME NEW i \in 1 .. n PROVE s[i] \in S /\ place[s[i]] = i - 1
  <2>1. i - 1 \in 0 .. n - 1
    BY <1>1
  <2>2. \E x \in S : place[x] = i - 1
    BY <1>6, <2>1 DEF Surjection
  <2> QED
    BY <2>2
<1> HIDE DEF s
<1>8. ASSUME NEW i \in 1 .. n, NEW j \in 1 .. n, i < j PROVE <<s[i], s[j]>> \in B
  <2>1. /\ s[i] \in S /\ s[j] \in S
        /\ place[s[i]] = i - 1 /\ place[s[j]] = j - 1
    BY <1>7
  <2>2. s[i] # s[j] /\ ~(place[s[j]] < place[s[i]])
    BY <1>8, <2>1
  <2> QED
    BY <1>2, <2>1, <2>2 DEF Orders
<1>9. s \in [1 .. n -> S]
  <2>1. s = [i \in 1 .. n |-> s[i]]
    BY DEF s
  <2> QED
    BY <1>7, <2>1
<1> QED
  BY <1>8, <1>9 DEF Enumerates

\* In an enumeration each element is at its place.
LEMMA EnumerationPlaces ==
    ASSUME NEW S, IsFiniteSet(S), NEW B, Orders(B, S), NEW s, Enumerates(s, B, S)
    PROVE  /\ \A i \in 1 .. Cardinality(S) : s[i] \in S /\ Place(s[i], B, S) = i - 1
           /\ \A x \in S : \E i \in 1 .. Cardinality(S) : s[i] = x
<1> DEFINE n == Cardinality(S)
<1>1. n \in Nat /\ IsFiniteSet(1 .. n) /\ Cardinality(1 .. n) = n
  BY FS_CardinalityType, FS_Interval
<1>2. s \in [1 .. n -> S] /\ \A i, j \in 1 .. n : i < j => <<s[i], s[j]>> \in B
  BY DEF Enumerates
<1> HIDE DEF n
<1>3. ASSUME NEW i \in 1 .. n, NEW j \in 1 .. n, s[i] = s[j] PROVE i = j
  <2>1. <<s[i], s[j]>> \notin B /\ <<s[j], s[i]>> \notin B
    BY <1>2, <1>3 DEF Orders
  <2>2. ~(i < j) /\ ~(j < i)
    BY <1>2, <2>1
  <2> QED
    BY <1>1, <2>2
<1>4. s \in Injection(1 .. n, S)
  BY <1>2, <1>3 DEF Injection, IsInjective
<1>5. s \in Surjection(1 .. n, S)
  BY <1>1, <1>4, FS_Injection DEF n
<1>6. \A x \in S : \E i \in 1 .. n : s[i] = x
  BY <1>5 DEF Surjection
<1>7. ASSUME NEW i \in 1 .. n PROVE s[i] \in S /\ Place(s[i], B, S) = i - 1
  <2> DEFINE f == [j \in 1 .. i - 1 |-> s[j]]
             T == Below(s[i], B, S)
  <2>1. \A j \in 1 .. i - 1 : j \in 1 .. n /\ j < i
    BY <1>1
  <2>2. \A j \in 1 .. i - 1 : s[j] \in T
    BY <1>2, <2>1 DEF Below
  <2>3. ASSUME NEW y \in T PROVE \E j \in 1 .. i - 1 : s[j] = y
    <3>1. y \in S /\ <<y, s[i]>> \in B
      BY DEF Below
    <3>2. PICK j \in 1 .. n : s[j] = y
      BY <1>6, <3>1
    <3>3. j # i
      BY <1>2, <3>1, <3>2 DEF Orders
    <3>4. ~(i < j)
      <4> SUFFICES ASSUME i < j PROVE FALSE
        OBVIOUS
      <4>1. <<s[i], y>> \in B
        BY <1>2, <3>2
      <4> QED
        BY <1>2, <3>1, <4>1 DEF Orders
    <3>5. j \in 1 .. i - 1
      BY <1>1, <3>3, <3>4
    <3> QED
      BY <3>2, <3>5
  <2>4. f \in Bijection(1 .. i - 1, T)
    <3>1. f \in [1 .. i - 1 -> T]
      BY <2>2
    <3>2. \A j, k \in 1 .. i - 1 : f[j] = f[k] => j = k
      BY <1>3, <2>1
    <3>3. \A y \in T : \E j \in 1 .. i - 1 : f[j] = y
      BY <2>3
    <3> HIDE DEF f, T
    <3> QED
      BY <3>1, <3>2, <3>3 DEF Bijection, Injection, IsInjective, Surjection
  <2>5. IsFiniteSet(1 .. i - 1) /\ Cardinality(1 .. i - 1) = i - 1
    BY <1>1, FS_Interval
  <2>6. Cardinality(T) = i - 1
    <3> HIDE DEF f, T
    <3>1. ExistsBijection(1 .. i - 1, T)
      BY <2>4 DEF ExistsBijection
    <3> QED
      BY <2>5, <3>1, FS_Bijection
  <2> QED
    BY <1>2, <2>6 DEF Place
<1> QED
  BY <1>6, <1>7 DEF n

-------------------------------------------------------------------------------
(* What analytics counts                                                   *)

\* The newest n elements of a sequence, newest first.
Newest(s, n) == [i \in 1 .. n |-> s[Len(s) + 1 - i]]

Hits(q, e, k) == {i \in DOMAIN e : Wanted(q, e[i]) /\ KeyOf(q, e[i]) = k}
Count(q, e, k) == Cardinality(Hits(q, e, k))
AllKeys == Hosts \cup 0 .. MaxNow
Keys(q, e) == {k \in AllKeys : Count(q, e, k) > 0}
Precedes(q, e, j, k) ==
    IF q.type = "day" THEN j < k
    ELSE Count(q, e, j) > Count(q, e, k) \/ (Count(q, e, j) = Count(q, e, k) /\ j < k)
Rank(q, e, k) == Cardinality({j \in Keys(q, e) : Precedes(q, e, j, k)}) + 1
Limit(q) == IF q.limit > 0 THEN q.limit ELSE DefaultLimit

\* An event as it is read.
EventIn(m) == Clicks!clickToProto(Clicks!Decode(m))
Dated == {EventIn(m) : m \in Messages}

\* It has the time of its redirect, in milliseconds.
LEMMA DatedTime ==
    ASSUME NEW x \in Dated
    PROVE  /\ x.ts # {} /\ TimeOf(x) \in Nat /\ TimeOf(x) \div Clicks!Day \in 0 .. MaxNow
           /\ x.referrer_host \in Hosts
<1>1. PICK v \in Visits \cup {NoVisit}, t \in 0 .. MaxNow :
         x = EventIn(Clicks!Encode(Seen(v, t)))
  BY DEF Dated, Messages
<1> DEFINE z == t * Clicks!Day + v.moment
           e == Seen(v, t)
           u == z \div Clicks!Millisecond
           m == Clicks!Encode(e)
           d == Clicks!Decode(m)
           y == u * Clicks!Millisecond
<1>2. v.moment \in 0 .. 7 /\ Clicks!ReferrerHost(v.referrer) \in Hosts
  BY GatewayAssumption DEF NoVisit, Clicks!ReferrerHost, Clicks!NoHost, Clicks!Day,
                           Clicks!Millisecond
<1>3. /\ e = [f \in DOMAIN e |-> e[f]] /\ {"ts", "is_bot", "referrer_host"} \subseteq DOMAIN e
      /\ e.ts = z /\ e.referrer_host = Clicks!ReferrerHost(v.referrer)
  BY DEF Seen, Clicks!EventOf
<1>4. y \in Nat /\ y \div 8 = t
  <2> DEFINE k == v.moment \div 4
  <2>1. z = t * 8 + v.moment /\ y = (z \div 4) * 4
    BY DEF Clicks!Day, Clicks!Millisecond
  <2>2. z \div 4 = 2 * t + k /\ k \in 0 .. 1
    BY <1>2, <2>1
  <2>3. y = 8 * t + 4 * k
    BY <1>2, <2>1, <2>2
  <2>4. t \in Nat
    BY SignInAssumption
  <2> HIDE DEF y, z, k
  <2>5. CASE k = 0
    <3>1. y = 8 * t
      BY <2>3, <2>4, <2>5
    <3> QED
      BY <2>4, <3>1
  <2>6. CASE k = 1
    <3>1. y = 8 * t + 4
      BY <2>3, <2>4, <2>6
    <3> QED
      BY <2>4, <3>1
  <2> QED
    BY <2>2, <2>5, <2>6
<1> HIDE DEF e
<1>5. /\ m = [f \in DOMAIN m |-> m[f]] /\ {"ts", "is_bot", "referrer_host"} \subseteq DOMAIN m
      /\ m.ts = u /\ m.referrer_host = e.referrer_host
  BY <1>3 DEF Clicks!Encode
<1> HIDE DEF m, u
<1>6. /\ d = [f \in DOMAIN d |-> d[f]] /\ {"ts", "referrer_host"} \subseteq DOMAIN d
      /\ d.ts = y /\ d.referrer_host = e.referrer_host
  BY <1>5 DEF Clicks!Decode
<1> HIDE DEF d, y
<1>7. x = [d EXCEPT !.ts = {y}]
  <2>1. y # Clicks!ZeroTime
    BY <1>4 DEF Clicks!ZeroTime
  <2> QED
    BY <1>1, <1>6, <2>1 DEF EventIn, Clicks!clickToProto, d, m, e
<1>8. x.ts = {y} /\ x.referrer_host = e.referrer_host
  BY <1>6, <1>7
<1>9. TimeOf(x) = y
  BY <1>8 DEF TimeOf
<1> QED
  BY <1>2, <1>3, <1>4, <1>8, <1>9 DEF Clicks!Day, Clicks!Millisecond

LEMMA AnalyseIs ==
    ASSUME NEW items, NEW q, NEW e,
           \A i \in DOMAIN items : /\ items[i].key \in Keys(q, e)
                                   /\ items[i].count = Count(q, e, items[i].key)
                                   /\ Rank(q, e, items[i].key) = i,
           \A k \in Keys(q, e) : Rank(q, e, k) \in DOMAIN items
                                 <=> q.type = "day" \/ Rank(q, e, k) <= Limit(q)
    PROVE  Analyse(items, q, e)
BY DEF Analyse, Rank, Precedes, Keys, Count, Hits, Limit, AllKeys

\* How often a key comes up does not depend on the direction.
LEMMA CountNewest ==
    ASSUME NEW q, NEW S, NEW e \in Seq(S), NEW k
    PROVE  /\ Count(q, Newest(e, Len(e)), k) = Count(q, e, k)
           /\ Count(q, e, k) \in Nat /\ IsFiniteSet(Hits(q, e, k))
<1> DEFINE n == Len(e)
           d == Newest(e, n)
           f == [i \in Hits(q, d, k) |-> n + 1 - i]
<1>1. n \in Nat /\ DOMAIN e = 1 .. n /\ DOMAIN d = 1 .. n
      /\ \A i \in 1 .. n : d[i] = e[n + 1 - i]
  BY LenProperties DEF Newest
<1>2. \A i \in 1 .. n : n + 1 - i \in 1 .. n /\ n + 1 - (n + 1 - i) = i
  BY <1>1
<1>3. \A i \in Hits(q, d, k) : i \in 1 .. n /\ n + 1 - i \in Hits(q, e, k)
  BY <1>1, <1>2 DEF Hits
<1>4. \A i \in Hits(q, e, k) : i \in 1 .. n /\ n + 1 - i \in Hits(q, d, k)
  <2> SUFFICES ASSUME NEW i \in Hits(q, e, k) PROVE i \in 1 .. n /\ n + 1 - i \in Hits(q, d, k)
    OBVIOUS
  <2>1. i \in 1 .. n /\ Wanted(q, e[i]) /\ KeyOf(q, e[i]) = k
    BY <1>1 DEF Hits
  <2>2. n + 1 - i \in 1 .. n /\ d[n + 1 - i] = e[i]
    BY <1>1, <1>2, <2>1
  <2> HIDE DEF d, n
  <2> QED
    BY <1>1, <2>1, <2>2 DEF Hits
<1> HIDE DEF d, n
<1>5. f \in Bijection(Hits(q, d, k), Hits(q, e, k))
  <2>1. f \in [Hits(q, d, k) -> Hits(q, e, k)]
    BY <1>3
  <2>2. ASSUME NEW i \in Hits(q, d, k), NEW j \in Hits(q, d, k), f[i] = f[j] PROVE i = j
    <3>1. n + 1 - i = n + 1 - j /\ i \in Int /\ j \in Int
      BY <1>1, <1>3, <2>2
    <3> QED
      BY <1>1, <3>1
  <2>3. ASSUME NEW i \in Hits(q, e, k) PROVE \E j \in Hits(q, d, k) : f[j] = i
    <3>1. n + 1 - i \in Hits(q, d, k) /\ n + 1 - (n + 1 - i) = i
      BY <1>1, <1>2, <1>4
    <3> QED
      BY <3>1
  <2> HIDE DEF f
  <2> QED
    BY <2>1, <2>2, <2>3 DEF Bijection, Injection, IsInjective, Surjection
<1>6. IsFiniteSet(Hits(q, d, k)) /\ IsFiniteSet(Hits(q, e, k))
  <2>1. IsFiniteSet(1 .. n)
    BY <1>1, FS_Interval
  <2>2. Hits(q, d, k) \in SUBSET (1 .. n) /\ Hits(q, e, k) \in SUBSET (1 .. n)
    BY <1>3, <1>4
  <2> QED
    BY <2>1, <2>2, FS_Subset
<1>7. ExistsBijection(Hits(q, d, k), Hits(q, e, k))
  BY <1>5 DEF ExistsBijection
<1> QED
  BY <1>6, <1>7, FS_Bijection, FS_CardinalityType DEF Count, d, n

\* The item of a key.
Item(q, e, k) == [key |-> k, count |-> Count(q, e, k)]

\* What Tally counts.
LEMMA TallyIs ==
    ASSUME NEW q, NEW e \in Seq(Dated)
    PROVE  /\ Tally(q, Newest(e, Len(e))) = {Item(q, e, k) : k \in Keys(q, e)}
           /\ IsFiniteSet(Keys(q, e)) /\ IsFiniteSet(Tally(q, Newest(e, Len(e))))
           /\ Keys(q, e) \subseteq Nat
<1> DEFINE n == Len(e)
           d == Newest(e, n)
           wanted == {i \in DOMAIN d : Wanted(q, d[i])}
           K == {KeyOf(q, d[i]) : i \in wanted}
<1>1. n \in Nat /\ DOMAIN e = 1 .. n /\ DOMAIN d = 1 .. n
      /\ \A i \in 1 .. n : n + 1 - i \in 1 .. n /\ d[i] = e[n + 1 - i] /\ d[i] \in Dated
  <2>1. n \in Nat /\ DOMAIN e = 1 .. n /\ DOMAIN d = 1 .. n
        /\ \A i \in 1 .. n : d[i] = e[n + 1 - i]
    BY LenProperties DEF Newest
  <2>2. \A i \in 1 .. n : n + 1 - i \in 1 .. n
    BY <2>1
  <2> QED
    BY <2>1, <2>2, ElementOfSeq
<1> HIDE DEF d, n
<1>2. \A i \in wanted : KeyOf(q, d[i]) \in AllKeys
  BY <1>1, DatedTime DEF KeyOf, AllKeys
<1>3. \A k : Count(q, e, k) = Cardinality({i \in wanted : KeyOf(q, d[i]) = k})
  <2> TAKE k
  <2>1. Hits(q, d, k) = {i \in wanted : KeyOf(q, d[i]) = k}
    BY DEF Hits
  <2>2. Count(q, e, k) = Cardinality(Hits(q, d, k))
    BY CountNewest DEF Count, d, n
  <2> QED
    BY <2>1, <2>2
<1>4. IsFiniteSet(wanted)
  BY <1>1, FS_Interval, FS_Subset
<1>5. \A k : Count(q, e, k) > 0 <=> k \in K
  <2> TAKE k
  <2>1. {i \in wanted : KeyOf(q, d[i]) = k} \in SUBSET wanted
    OBVIOUS
  <2>2. IsFiniteSet({i \in wanted : KeyOf(q, d[i]) = k})
    BY <1>4, <2>1, FS_Subset
  <2>3. /\ Cardinality({i \in wanted : KeyOf(q, d[i]) = k}) \in Nat
        /\ Cardinality({i \in wanted : KeyOf(q, d[i]) = k}) = 0
           <=> {i \in wanted : KeyOf(q, d[i]) = k} = {}
    BY <2>2, FS_CardinalityType, FS_EmptySet
  <2> HIDE DEF wanted, K
  <2>4. k \in K <=> \E i \in wanted : KeyOf(q, d[i]) = k
    BY DEF K
  <2>5. {i \in wanted : KeyOf(q, d[i]) = k} = {} <=> ~ \E i \in wanted : KeyOf(q, d[i]) = k
    OBVIOUS
  <2> DEFINE H == {i \in wanted : KeyOf(q, d[i]) = k}
  <2>6. Count(q, e, k) = Cardinality(H)
    BY <1>3
  <2>7. Cardinality(H) \in Nat /\ (Cardinality(H) = 0 <=> H = {}) /\ (H = {} <=> k \notin K)
    BY <2>3, <2>4, <2>5
  <2> HIDE DEF H
  <2> QED
    BY <2>6, <2>7
<1>6. Keys(q, e) = K
  BY <1>2, <1>5 DEF Keys
<1>7. Tally(q, d) = {Item(q, e, k) : k \in K}
  <2>1. \A k : [key |-> k, count |-> Cardinality({i \in wanted : KeyOf(q, d[i]) = k})]
              = Item(q, e, k)
    BY <1>3 DEF Item
  <2>2. Tally(q, d) = {[key |-> k, count |-> Cardinality({i \in wanted : KeyOf(q, d[i]) = k})] :
                        k \in K}
    BY DEF Tally
  <2> HIDE DEF wanted, K
  <2> QED
    BY <2>1, <2>2
<1>8. IsFiniteSet(K) /\ IsFiniteSet({Item(q, e, k) : k \in K})
  <2> DEFINE f == [i \in wanted |-> KeyOf(q, d[i])]
             g == [k \in K |-> Item(q, e, k)]
  <2>1. f \in Surjection(wanted, K)
    <3> HIDE DEF wanted
    <3> QED
      BY DEF Surjection
  <2>2. IsFiniteSet(K)
    <3> HIDE DEF wanted, K, f
    <3> QED
      BY <1>4, <2>1, FS_Surjection
  <2> HIDE DEF K
  <2>3. g \in Surjection(K, {Item(q, e, k) : k \in K})
    BY DEF Surjection
  <2> HIDE DEF g
  <2> QED
    BY <2>2, <2>3, FS_Surjection
<1>9. Keys(q, e) \subseteq Nat
  <2>1. Hosts \subseteq Nat
    BY GatewayAssumption
  <2>2. AllKeys \subseteq Nat
    BY <2>1, SignInAssumption DEF AllKeys
  <2> QED
    BY <2>2 DEF Keys
<1> HIDE DEF K
<1>10. Tally(q, d) = {Item(q, e, k) : k \in Keys(q, e)} /\ IsFiniteSet(Keys(q, e))
       /\ IsFiniteSet(Tally(q, d))
  BY <1>6, <1>7, <1>8
<1>11. d = Newest(e, Len(e))
  BY DEF d, n
<1> HIDE DEF K, wanted
<1> QED
  BY <1>9, <1>10, <1>11

\* The order of the items in S.
Order(q, S) == {p \in S \X S : Above(q, p[1], p[2])}

\* Items of different keys are ordered.
LEMMA ItemsOrdered ==
    ASSUME NEW q, NEW K \in SUBSET Nat, NEW c \in [K -> Nat],
           NEW S, S = {[key |-> k, count |-> c[k]] : k \in K}
    PROVE  Orders(Order(q, S), S)
<1>1. \A x \in S : x.key \in Nat /\ x.count \in Nat /\ x = [key |-> x.key, count |-> c[x.key]]
  OBVIOUS
<1>2. \A x, y \in S : <<x, y>> \in Order(q, S) <=> Above(q, x, y)
  BY DEF Order
<1>3. \A x \in S : <<x, x>> \notin Order(q, S)
  BY <1>1, <1>2 DEF Above
<1>4. ASSUME NEW x \in S, NEW y \in S, x # y PROVE Above(q, x, y) \/ Above(q, y, x)
  <2>1. x.key # y.key
    BY <1>1, <1>4
  <2> QED
    BY <1>1, <2>1 DEF Above
<1>5. ASSUME NEW x \in S, NEW y \in S, NEW z \in S, Above(q, x, y), Above(q, y, z)
      PROVE  Above(q, x, z)
  BY <1>1, <1>5 DEF Above
<1> QED
  BY <1>2, <1>3, <1>4, <1>5 DEF Orders

\* What Sorted returns.
LEMMA SortedIs ==
    ASSUME NEW q, NEW S, IsFiniteSet(S), Orders(Order(q, S), S)
    PROVE  Enumerates(Sorted(q, S), Order(q, S), S)
<1> DEFINE n == Cardinality(S)
           InOrder(s) == \A i, j \in DOMAIN s : i < j => Above(q, s[i], s[j])
<1>1. n \in Nat
  BY FS_CardinalityType
<1>2. PICK s : Enumerates(s, Order(q, S), S)
  BY EnumerationExists
<1>3. s \in [1 .. n -> S] /\ \A i, j \in 1 .. n : i < j => <<s[i], s[j]>> \in Order(q, S)
  BY <1>2 DEF Enumerates
<1> HIDE DEF n
<1>4. \A i, j \in 1 .. n : i # j => s[i] # s[j]
  <2> SUFFICES ASSUME NEW i \in 1 .. n, NEW j \in 1 .. n, i # j, s[i] = s[j] PROVE FALSE
    OBVIOUS
  <2>1. <<s[i], s[j]>> \notin Order(q, S) /\ <<s[j], s[i]>> \notin Order(q, S)
    BY <1>3 DEF Orders
  <2>2. ~(i < j) /\ ~(j < i)
    BY <1>3, <2>1
  <2> QED
    BY <1>1, <2>2
<1>5. \A x \in S, y \in S : <<x, y>> \in Order(q, S) <=> Above(q, x, y)
  BY DEF Order
<1>6. s \in SetToSeqs(S) /\ InOrder(s)
  <2>1. s \in SetToSeqs(S)
    BY <1>3, <1>4 DEF SetToSeqs, n
  <2>2. ASSUME NEW i \in 1 .. n, NEW j \in 1 .. n, i < j PROVE Above(q, s[i], s[j])
    BY <1>3, <1>5, <2>2
  <2>3. DOMAIN s = 1 .. n
    BY <1>3
  <2> QED
    BY <2>1, <2>2, <2>3
<1> DEFINE t == Sorted(q, S)
<1>7. t \in SetToSeqs(S) /\ InOrder(t)
  <2>1. t = CHOOSE u \in SetToSeqs(S) : InOrder(u)
    BY DEF Sorted
  <2> HIDE DEF InOrder, t
  <2> QED
    BY <1>6, <2>1
<1> HIDE DEF t
<1>8. t \in [1 .. n -> S]
  BY <1>7 DEF SetToSeqs, n
<1>9. ASSUME NEW i \in 1 .. n, NEW j \in 1 .. n, i < j PROVE <<t[i], t[j]>> \in Order(q, S)
  <2>1. Above(q, t[i], t[j]) /\ t[i] \in S /\ t[j] \in S
    BY <1>7, <1>8, <1>9
  <2> QED
    BY <1>5, <2>1
<1>10. Enumerates(t, Order(q, S), S)
  BY <1>8, <1>9 DEF Enumerates, n
<1> QED
  BY <1>10 DEF t

\* The rank of a key is the place of its item.
LEMMA RankIsPlace ==
    ASSUME NEW q, NEW e, NEW S, NEW k \in Keys(q, e), IsFiniteSet(S),
           S = {Item(q, e, j) : j \in Keys(q, e)}
    PROVE  Rank(q, e, k) = Place(Item(q, e, k), Order(q, S), S) + 1
<1> DEFINE K == Keys(q, e)
           c == [j \in K |-> Count(q, e, j)]
           J == {j \in K : Precedes(q, e, j, k)}
           x == Item(q, e, k)
           T == Below(x, Order(q, S), S)
           f == [y \in T |-> y.key]
<1>1. /\ \A j \in K : Item(q, e, j) \in S /\ Item(q, e, j).key = j
                      /\ Item(q, e, j).count = Count(q, e, j)
      /\ \A y \in S : y.key \in K /\ y = Item(q, e, y.key)
  BY DEF Item
<1>2. \A j \in K : Precedes(q, e, j, k) <=> Above(q, Item(q, e, j), x)
  BY <1>1 DEF Precedes, Above
<1>3. \A y \in S : y \in T <=> Above(q, y, x)
  BY <1>1 DEF Below, Order
<1>4. T \in SUBSET S
  BY DEF Below
<1> HIDE DEF T
<1>5. f \in Bijection(T, J)
  <2> HIDE DEF x
  <2>1. \A y \in T : y.key \in J
    <3> SUFFICES ASSUME NEW y \in T PROVE y.key \in J
      OBVIOUS
    <3>1. y \in S /\ Above(q, y, x) /\ y.key \in K /\ y = Item(q, e, y.key)
      BY <1>1, <1>3, <1>4
    <3> HIDE DEF K
    <3>2. Precedes(q, e, y.key, k)
      BY <1>2, <3>1
    <3> QED
      BY <3>1, <3>2
  <2>2. \A y, z \in T : y.key = z.key => y = z
    BY <1>1, <1>4
  <2>3. \A j \in J : Item(q, e, j) \in T /\ Item(q, e, j).key = j
    BY <1>1, <1>2, <1>3
  <2> HIDE DEF J, K
  <2> QED
    BY <2>1, <2>2, <2>3 DEF Bijection, Injection, IsInjective, Surjection
<1>6. IsFiniteSet(T)
  BY <1>4, FS_Subset
<1>7. Cardinality(T) = Cardinality(J)
  <2> HIDE DEF J, f
  <2>1. ExistsBijection(T, J)
    BY <1>5 DEF ExistsBijection
  <2> QED
    BY <1>6, <2>1, FS_Bijection
<1> QED
  BY <1>7 DEF Rank, Place, T

\* The items of all events are right.
LEMMA ItemsAnalyse ==
    ASSUME NEW q, q.limit \in Int, NEW e \in Seq(Dated)
    PROVE  Analyse(Items(q, Newest(e, Len(e))), q, e)
<1> DEFINE K == Keys(q, e)
           S == Tally(q, Newest(e, Len(e)))
           n == Cardinality(S)
           s == Sorted(q, S)
           B == Order(q, S)
           items == Items(q, Newest(e, Len(e)))
           limit == Limit(q)
<1>1. /\ S = {Item(q, e, k) : k \in K} /\ IsFiniteSet(S) /\ K \subseteq Nat
      /\ \A k : Count(q, e, k) \in Nat
  BY TallyIs, CountNewest
<1> HIDE DEF S
<1>2. Orders(B, S)
  <2> DEFINE c == [k \in K |-> Count(q, e, k)]
  <2>1. c \in [K -> Nat] /\ K \in SUBSET Nat
    BY <1>1
  <2>2. S = {[key |-> k, count |-> c[k]] : k \in K}
    BY <1>1 DEF Item
  <2> HIDE DEF c, K
  <2> QED
    BY <2>1, <2>2, ItemsOrdered
<1> HIDE DEF B
<1>3. Enumerates(s, B, S)
  BY <1>1, <1>2, SortedIs DEF B
<1> HIDE DEF s
<1>4. n \in Nat
  BY <1>1, FS_CardinalityType
<1>5. /\ \A i \in 1 .. n : s[i] \in S /\ Place(s[i], B, S) = i - 1
      /\ \A x \in S : \E i \in 1 .. n : s[i] = x
      /\ s \in [1 .. n -> S]
  <2>1. s \in [1 .. n -> S]
    BY <1>3 DEF Enumerates
  <2>2. /\ \A i \in 1 .. n : s[i] \in S /\ Place(s[i], B, S) = i - 1
        /\ \A x \in S : \E i \in 1 .. n : s[i] = x
    <3>1. IsFiniteSet(S)
      BY <1>1
    <3> QED
      BY <1>2, <1>3, <3>1, EnumerationPlaces
  <2> QED
    BY <2>1, <2>2
<1> HIDE DEF n
<1>6. \A k \in K : Rank(q, e, k) = Place(Item(q, e, k), B, S) + 1
  BY <1>1, RankIsPlace DEF B
<1>7. \A i \in 1 .. n : /\ s[i].key \in K /\ s[i].count = Count(q, e, s[i].key)
                        /\ Rank(q, e, s[i].key) = i
  <2> SUFFICES ASSUME NEW i \in 1 .. n
               PROVE  /\ s[i].key \in K /\ s[i].count = Count(q, e, s[i].key)
                      /\ Rank(q, e, s[i].key) = i
    OBVIOUS
  <2>1. PICK k \in K : s[i] = Item(q, e, k)
    BY <1>1, <1>5
  <2>2. s[i].key = k /\ s[i].count = Count(q, e, k)
    BY <2>1 DEF Item
  <2>3. Rank(q, e, k) = i
    BY <1>4, <1>5, <1>6, <2>1
  <2> QED
    BY <2>2, <2>3
<1>8. \A k \in K : Rank(q, e, k) \in 1 .. n
  <2> SUFFICES ASSUME NEW k \in K PROVE Rank(q, e, k) \in 1 .. n
    OBVIOUS
  <2>1. PICK i \in 1 .. n : s[i] = Item(q, e, k)
    BY <1>1, <1>5
  <2>2. s[i].key = k
    BY <2>1 DEF Item
  <2> QED
    BY <1>7, <2>2
<1>9. limit \in Nat \ {0}
  BY GatewayAssumption DEF Limit
<1>10. s \in Seq(S) /\ Len(s) = n
  BY <1>4, <1>5, IsASeq
<1>11. items = IF q.type = "day" \/ n <= limit THEN s ELSE SubSeq(s, 1, limit)
  <2>1. limit = IF q.limit <= 0 THEN DefaultLimit ELSE q.limit
    BY DEF Limit
  <2> QED
    BY <1>10, <2>1 DEF Items, s, S
<1> DEFINE m == IF q.type = "day" \/ n <= limit THEN n ELSE limit
<1> HIDE DEF items, limit
<1>12. m \in 0 .. n /\ \A i \in 1 .. m : i \in 1 .. n
  BY <1>4, <1>9
<1>13. DOMAIN items = 1 .. m /\ \A i \in 1 .. m : items[i] = s[i]
  <2>1. CASE q.type = "day" \/ n <= limit
    BY <1>5, <1>11, <2>1
  <2>2. CASE ~(q.type = "day" \/ n <= limit)
    <3>1. SubSeq(s, 1, limit) = [i \in 1 .. limit |-> s[i]]
      BY <1>4, <1>9, <1>10, <2>2, SubSeqProperties
    <3> QED
      BY <1>11, <2>2, <3>1
  <2> QED
    BY <2>1, <2>2
<1>14. \A i \in DOMAIN items : /\ items[i].key \in K /\ items[i].count = Count(q, e, items[i].key)
                               /\ Rank(q, e, items[i].key) = i
  BY <1>7, <1>12, <1>13
<1>15. \A k \in K : Rank(q, e, k) \in DOMAIN items <=> q.type = "day" \/ Rank(q, e, k) <= limit
  <2> SUFFICES ASSUME NEW k \in K
               PROVE  Rank(q, e, k) \in 1 .. m <=> q.type = "day" \/ Rank(q, e, k) <= limit
    BY <1>13
  <2>1. Rank(q, e, k) \in 1 .. n
    BY <1>8
  <2> QED
    BY <1>4, <1>9, <2>1
<1>16. Analyse(items, q, e)
  BY <1>14, <1>15, AnalyseIs DEF limit
<1> QED
  BY <1>16 DEF items

\* s is a prefix of t.
Begins(s, t) == Len(s) <= Len(t) /\ \A i \in 1 .. Len(s) : s[i] = t[i]

\* A page before end, of a stream that all is now, of which t are trimmed.
PageBefore(all, end, t) ==
    LET room == IF end > PageSize THEN end - PageSize ELSE 0
        below == IF room > t THEN room ELSE t
    IN  Reverse(SubSeq(all, below + 1, end))

\* p is the page of all before end, where old was read of s, from which all grew.
IsNextPage(p, old, s, all, end, t) ==
    /\ s \in Seq(Dated) /\ all \in Seq(Dated) /\ Begins(s, all) /\ end \in 0 .. Len(s)
    /\ t \in Nat /\ p = PageBefore(all, end, t) /\ old = Newest(s, Len(s) - end)

\* A page continues what was read, and is shorter only for what is trimmed.
LEMMA PageContinues ==
    ASSUME NEW s, NEW all, NEW end, NEW p, NEW old, NEW t, IsNextPage(p, old, s, all, end, t)
    PROVE  /\ Len(p) \in 0 .. end
           /\ end - Len(p) >= t \/ Len(p) = 0
           /\ Len(p) # PageSize => end - Len(p) <= t
           /\ old \o p = Newest(s, Len(s) - (end - Len(p)))
<1> DEFINE room == IF end > PageSize THEN end - PageSize ELSE 0
           below == IF room > t THEN room ELSE t
           start == IF below > end THEN end + 1 ELSE below + 1
           u == SubSeq(all, start, end)
           m == end - start + 1
           n == Len(s)
<1>0. /\ s \in Seq(Dated) /\ all \in Seq(Dated) /\ Begins(s, all) /\ end \in 0 .. Len(s)
      /\ t \in Nat /\ p = PageBefore(all, end, t) /\ old = Newest(s, Len(s) - end)
  BY DEF IsNextPage
<1>1. PageSize \in Nat \ {0}
  BY GatewayAssumption
<1>2. /\ n \in Nat /\ Len(all) \in Nat /\ n <= Len(all) /\ end \in Nat /\ end <= n
      /\ \A i \in 1 .. n : all[i] = s[i] /\ s[i] \in Dated
  BY <1>0, LenProperties, ElementOfSeq DEF Begins
<1>3. /\ start \in 1 .. end + 1 /\ m \in 0 .. end
      /\ end - m >= t \/ m = 0
      /\ m # PageSize => end - m <= t
  <2>1. t \in Nat /\ end \in Nat /\ PageSize \in Nat \ {0}
    BY <1>0, <1>1, <1>2
  <2>2. start \in 1 .. end + 1 /\ m \in 0 .. end /\ (end - m >= t \/ m = 0)
    BY <2>1
  <2>3. ASSUME m # PageSize PROVE end - m <= t
    <3>1. CASE below > end
      <4>1. room <= end /\ below = t
        BY <2>1, <3>1
      <4> QED
        BY <2>1, <3>1, <4>1
    <3>2. CASE ~(below > end) /\ room > t
      <4>1. end > PageSize /\ start = end - PageSize + 1
        BY <2>1, <3>2
      <4>2. m = PageSize
        BY <2>1, <4>1
      <4> QED
        BY <2>3, <4>2
    <3>3. CASE ~(below > end) /\ ~(room > t)
      <4>1. start = t + 1
        BY <2>1, <3>3
      <4> QED
        BY <2>1, <4>1
    <3> QED
      BY <3>1, <3>2, <3>3
  <2> QED
    BY <2>2, <2>3
<1>12. u = SubSeq(all, below + 1, end)
  <2>1. CASE below > end
    <3>1. below + 1 \in Int /\ end + 1 \in Int /\ end < below + 1 /\ end < end + 1 /\ end \in Int
      BY <1>0, <1>1, <1>2, <2>1
    <3>2. SubSeq(all, below + 1, end) = <<>> /\ SubSeq(all, end + 1, end) = <<>>
      BY <3>1, SubSeqEmpty
    <3> QED
      BY <2>1, <3>2
  <2>2. CASE ~(below > end)
    BY <2>2
  <2> QED
    BY <2>1, <2>2
<1> HIDE DEF start
<1>4. \A i \in start .. end : all[i] \in Dated
  BY <1>2, <1>3
<1>5. /\ u \in Seq(Dated) /\ Len(u) = m /\ \A i \in 1 .. m : u[i] = all[start + i - 1]
  BY <1>2, <1>3, <1>4, SubSeqProperties
<1> HIDE DEF u
<1>6. p = [i \in 1 .. m |-> u[m - i + 1]]
  <2>1. p = Reverse(u)
    BY <1>0, <1>12 DEF PageBefore, u
  <2> QED
    BY <1>5, <2>1 DEF Reverse
<1>7. \A i \in 1 .. m : p[i] = s[end + 1 - i] /\ p[i] \in Dated
  <2> SUFFICES ASSUME NEW i \in 1 .. m PROVE p[i] = s[end + 1 - i] /\ p[i] \in Dated
    OBVIOUS
  <2>1. m - i + 1 \in 1 .. m /\ start + (m - i + 1) - 1 = end + 1 - i /\ end + 1 - i \in 1 .. n
    BY <1>2, <1>3
  <2>2. p[i] = u[m - i + 1] /\ u[m - i + 1] = all[start + (m - i + 1) - 1]
    BY <1>5, <1>6, <2>1
  <2> QED
    BY <1>2, <2>1, <2>2
<1>8. p \in Seq(Dated) /\ Len(p) = m
  <2>1. p \in [1 .. m -> Dated] /\ m \in Nat
    BY <1>3, <1>6, <1>7
  <2> HIDE DEF m
  <2> QED
    BY <2>1
<1>9. old \in Seq(Dated) /\ Len(old) = n - end /\ \A i \in 1 .. n - end : old[i] = s[n + 1 - i]
  <2>1. \A i \in 1 .. n - end : n + 1 - i \in 1 .. n
    BY <1>2
  <2>2. old = [i \in 1 .. n - end |-> s[n + 1 - i]] /\ n - end \in Nat
    BY <1>0, <1>2 DEF Newest
  <2>3. \A i \in 1 .. n - end : old[i] = s[n + 1 - i] /\ s[n + 1 - i] \in Dated
    BY <1>2, <2>1, <2>2
  <2>4. old \in [1 .. n - end -> Dated]
    BY <2>2, <2>3
  <2> DEFINE k == n - end
  <2>5. k \in Nat /\ old \in [1 .. k -> Dated]
    BY <2>2, <2>4
  <2> HIDE DEF k, n
  <2>6. old \in Seq(Dated) /\ Len(old) = k
    BY <2>5
  <2> QED
    BY <2>3, <2>6 DEF k
<1> DEFINE new == Newest(s, n - (end - m))
<1>10. new = [i \in 1 .. n - (end - m) |-> s[n + 1 - i]]
  BY DEF Newest
<1> HIDE DEF new, n, m
<1>11. old \o p = new
  <2>1. /\ old \o p \in Seq(Dated) /\ Len(old \o p) = (n - end) + m
        /\ \A i \in 1 .. (n - end) + m : (old \o p)[i] =
              IF i <= n - end THEN old[i] ELSE p[i - (n - end)]
    <3>1. old \in Seq(Dated) /\ p \in Seq(Dated) /\ Len(old) = n - end /\ Len(p) = m
      BY <1>8, <1>9
    <3>2. /\ old \o p \in Seq(Dated) /\ Len(old \o p) = Len(old) + Len(p)
          /\ \A i \in 1 .. Len(old) + Len(p) : (old \o p)[i] =
                IF i <= Len(old) THEN old[i] ELSE p[i - Len(old)]
      BY <3>1, ConcatProperties
    <3> QED
      BY <3>1, <3>2
  <2>2. (n - end) + m = n - (end - m)
    BY <1>2, <1>3
  <2>3. \A i \in 1 .. (n - end) + m : (old \o p)[i] = s[n + 1 - i]
    <3> SUFFICES ASSUME NEW i \in 1 .. (n - end) + m PROVE (old \o p)[i] = s[n + 1 - i]
      OBVIOUS
    <3>1. CASE i <= n - end
      <4>1. i \in 1 .. n - end
        BY <1>2, <1>3, <3>1
      <4> QED
        BY <1>9, <2>1, <3>1, <4>1
    <3>2. CASE ~(i <= n - end)
      <4>1. i - (n - end) \in 1 .. m /\ end + 1 - (i - (n - end)) = n + 1 - i
        BY <1>2, <1>3, <3>2
      <4> QED
        BY <1>7, <2>1, <3>2, <4>1
    <3> QED
      BY <3>1, <3>2
  <2>4. old \o p = [i \in 1 .. (n - end) + m |-> (old \o p)[i]]
    BY <2>1, LenProperties
  <2> QED
    BY <1>10, <2>2, <2>3, <2>4
<1> QED
  BY <1>3, <1>8, <1>11 DEF new, n

-------------------------------------------------------------------------------
(* Clicks of one moment                                                    *)

\* A stream as it is read.
Shown(s) == [i \in DOMAIN s |-> EventIn(s[i])]

LEMMA HeldIs ==
    ASSUME StreamInv, NEW c \in Codes, NEW s, s = Shown(stream[c]), NEW t, t = trimmed[c]
    PROVE  /\ Held(c) = s /\ s \in Seq(Dated) /\ Len(s) = Len(stream[c])
           /\ Len(s) \in Nat /\ Begins(s, s) /\ t \in 0 .. Len(s)
           /\ \A i \in 1 .. Len(s) : s[i] = EventIn(stream[c][i])
<1>1. stream[c] \in Seq(Messages) /\ trimmed[c] \in 0 .. Len(stream[c])
  BY DEF StreamInv
<1>2. Held(c) = s
  BY DEF Held, Shown, EventIn
<1> DEFINE m == stream[c]
           n == Len(m)
<1>3. n \in Nat /\ DOMAIN m = 1 .. n /\ \A i \in 1 .. n : m[i] \in Messages
  BY <1>1, LenProperties, ElementOfSeq
<1>4. s = [i \in 1 .. n |-> EventIn(m[i])]
  BY <1>3 DEF Shown
<1> HIDE DEF n, m
<1>5. \A i \in 1 .. n : EventIn(m[i]) \in Dated
  BY <1>3 DEF Dated
<1>6. s \in [1 .. n -> Dated]
  BY <1>4, <1>5
<1>7. s \in Seq(Dated) /\ Len(s) = n
  BY <1>3, <1>6, IsASeq
<1>8. Begins(s, s)
  BY <1>3, <1>7 DEF Begins
<1> QED
  BY <1>1, <1>2, <1>3, <1>4, <1>7, <1>8 DEF n, m

\* Streams grow, and what is trimmed of them.
LEMMA StreamsGrow ==
    ASSUME RequestsInv, SignInTypeOK, StoreInv, StreamInv, [GatewayNext]_gateway_vars,
           NEW c \in Codes, NEW s, s = Shown(stream[c]), NEW z, z = Shown(stream'[c])
    PROVE  /\ Begins(s, z) /\ s \in Seq(Dated) /\ z \in Seq(Dated)
           /\ trimmed[c] \in Nat /\ trimmed'[c] \in Nat /\ trimmed[c] <= trimmed'[c]
<1>1. StreamInv'
  BY StreamStep
<1>2. /\ s \in Seq(Dated) /\ Len(s) = Len(stream[c]) /\ Begins(s, s)
      /\ Len(s) \in Nat /\ trimmed[c] \in 0 .. Len(s)
      /\ \A i \in 1 .. Len(s) : s[i] = EventIn(stream[c][i])
  BY HeldIs
<1>3. stream'[c] \in Seq(Messages) /\ trimmed'[c] \in 0 .. Len(stream'[c])
  BY <1>1 DEF StreamInv
<1>4. /\ z \in Seq(Dated) /\ Len(z) = Len(stream'[c]) /\ Len(z) \in Nat
      /\ \A i \in 1 .. Len(z) : z[i] = EventIn(stream'[c][i])
  <2> DEFINE m == stream'[c]
             n == Len(m)
  <2>1. n \in Nat /\ DOMAIN m = 1 .. n /\ \A i \in 1 .. n : m[i] \in Messages
    BY <1>3, LenProperties, ElementOfSeq
  <2>2. z = [i \in 1 .. n |-> EventIn(m[i])]
    BY <2>1 DEF Shown
  <2> HIDE DEF n, m
  <2>3. z \in [1 .. n -> Dated]
    BY <2>1, <2>2 DEF Dated
  <2> QED
    BY <2>1, <2>2, <2>3, IsASeq DEF n, m
<1>5. CASE UNCHANGED <<stream, trimmed>>
  BY <1>2, <1>5
<1>6. ASSUME NEW r \in Requests, Flush(r)
      PROVE  Begins(s, z) /\ trimmed[c] <= trimmed'[c]
  <2>1. /\ Len(stream'[c]) >= Len(stream[c]) /\ trimmed'[c] >= trimmed[c]
        /\ \A i \in 1 .. Len(stream[c]) : stream'[c][i] = stream[c][i]
    BY <1>6, FlushStep
  <2>2. Len(s) <= Len(z) /\ trimmed[c] <= trimmed'[c]
    BY <1>2, <1>3, <1>4, <2>1
  <2>3. \A i \in 1 .. Len(s) : i \in 1 .. Len(z) /\ s[i] = z[i]
    BY <1>2, <1>4, <2>1, <2>2
  <2> QED
    BY <2>2, <2>3 DEF Begins
<1>7. ASSUME NEW r \in Requests, Arrive(r) PROVE UNCHANGED <<stream, trimmed>>
  BY <1>7, Arrives DEF Arrived
<1>8. ASSUME NEW r \in Requests, Serve(r) PROVE UNCHANGED <<stream, trimmed>>
  BY <1>8, ServedClick
<1>9. trimmed[c] \in Nat /\ trimmed'[c] \in Nat
  BY <1>2, <1>3, <1>4
<1>10. Begins(s, z) /\ trimmed[c] <= trimmed'[c]
  <2>1. CASE GatewayTick \/ GatewayRotate \/ UNCHANGED gateway_vars
    BY <1>5, <1>2, <1>9, <2>1 DEF GatewayTick, GatewayRotate, gateway_vars, click_vars
  <2> QED
    BY <1>2, <1>5, <1>6, <1>7, <1>8, <1>9, <2>1 DEF GatewayNext
<1> QED
  BY <1>2, <1>4, <1>9, <1>10

LEMMA BeginsOn ==
    ASSUME NEW f \in Seq(Dated), NEW s \in Seq(Dated), NEW z \in Seq(Dated),
           Begins(f, s), Begins(s, z)
    PROVE  Begins(f, z)
<1>1. Len(f) \in Nat /\ Len(s) \in Nat /\ Len(z) \in Nat
  BY LenProperties
<1> QED
  BY <1>1 DEF Begins

\* What request a has read of the clicks, newest first: a part of those that there were
\* at its first page, which are still the oldest of stream s.  None was trimmed then, and
\* t are by now.
HasRead(a, s, t) ==
    \/ a.cursor = 0 /\ a.shown = <<>>
    \/ /\ a.first \in Seq(Dated) /\ Begins(a.first, s)
       /\ a.cursor \in 1 .. Len(a.first) + 1
       /\ a.gone \in Nat /\ a.gone <= t /\ a.gone <= a.cursor - 1
       /\ a.shown = Newest(a.first, Len(a.first) + 1 - a.cursor)

\* What analytics answered, and what clicks did.
Analysed(a, t) ==
    \E n \in Nat : /\ a.gone \in Nat /\ a.gone <= n /\ n <= t /\ n <= Len(a.first)
                   /\ Analyse(a.shown, a.query, SubSeq(a.first, n + 1, Len(a.first)))
Displayed(a, s) ==
    \A i \in DOMAIN a.shown : \E j \in 1 .. Len(s) : a.shown[i] = Clicks!toClickEventDTO(s[j])

ReadsRight(a, s, t) ==
    /\ a.query.limit \in Int
    /\ a.stage # "done" => HasRead(a, s, t)
    /\ a.status = 200 /\ a.op = "analytics" => Analysed(a, t)
    /\ a.status = 200 /\ a.op = "clicks" => Displayed(a, s)

ReadsInv == \A r \in Requests : ReadsRight(web[r], Shown(stream[web[r].code]), trimmed[web[r].code])

\* a has the fields of a request.
Complete(a) == a = [f \in RequestFields |-> a[f]]

\* What of a request its steps change.
LEMMA ReadFields ==
    ASSUME NEW a, Complete(a)
    PROVE  /\ \A s : /\ At(a, s).stage = s /\ At(a, s).op = a.op /\ At(a, s).code = a.code
                     /\ At(a, s).status = a.status
                     /\ At(a, s).query = a.query /\ At(a, s).cursor = a.cursor
                     /\ At(a, s).shown = a.shown /\ At(a, s).first = a.first
                     /\ At(a, s).gone = a.gone /\ Complete(At(a, s))
           /\ \A s : /\ Answered(a, s).stage = "done" /\ Answered(a, s).status = s
                     /\ Answered(a, s).op = a.op /\ Answered(a, s).query = a.query
                     /\ Answered(a, s).first = a.first /\ Answered(a, s).code = a.code
                     /\ Complete(Answered(a, s))
           /\ \A x : /\ Showing(a, x).stage = "done" /\ Showing(a, x).op = a.op
                     /\ Showing(a, x).query = a.query /\ Showing(a, x).first = a.first
                     /\ Showing(a, x).shown = x /\ Showing(a, x).code = a.code
                     /\ Showing(a, x).gone = a.gone
           /\ \A s, x, e : /\ Telling(a, s, x, e).stage = "done" /\ Telling(a, s, x, e).op = a.op
                           /\ Telling(a, s, x, e).query = a.query
                           /\ Telling(a, s, x, e).code = a.code
           /\ \A p : /\ Read(a, p).query = a.query /\ Read(a, p).op = a.op
                     /\ Read(a, p).code = a.code /\ Read(a, p).status = a.status
                     /\ Complete(Read(a, p))
<1>0. a = [f \in RequestFields |-> a[f]]
  BY DEF Complete
<1>1. \A s : /\ At(a, s).stage = s
             /\ \A f \in RequestFields \ {"stage"} : At(a, s)[f] = a[f]
             /\ At(a, s) = [f \in RequestFields |-> At(a, s)[f]]
  BY <1>0 DEF At, RequestFields
<1>2. \A s : /\ Answered(a, s).stage = "done" /\ Answered(a, s).status = s
             /\ \A f \in RequestFields \ {"stage", "status"} : Answered(a, s)[f] = a[f]
             /\ Answered(a, s) = [f \in RequestFields |-> Answered(a, s)[f]]
  BY <1>0 DEF Answered, RequestFields
<1>3. \A x : /\ Showing(a, x).shown = x
             /\ \A f \in RequestFields \ {"shown"} : Showing(a, x)[f] = Answered(a, 200)[f]
  BY <1>2 DEF Showing, RequestFields
<1>4. \A s, x, e : \A f \in RequestFields \ {"shown", "click"} :
          Telling(a, s, x, e)[f] = Answered(a, s)[f]
  BY <1>2 DEF Telling, RequestFields
<1>5. \A p : /\ \A f \in RequestFields \ {"shown", "cursor", "first", "gone"} : Read(a, p)[f] = a[f]
             /\ Read(a, p) = [f \in RequestFields |-> Read(a, p)[f]]
  BY <1>0 DEF Read, RequestFields
<1>6. {"stage", "op", "code", "status", "query", "cursor", "shown", "first", "gone"} \subseteq RequestFields
  BY DEF RequestFields
<1> QED
  BY <1>1, <1>2, <1>3, <1>4, <1>5, <1>6 DEF Complete

LEMMA ReadShows ==
    ASSUME NEW a, Complete(a), NEW p, NEW all, all = Held(a.code)
    PROVE  /\ Read(a, p).shown = a.shown \o p
           /\ Read(a, p).cursor = (IF a.cursor = 0 THEN Len(all) + 1 ELSE a.cursor) - Len(p)
           /\ Read(a, p).first = IF a.cursor = 0 THEN all ELSE a.first
           /\ Read(a, p).gone = IF a.cursor = 0 THEN trimmed[a.code] ELSE a.gone
<1>1. a = [f \in RequestFields |-> a[f]]
  BY DEF Complete
<1> QED
  BY <1>1 DEF Read, RequestFields

\* Requests as they arrive.
LEMMA ArrivesReading ==
    ASSUME RequestsInv, SignInTypeOK, StoreInv, NEW r \in Requests, Arrive(r), NEW s, NEW t
    PROVE  /\ ReadsRight(web'[r], s, t)
           /\ \A q \in Requests \ {r} : web'[q] = web[q]
<1>1. PICK a \in Arrivals : \/ Refuse(r, a) \/ AnswerAtOnce(r, a) \/ StartSignIn(r, a)
                            \/ StartLink(r, a) \/ StartRead(r, a)
  BY DEF Arrive
<1>2. Typed(a) /\ a.status = 0
  BY ArrivalTyped DEF RequestsInv
<1>3. a.query.limit \in Int /\ a.cursor = 0 /\ a.shown = <<>>
  <2>1. PICK op \in config.ops : a \in {Request(op, b, c, x, v) : b \in config.clients,
               c \in Codes, x \in Arguments(op), v \in VisitsOf(op)}
    BY DEF Arrivals
  <2>2. PICK b \in config.clients, c \in Codes, x \in Arguments(op), v \in VisitsOf(op) :
          a = Request(op, b, c, x, v)
    BY <2>1
  <2>3. /\ a.query = IF x.form = "good" THEN x.query ELSE NoQuery
        /\ a.cursor = 0 /\ a.shown = <<>>
    BY <2>2 DEF Request
  <2>4. x.query \in Queries \cup {NoQuery} /\ NoQuery.limit = 0
    BY DEF Arguments, NoQuery
  <2>5. \A q \in Queries : q.limit \in Int
    BY GatewayAssumption
  <2> QED
    BY <2>3, <2>4, <2>5
<1>4. PICK m : \/ web' = [web EXCEPT ![r] = Answered(a, m)]
               \/ web' = [web EXCEPT ![r] = At(a, m)]
  <2>1. CASE Refuse(r, a) \/ AnswerAtOnce(r, a)
    BY <2>1 DEF Refuse, AnswerAtOnce
  <2>2. CASE StartSignIn(r, a) \/ StartLink(r, a) \/ StartRead(r, a)
    BY <2>2 DEF StartSignIn, StartLink, StartRead
  <2> QED
    BY <1>1, <2>1, <2>2
<1>5. /\ web'[r] = Answered(a, m) \/ web'[r] = At(a, m)
      /\ \A q \in Requests \ {r} : web'[q] = web[q]
  BY <1>4 DEF RequestsInv
<1>6. web'[r].status = 200 => web'[r].op \notin {"analytics", "clicks"}
  <2>1. PICK b \in Arrivals : \E w : Arrived(r, b, w)
    BY Arrives
  <2>2. PICK w : Arrived(r, b, w)
    BY <2>1
  <2>3. web'[r] = w
    BY <2>2 DEF Arrived, RequestsInv
  <2> QED
    BY <2>2, <2>3 DEF Arrived
<1>7. /\ web'[r].query.limit \in Int
      /\ web'[r].stage # "done" => web'[r].cursor = 0 /\ web'[r].shown = <<>>
  <2>1. Complete(a)
    BY <1>2 DEF Typed, Complete
  <2>2. CASE web'[r] = Answered(a, m)
    <3>1. Answered(a, m).query = a.query /\ Answered(a, m).stage = "done"
      BY <2>1, ReadFields
    <3> QED
      BY <1>3, <2>2, <3>1
  <2>3. CASE web'[r] = At(a, m)
    <3>1. /\ At(a, m).query = a.query /\ At(a, m).cursor = a.cursor
          /\ At(a, m).shown = a.shown
      BY <2>1, ReadFields
    <3> QED
      BY <1>3, <2>3, <3>1
  <2> QED
    BY <1>5, <2>2, <2>3
<1> QED
  BY <1>5, <1>6, <1>7 DEF ReadsRight, HasRead

\* The newest elements of a sequence are those of what is left when the others go.
LEMMA NewestRest ==
    ASSUME NEW f \in Seq(Dated), NEW n \in Nat, n <= Len(f),
           NEW e, e = SubSeq(f, n + 1, Len(f))
    PROVE  e \in Seq(Dated) /\ Newest(f, Len(f) - n) = Newest(e, Len(e))
<1> DEFINE k == Len(f)
           m == k - n
<1>1. k \in Nat /\ m \in Nat /\ n + 1 \in 1 .. k + 1
      /\ \A i \in n + 1 .. k : i \in 1 .. k /\ f[i] \in Dated
  BY LenProperties, ElementOfSeq
<1>2. e = [i \in 1 .. m |-> f[n + i]] /\ e \in Seq(Dated) /\ Len(e) = m
  <2>1. e \in Seq(Dated) /\ Len(e) = m /\ \A i \in 1 .. m : e[i] = f[(n + 1) + i - 1]
    BY <1>1, SubSeqProperties
  <2>2. \A i \in 1 .. m : (n + 1) + i - 1 = n + i
    BY <1>1
  <2>3. e = [i \in 1 .. m |-> e[i]]
    BY <2>1, LenProperties
  <2> QED
    BY <2>1, <2>2, <2>3
<1>3. \A i \in 1 .. m : m + 1 - i \in 1 .. m /\ n + (m + 1 - i) = k + 1 - i
  BY <1>1
<1> HIDE DEF k, m
<1>4. \A i \in 1 .. m : e[m + 1 - i] = f[k + 1 - i]
  <2>1. \A j \in 1 .. m : e[j] = f[n + j]
    BY <1>2
  <2> SUFFICES ASSUME NEW i \in 1 .. m PROVE e[m + 1 - i] = f[k + 1 - i]
    OBVIOUS
  <2>2. e[m + 1 - i] = f[n + (m + 1 - i)]
    BY <1>3, <2>1
  <2> QED
    BY <1>3, <2>2
<1>5. Newest(f, m) = Newest(e, m)
  BY <1>2, <1>4 DEF Newest, k
<1> QED
  BY <1>2, <1>5 DEF m, k

\* A page read by r: what it has read then, and whether that is all.
LEMMA PageRead ==
    ASSUME RequestsInv, StreamInv, ReadsInv, NEW r \in Requests, web[r].stage = "page",
           NEW p, p = Older(r), NEW b, b = Read(web[r], p),
           NEW all, all = Shown(stream[web[r].code]), NEW t, t = trimmed[web[r].code]
    PROVE  /\ b.query.limit \in Int /\ b.op = web[r].op /\ b.code = web[r].code /\ b.status = 0
           /\ b.query = web[r].query /\ Complete(b)
           /\ HasRead(b, all, t)
           /\ b.first \in Seq(Dated) /\ Begins(b.first, all)
           /\ \E n \in Nat : /\ b.gone \in Nat /\ b.gone <= n /\ n <= Len(b.first)
                             /\ b.shown = Newest(b.first, Len(b.first) - n)
                             /\ Len(p) # PageSize => n <= t
<1> DEFINE a == web[r]
           s == IF a.cursor = 0 THEN all ELSE a.first
           cursor == IF a.cursor = 0 THEN Len(all) + 1 ELSE a.cursor
           gone == IF a.cursor = 0 THEN t ELSE a.gone
           end == cursor - 1
<1>1. /\ Complete(a) /\ a.code \in Codes /\ a.status = 0
      /\ ReadsRight(a, all, t) /\ HasRead(a, all, t)
  BY DEF RequestsInv, Typed, ReadsInv, ReadsRight, Complete
<1>2. /\ all \in Seq(Dated) /\ Len(all) \in Nat /\ Begins(all, all) /\ t \in 0 .. Len(all)
      /\ Held(a.code) = all /\ Len(stream[a.code]) = Len(all)
  BY <1>1, HeldIs
<1> HIDE DEF a
<1>3. /\ b.query = a.query /\ b.op = a.op /\ b.code = a.code /\ b.status = a.status
      /\ b.shown = a.shown \o p /\ b.cursor = cursor - Len(p) /\ b.first = s /\ b.gone = gone
      /\ Complete(b)
  <2>1. Complete(a) /\ b = Read(a, p) /\ t = trimmed[a.code]
    BY <1>1 DEF a
  <2>2. /\ Read(a, p).shown = a.shown \o p
        /\ Read(a, p).cursor = (IF a.cursor = 0 THEN Len(all) + 1 ELSE a.cursor) - Len(p)
        /\ Read(a, p).first = IF a.cursor = 0 THEN all ELSE a.first
        /\ Read(a, p).gone = IF a.cursor = 0 THEN trimmed[a.code] ELSE a.gone
    <3>1. Complete(a) /\ all = Held(a.code)
      BY <1>2, <2>1
    <3>2. ASSUME NEW x, x = all, NEW y, y = p
          PROVE  /\ Read(a, y).shown = a.shown \o y
                 /\ Read(a, y).cursor = (IF a.cursor = 0 THEN Len(x) + 1 ELSE a.cursor) - Len(y)
                 /\ Read(a, y).first = IF a.cursor = 0 THEN x ELSE a.first
                 /\ Read(a, y).gone = IF a.cursor = 0 THEN trimmed[a.code] ELSE a.gone
      <4>1. x = Held(a.code)
        BY <3>1, <3>2
      <4> QED
        BY <3>1, <4>1, ReadShows, Zenon
    <3> QED
      BY <3>2
  <2>3. /\ Read(a, p).query = a.query /\ Read(a, p).op = a.op /\ Read(a, p).code = a.code
        /\ Read(a, p).status = a.status /\ Complete(Read(a, p))
    BY <2>1, ReadFields
  <2> QED
    BY <2>1, <2>2, <2>3
<1>4. /\ s \in Seq(Dated) /\ Begins(s, all) /\ Len(s) \in Nat
      /\ cursor \in 1 .. Len(s) + 1 /\ a.shown = Newest(s, Len(s) - end)
      /\ gone \in Nat /\ gone <= t /\ gone <= end
  <2>1. CASE a.cursor = 0
    <3>1. a.shown = <<>>
      BY <1>1, <2>1 DEF HasRead
    <3>2. s = all /\ end = Len(all) /\ Len(s) - end = 0 /\ cursor \in 1 .. Len(s) + 1
          /\ gone \in Nat /\ gone <= t /\ gone <= end
      BY <1>2, <2>1
    <3>3. Newest(s, 0) = <<>>
      BY DEF Newest
    <3> QED
      BY <1>2, <3>1, <3>2, <3>3
  <2>2. CASE a.cursor # 0
    <3>1. /\ a.cursor \in 1 .. Len(a.first) + 1 /\ a.first \in Seq(Dated)
          /\ Begins(a.first, all) /\ a.shown = Newest(a.first, Len(a.first) + 1 - a.cursor)
          /\ a.gone \in Nat /\ a.gone <= t /\ a.gone <= a.cursor - 1
      BY <1>1, <2>2 DEF HasRead
    <3>2. s = a.first /\ cursor = a.cursor /\ Len(a.first) \in Nat /\ gone = a.gone
      BY <2>2, <3>1, LenProperties
    <3>3. Len(s) - end = Len(a.first) + 1 - a.cursor
      BY <3>1, <3>2
    <3> QED
      BY <3>1, <3>2, <3>3
  <2> QED
    BY <2>1, <2>2
<1>5. p = PageBefore(all, end, t)
  <2>1. end = IF a.cursor = 0 THEN Len(all) ELSE a.cursor - 1
    BY <1>2
  <2>2. p = PageTo(a.code, end)
    BY <1>2, <2>1 DEF Older, a
  <2> QED
    BY <1>2, <2>2 DEF PageTo, PageBefore, a
<1> HIDE DEF s, cursor, gone
<1>6. end \in 0 .. Len(s)
  BY <1>4
<1>7. cursor = end + 1
  BY <1>4 DEF cursor
<1> HIDE DEF end
<1>8. /\ Len(p) \in 0 .. end
      /\ end - Len(p) >= t \/ Len(p) = 0
      /\ Len(p) # PageSize => end - Len(p) <= t
      /\ a.shown \o p = Newest(s, Len(s) - (end - Len(p)))
  <2> DEFINE old == a.shown
  <2>1. IsNextPage(p, old, s, all, end, t)
    BY <1>2, <1>4, <1>5, <1>6 DEF IsNextPage
  <2> HIDE DEF old
  <2>2. /\ Len(p) \in 0 .. end
        /\ end - Len(p) >= t \/ Len(p) = 0
        /\ Len(p) # PageSize => end - Len(p) <= t
        /\ old \o p = Newest(s, Len(s) - (end - Len(p)))
    BY <2>1, PageContinues
  <2> QED
    BY <2>2 DEF old
<1> DEFINE n == end - Len(p)
<1>9. /\ n \in Nat /\ n <= Len(s) /\ gone <= n /\ b.cursor = n + 1
      /\ b.cursor \in 1 .. Len(s) + 1 /\ Len(s) + 1 - b.cursor = Len(s) - n
      /\ Len(p) # PageSize => n <= t
  <2> DEFINE l == Len(p)
             k == Len(s)
  <2>1. /\ l \in 0 .. end /\ end \in 0 .. k /\ k \in Nat /\ t \in Nat
        /\ gone \in Nat /\ gone <= t /\ gone <= end /\ (end - l >= t \/ l = 0)
    BY <1>2, <1>4, <1>6, <1>8
  <2>2. b.cursor = (end + 1) - l
    BY <1>3, <1>7
  <2>3. Len(p) # PageSize => n <= t
    BY <1>8
  <2> HIDE DEF l, k
  <2>4. end - l \in Nat /\ end - l <= k /\ gone <= end - l
    BY <2>1
  <2>5. /\ (end + 1) - l = (end - l) + 1 /\ (end - l) + 1 \in 1 .. k + 1
        /\ k + 1 - ((end - l) + 1) = k - (end - l)
    BY <2>1
  <2> QED
    BY <2>2, <2>3, <2>4, <2>5 DEF l, k
<1>10. b.shown = Newest(b.first, Len(b.first) - n)
  BY <1>3, <1>8
<1> HIDE DEF n
<1>11. HasRead(b, all, t)
  <2>1. b.gone <= b.cursor - 1
    BY <1>3, <1>4, <1>9
  <2>2. b.shown = Newest(b.first, Len(b.first) + 1 - b.cursor)
    BY <1>3, <1>9, <1>10
  <2> QED
    BY <1>3, <1>4, <1>9, <2>1, <2>2 DEF HasRead
<1>12. \E k \in Nat : /\ b.gone \in Nat /\ b.gone <= k /\ k <= Len(b.first)
                      /\ b.shown = Newest(b.first, Len(b.first) - k)
                      /\ Len(p) # PageSize => k <= t
  BY <1>3, <1>4, <1>9, <1>10
<1>13. a.query.limit \in Int /\ a = web[r]
  BY <1>1 DEF ReadsRight, a
<1> QED
  BY <1>1, <1>3, <1>4, <1>11, <1>12, <1>13

\* What a request has read stays right while streams grow and are trimmed.
LEMMA StaysReading ==
    ASSUME NEW a, NEW s \in Seq(Dated), NEW t \in Nat, ReadsRight(a, s, t),
           NEW z \in Seq(Dated), NEW u \in Nat, Begins(s, z), t <= u
    PROVE  ReadsRight(a, z, u)
<1>1. HasRead(a, s, t) => HasRead(a, z, u)
  <2>1. ASSUME a.first \in Seq(Dated), Begins(a.first, s) PROVE Begins(a.first, z)
    BY <2>1, BeginsOn
  <2>2. a.gone \in Nat /\ a.gone <= t => a.gone <= u
    OBVIOUS
  <2> QED
    BY <2>1, <2>2 DEF HasRead
<1>2. Analysed(a, t) => Analysed(a, u)
  BY DEF Analysed
<1>3. Displayed(a, s) => Displayed(a, z)
  <2>1. Len(s) \in Nat /\ Len(z) \in Nat /\ Len(s) <= Len(z)
        /\ \A j \in 1 .. Len(s) : j \in 1 .. Len(z) /\ s[j] = z[j]
    BY LenProperties DEF Begins
  <2> QED
    BY <2>1 DEF Displayed
<1> QED
  BY <1>1, <1>2, <1>3 DEF ReadsRight

\* Steps of requests under way.
LEMMA ServesReading ==
    ASSUME RequestsInv, OutcomesInv, SignInTypeOK, StoreInv, StreamInv, ReadsInv,
           NEW r \in Requests, Serve(r), web'[r] # web[r], NEW s, s = Shown(stream[web[r].code]),
           NEW t, t = trimmed[web[r].code], NEW w, w = web'[r]
    PROVE  ReadsRight(w, s, t) /\ w.code = web[r].code
<1> DEFINE a == web[r]
<1>0. Complete(a)
  BY DEF RequestsInv, Typed, Complete
<1>1. /\ a.code \in Codes /\ UnderWay(r) /\ Typed(a)
      /\ web = [q \in Requests |-> web[q]] /\ ReadsRight(a, s, t)
  BY DEF RequestsInv, Typed, ReadsInv
<1>2. ASSUME NEW m, web' = [web EXCEPT ![r] = Answered(a, m)],
             a.op \notin {"analytics", "clicks"} \/ m # 200
      PROVE  ReadsRight(w, s, t) /\ w.code = a.code
  <2>1. w = Answered(a, m)
    BY <1>1, <1>2
  <2>2. /\ w.stage = "done" /\ w.op = a.op /\ w.query = a.query /\ w.status = m
        /\ w.code = a.code
    BY <1>0, <2>1, ReadFields
  <2> QED
    BY <1>1, <1>2, <2>2 DEF ReadsRight
<1>3. ASSUME NEW x, web' = [web EXCEPT ![r] = Showing(a, x)], a.op \notin {"analytics", "clicks"}
      PROVE  ReadsRight(w, s, t) /\ w.code = a.code
  <2>1. w = Showing(a, x)
    BY <1>1, <1>3
  <2>2. /\ w.stage = "done" /\ w.op = a.op /\ w.query = a.query /\ w.code = a.code
    BY <1>0, <2>1, ReadFields
  <2> QED
    BY <1>1, <1>3, <2>2 DEF ReadsRight
<1>4. ASSUME NEW m, web' = [web EXCEPT ![r] = At(a, m)], a.stage # "done"
      PROVE  ReadsRight(w, s, t) /\ w.code = a.code
  <2>1. w = At(a, m)
    BY <1>1, <1>4
  <2>2. /\ w.op = a.op /\ w.query = a.query /\ w.status = a.status /\ w.shown = a.shown
        /\ w.first = a.first /\ w.cursor = a.cursor /\ w.code = a.code /\ w.gone = a.gone
    BY <1>0, <2>1, ReadFields
  <2>3. HasRead(w, s, t)
    BY <1>1, <1>4, <2>2 DEF ReadsRight, HasRead
  <2>4. a.status = 0
    BY <1>1, <1>4 DEF Typed
  <2> QED
    BY <1>1, <2>2, <2>3, <2>4 DEF ReadsRight
<1>5. CASE Reply(r)
  <2>1. /\ a.stage = "link"
        /\ web' = [web EXCEPT ![r] = Telling(a, StatusOf(a.op, req[r].answer), Content(r), Recorded(r))]
    BY <1>5 DEF Reply
  <2>2. a.op \notin {"analytics", "clicks"}
    BY <1>1, <2>1 DEF UnderWay, LinkOps
  <2>3. w = Telling(a, StatusOf(a.op, req[r].answer), Content(r), Recorded(r))
    BY <1>1, <2>1
  <2>4. w.stage = "done" /\ w.op = a.op /\ w.query = a.query /\ w.code = a.code
    BY <1>0, <2>3, ReadFields
  <2> QED
    BY <1>1, <2>2, <2>4 DEF ReadsRight
<1>6. CASE SignInRuns(r) \/ LinkRuns(r)
  <2>1. /\ a.stage \in {"sign_in", "link"}
        /\ \/ \E m : web' = [web EXCEPT ![r] = Answered(a, m)]
           \/ UNCHANGED web
    BY <1>6 DEF SignInRuns, LinkRuns, Finish
  <2>2. a.op \notin {"analytics", "clicks"}
    BY <1>1, <2>1 DEF UnderWay, LinkOps
  <2> QED
    BY <1>2, <2>1, <2>2
<1>7. CASE Availability(r) \/ ListMine(r)
  <2>1. a.stage \in {"availability", "list"} /\ \E x : web' = [web EXCEPT ![r] = Showing(a, x)]
    BY <1>7 DEF Availability, ListMine
  <2>2. a.op \notin {"analytics", "clicks"}
    BY <1>1, <2>1 DEF UnderWay
  <2> QED
    BY <1>3, <2>1, <2>2
<1>8. CASE Owned(r) \/ Exists(r)
  <2>1. /\ a.stage \in {"owned", "exists"}
        /\ \/ \E m \in {404, 403, 400} : web' = [web EXCEPT ![r] = Answered(a, m)]
           \/ /\ a.op \notin {"analytics", "clicks"}
              /\ \E x : web' = [web EXCEPT ![r] = Showing(a, x)]
           \/ \E m : web' = [web EXCEPT ![r] = At(a, m)]
    BY <1>8 DEF Owned, Exists, Finish, Goto, ShowLink
  <2> QED
    BY <1>2, <1>3, <1>4, <2>1
<1>9. CASE NextPage(r)
  <2> DEFINE p == Older(r)
             b == Read(a, p)
  <2>1. a.stage = "page"
    BY <1>9 DEF NextPage
  <2>2. /\ b.query.limit \in Int /\ b.op = a.op /\ b.code = a.code /\ b.status = 0
        /\ b.query = a.query /\ Complete(b)
        /\ HasRead(b, s, t)
        /\ b.first \in Seq(Dated) /\ Begins(b.first, s)
        /\ \E n \in Nat : /\ b.gone \in Nat /\ b.gone <= n /\ n <= Len(b.first)
                          /\ b.shown = Newest(b.first, Len(b.first) - n)
                          /\ Len(p) # PageSize => n <= t
    BY <2>1, PageRead
  <2>3. b.shown = a.shown \o p
    BY <1>0, ReadShows
  <2>4. \/ Len(p) = PageSize /\ web' = [web EXCEPT ![r] = At(b, "exists")]
        \/ a.op = "clicks" /\ web' = [web EXCEPT ![r] = Showing(b, Listed(a.shown \o p))]
        \/ /\ ~(a.op = "analytics" /\ Len(p) = PageSize) /\ a.op = "analytics"
           /\ web' = [web EXCEPT ![r] = Showing(b, Items(a.query, a.shown \o p))]
    BY <1>9 DEF NextPage
  <2> HIDE DEF p, b
  <2>5. CASE Len(p) = PageSize /\ web' = [web EXCEPT ![r] = At(b, "exists")]
    <3>1. w = At(b, "exists")
      BY <1>1, <2>5
    <3>2. /\ w.op = b.op /\ w.query = b.query /\ w.status = b.status /\ w.shown = b.shown
          /\ w.first = b.first /\ w.cursor = b.cursor /\ w.code = b.code /\ w.gone = b.gone
      BY <2>2, <3>1, ReadFields
    <3>3. HasRead(w, s, t)
      BY <2>2, <3>2 DEF HasRead
    <3> QED
      BY <2>2, <3>2, <3>3 DEF ReadsRight
  <2>6. CASE a.op = "clicks" /\ web' = [web EXCEPT ![r] = Showing(b, Listed(a.shown \o p))]
    <3>1. w = Showing(b, Listed(b.shown))
      BY <1>1, <2>3, <2>6
    <3>2. /\ w.op = b.op /\ w.query = b.query /\ w.stage = "done" /\ w.code = b.code
          /\ w.shown = Listed(b.shown)
      BY <2>2, <3>1, ReadFields
    <3>3. PICK n \in Nat : n <= Len(b.first) /\ b.shown = Newest(b.first, Len(b.first) - n)
      BY <2>2
    <3>4. Displayed(w, s)
      <4> DEFINE f == b.first
                 m == Len(f) - n
      <4>1. Len(f) \in Nat /\ Len(s) \in Nat /\ Len(f) <= Len(s)
            /\ \A i \in 1 .. Len(f) : s[i] = f[i]
        BY <2>2, <1>1, HeldIs, LenProperties DEF Begins
      <4>2. b.shown = [i \in 1 .. m |-> f[Len(f) + 1 - i]]
        BY <3>3 DEF Newest
      <4>3. w.shown = [i \in 1 .. m |-> Clicks!toClickEventDTO(f[Len(f) + 1 - i])]
        BY <3>2, <4>2 DEF Listed
      <4>4. \A i \in 1 .. m : /\ Len(f) + 1 - i \in 1 .. Len(s)
                              /\ s[Len(f) + 1 - i] = f[Len(f) + 1 - i]
        BY <3>3, <4>1
      <4> HIDE DEF f, m
      <4> QED
        BY <4>3, <4>4 DEF Displayed
    <3> QED
      BY <2>2, <2>6, <3>2, <3>4 DEF ReadsRight
  <2>7. CASE /\ ~(a.op = "analytics" /\ Len(p) = PageSize) /\ a.op = "analytics"
             /\ web' = [web EXCEPT ![r] = Showing(b, Items(a.query, a.shown \o p))]
    <3>1. w = Showing(b, Items(b.query, b.shown))
      BY <1>1, <2>2, <2>3, <2>7
    <3>2. /\ w.query = b.query /\ w.stage = "done" /\ w.first = b.first
          /\ w.op = b.op /\ w.code = b.code /\ w.gone = b.gone
          /\ w.shown = Items(b.query, b.shown)
      BY <2>2, <3>1, ReadFields
    <3>3. PICK n \in Nat : /\ b.gone \in Nat /\ b.gone <= n /\ n <= Len(b.first) /\ n <= t
                           /\ b.shown = Newest(b.first, Len(b.first) - n)
      BY <2>2, <2>7
    <3> DEFINE e == SubSeq(b.first, n + 1, Len(b.first))
    <3>4. e \in Seq(Dated) /\ b.shown = Newest(e, Len(e))
      BY <2>2, <3>3, NewestRest
    <3> HIDE DEF e
    <3>5. Analyse(Items(b.query, b.shown), b.query, e)
      BY <2>2, <3>4, ItemsAnalyse
    <3>6. Analysed(w, t)
      BY <3>2, <3>3, <3>5 DEF Analysed, e
    <3> QED
      BY <2>2, <2>7, <3>2, <3>6 DEF ReadsRight
  <2> QED
    BY <2>4, <2>5, <2>6, <2>7
<1> QED
  BY <1>5, <1>6, <1>7, <1>8, <1>9 DEF Serve

LEMMA ReadsStep ==
    ASSUME RequestsInv, OutcomesInv, SignInTypeOK, StoreInv, StreamInv, ReadsInv,
           [GatewayNext]_gateway_vars
    PROVE  ReadsInv'
<1> DEFINE Right(a) == ReadsRight(a, Shown(stream'[a.code]), trimmed'[a.code])
<1>1. ASSUME NEW a, a.code \in Codes, ReadsRight(a, Shown(stream[a.code]), trimmed[a.code])
      PROVE  Right(a)
  <2> DEFINE s == Shown(stream[a.code])
             z == Shown(stream'[a.code])
             t == trimmed[a.code]
             u == trimmed'[a.code]
  <2>1. /\ Begins(s, z) /\ s \in Seq(Dated) /\ z \in Seq(Dated)
        /\ t \in Nat /\ u \in Nat /\ t <= u
    BY <1>1, StreamsGrow
  <2>2. ReadsRight(a, s, t)
    BY <1>1
  <2> HIDE DEF s, z, t, u
  <2>3. ReadsRight(a, z, u)
    BY <2>1, <2>2, StaysReading
  <2> QED
    BY <2>3 DEF z, u
<1> HIDE DEF Right
<1>2. ASSUME NEW r \in Requests, web'[r] = web[r] PROVE Right(web'[r])
  <2>1. web[r].code \in Codes /\ ReadsRight(web[r], Shown(stream[web[r].code]), trimmed[web[r].code])
    BY DEF RequestsInv, Typed, ReadsInv
  <2> QED
    BY <1>1, <1>2, <2>1
<1>3. ASSUME NEW r \in Requests, Arrive(r), NEW q \in Requests PROVE Right(web'[q])
  <2>1. CASE q = r
    BY <1>3, <2>1, ArrivesReading DEF Right
  <2>2. CASE q # r
    <3>1. web'[q] = web[q]
      BY <1>3, <2>2, ArrivesReading
    <3> QED
      BY <1>2, <3>1
  <2> QED
    BY <2>1, <2>2
<1>4. ASSUME NEW r \in Requests, Serve(r), NEW q \in Requests PROVE Right(web'[q])
  <2>1. CASE web'[q] = web[q]
    BY <1>2, <2>1
  <2>2. CASE web'[q] # web[q]
    <3>1. q = r
      BY <1>4, <2>2, ServedClick
    <3> DEFINE w == web'[r]
    <3>2. /\ web[r].code \in Codes /\ w.code = web[r].code
          /\ ReadsRight(w, Shown(stream[web[r].code]), trimmed[web[r].code])
      BY <1>4, <2>2, <3>1, ServesReading DEF RequestsInv, Typed
    <3> HIDE DEF w
    <3>3. Right(w)
      BY <1>1, <3>2
    <3> QED
      BY <3>1, <3>3 DEF w
  <2> QED
    BY <2>1, <2>2
<1>5. ASSUME NEW r \in Requests, Flush(r), NEW q \in Requests PROVE Right(web'[q])
  BY <1>2, <1>5, FlushStep
<1>6. CASE UNCHANGED web
  BY <1>2, <1>6 DEF ReadsInv, Right
<1>7. (\A q \in Requests : Right(web'[q])) => ReadsInv'
  BY DEF ReadsInv, Right
<1> QED
  BY <1>3, <1>4, <1>5, <1>6, <1>7 DEF GatewayNext, GatewayTick, GatewayRotate, gateway_vars

LEMMA ReadsInit == GatewayInit => ReadsInv
<1> SUFFICES ASSUME GatewayInit, NEW r \in Requests, NEW s, NEW t
             PROVE  ReadsRight(web[r], s, t)
  BY DEF ReadsInv
<1>1. web[r] = NewRequest
  BY DEF GatewayInit
<1>2. NewRequest.query.limit = 0 /\ NewRequest.cursor = 0 /\ NewRequest.shown = <<>>
      /\ NewRequest.status = 0
  BY DEF NewRequest, NoQuery
<1> QED
  BY <1>1, <1>2 DEF ReadsRight, HasRead

\* What analytics and clicks read is right, always.
LEMMA ReadsAreRight ==
    Spec => [](SignInTypeOK /\ StoreInv /\ GatewayInv /\ ReadsInv)
<1>1. SignInTypeOK /\ StoreInv /\ GatewayInv /\ ReadsInv /\ [GatewayNext]_gateway_vars => ReadsInv'
  BY ReadsStep DEF GatewayInv
<1> QED
  BY <1>1, GatewayInvariant, ReadsInit, PTL DEF Spec

\* docs/api/clicks.md:57, service.go:389-433: analytics reads a stream in pages while
\* clicks come in and old ones are trimmed (recorder.go:210), and yet counts the events
\* there were at its first page but for the oldest, trimmed since: every item all events
\* of its key, in order, none twice, and only what the limit allows is left out; for any
\* page size, limit, streams, lengths and interleavings.
THEOREM AnalyticsHadItsMoment == Spec => []AnalyticsOfOneMoment
<1>1. ASSUME ReadsInv, StreamInv, RequestsInv PROVE AnalyticsOfOneMoment
  <2> SUFFICES ASSUME NEW r \in Requests, Told(r, {200}, {"analytics"})
               PROVE  \E n \in web[r].gone .. trimmed[web[r].code] :
                         /\ n <= Len(web[r].first)
                         /\ Analyse(web[r].shown, web[r].query,
                                    SubSeq(web[r].first, n + 1, Len(web[r].first)))
    BY DEF AnalyticsOfOneMoment
  <2>1. Analysed(web[r], trimmed[web[r].code])
    BY <1>1 DEF ReadsInv, ReadsRight, Told
  <2>2. trimmed[web[r].code] \in Nat
    <3>1. web[r].code \in Codes
      BY <1>1 DEF RequestsInv, Typed
    <3>2. trimmed[web[r].code] \in 0 .. Len(stream[web[r].code])
      BY <1>1, <3>1 DEF StreamInv
    <3> QED
      BY <3>2
  <2>3. PICK n \in Nat : /\ web[r].gone \in Nat /\ web[r].gone <= n
                         /\ n <= trimmed[web[r].code] /\ n <= Len(web[r].first)
                         /\ Analyse(web[r].shown, web[r].query,
                                    SubSeq(web[r].first, n + 1, Len(web[r].first)))
    BY <2>1 DEF Analysed
  <2>4. n \in web[r].gone .. trimmed[web[r].code]
    BY <2>2, <2>3
  <2> QED
    BY <2>3, <2>4
<1>2. GatewayInv /\ ReadsInv => AnalyticsOfOneMoment
  BY <1>1 DEF GatewayInv
<1> QED
  BY <1>2, ReadsAreRight, PTL

-------------------------------------------------------------------------------
(* What clicks tells                                                       *)

\* A finite set of numbers has a least and a greatest one.
LEMMA Extremes ==
    ASSUME NEW S \in SUBSET Int, IsFiniteSet(S), S # {}
    PROVE  /\ \E m \in S : \A x \in S : m <= x
           /\ \E m \in S : \A x \in S : x <= m
<1> DEFINE B == {z \in S \X S : z[1] < z[2]}
           n == Cardinality(S)
<1>1. \A x, y \in S : <<x, y>> \in B <=> x < y
  OBVIOUS
<1> HIDE DEF B
<1>2. Orders(B, S)
  BY <1>1 DEF Orders
<1>3. PICK s : Enumerates(s, B, S)
  BY <1>2, EnumerationExists
<1>4. \A x \in S : \E i \in 1 .. n : s[i] = x
  BY <1>2, <1>3, EnumerationPlaces
<1>5. /\ s \in [1 .. n -> S] /\ n \in Nat
      /\ \A i, j \in 1 .. n : i < j => s[i] < s[j]
  <2>1. s \in [1 .. n -> S] /\ \A i, j \in 1 .. n : i < j => <<s[i], s[j]>> \in B
    BY <1>3 DEF Enumerates
  <2> QED
    BY <1>1, <2>1, FS_CardinalityType
<1> HIDE DEF n
<1>6. 1 \in 1 .. n /\ n \in 1 .. n
  <2>1. PICK x : x \in S
    OBVIOUS
  <2>2. PICK i \in 1 .. n : s[i] = x
    BY <1>4, <2>1
  <2> QED
    BY <1>5, <2>2
<1>7. ASSUME NEW x \in S PROVE s[1] <= x /\ x <= s[n]
  <2>1. PICK i \in 1 .. n : s[i] = x
    BY <1>4
  <2>2. (1 = i \/ 1 < i) /\ (i = n \/ i < n)
    BY <1>5
  <2>3. s[1] \in Int /\ s[n] \in Int
    BY <1>5, <1>6
  <2> QED
    BY <1>5, <1>6, <2>1, <2>2, <2>3
<1> QED
  BY <1>5, <1>6, <1>7

\* FiniteSetsExt!Min and Max.
LEMMA MinIs ==
    ASSUME NEW S, S \subseteq Int, NEW m \in S, \A n \in S : m <= n
    PROVE  Clicks!Min(S) = m
<1> DEFINE P(x) == x \in S /\ \A y \in S : x =< y
<1>1. P(m)
  OBVIOUS
<1>2. \A x : P(x) => x = m
  OBVIOUS
<1> HIDE DEF P
<1>3. (CHOOSE x : P(x)) = m
  BY <1>1, <1>2
<1>4. Clicks!Min(S) = CHOOSE x : P(x)
  BY DEF Clicks!Min, P
<1> QED
  BY <1>3, <1>4

LEMMA MaxIs ==
    ASSUME NEW S, S \subseteq Int, NEW m \in S, \A n \in S : m >= n
    PROVE  Clicks!Max(S) = m
<1> DEFINE P(x) == x \in S /\ \A y \in S : x >= y
<1>1. P(m)
  OBVIOUS
<1>2. \A x : P(x) => x = m
  OBVIOUS
<1> HIDE DEF P
<1>3. (CHOOSE x : P(x)) = m
  BY <1>1, <1>2
<1>4. Clicks!Max(S) = CHOOSE x : P(x)
  BY DEF Clicks!Max, P
<1> QED
  BY <1>3, <1>4

LEMMA MinMax ==
    ASSUME NEW k \in Nat, NEW S \in SUBSET (1 .. k), S # {}
    PROVE  /\ Clicks!Min(S) \in S /\ Clicks!Max(S) \in S
           /\ \A x \in S : Clicks!Min(S) <= x /\ x <= Clicks!Max(S)
<1>1. IsFiniteSet(S) /\ S \in SUBSET Int
  <2>1. IsFiniteSet(1 .. k)
    BY FS_Interval
  <2>2. IsFiniteSet(S)
    BY <2>1, FS_Subset
  <2> QED
    BY <2>2
<1>2. PICK m \in S : \A x \in S : m <= x
  BY <1>1, Extremes
<1>3. PICK n \in S : \A x \in S : x <= n
  BY <1>1, Extremes
<1>4. Clicks!Min(S) = m
  BY <1>1, <1>2, MinIs
<1>5. Clicks!Max(S) = n
  BY <1>1, <1>3, MaxIs
<1> QED
  BY <1>2, <1>3, <1>4, <1>5

\* strings.Cut and TrimSpace, of any sequence.
LEMMA CutIs ==
    ASSUME NEW T, NEW s \in Seq(T), NEW sep
    PROVE  \E n \in 0 .. Len(s) : /\ Clicks!Cut(s, sep) = SubSeq(s, 1, n)
                                  /\ \A i \in 1 .. n : s[i] # sep
<1> DEFINE at == {i \in DOMAIN s : s[i] = sep}
<1>1. Len(s) \in Nat /\ DOMAIN s = 1 .. Len(s)
  BY LenProperties
<1>2. CASE at = {}
  <2>1. Clicks!Cut(s, sep) = s
    BY <1>2 DEF Clicks!Cut
  <2>2. SubSeq(s, 1, Len(s)) = s
    OBVIOUS
  <2>3. \A i \in 1 .. Len(s) : s[i] # sep
    BY <1>1, <1>2
  <2>4. Len(s) \in 0 .. Len(s) /\ Clicks!Cut(s, sep) = SubSeq(s, 1, Len(s))
    BY <1>1, <2>1, <2>2
  <2> QED
    BY <2>3, <2>4, Zenon
<1>3. CASE at # {}
  <2>1. at \in SUBSET (1 .. Len(s))
    BY <1>1
  <2> DEFINE m == Clicks!Min(at)
  <2>2. m \in at /\ \A i \in at : m <= i
    BY <1>1, <1>3, <2>1, MinMax
  <2>3. Clicks!Cut(s, sep) = SubSeq(s, 1, m - 1)
    BY <1>3 DEF Clicks!Cut
  <2> HIDE DEF m
  <2>4. m - 1 \in 0 .. Len(s) /\ \A i \in 1 .. m - 1 : s[i] # sep
    BY <1>1, <2>2
  <2> QED
    BY <2>3, <2>4
<1> QED
  BY <1>2, <1>3

LEMMA TrimIs ==
    ASSUME NEW T, NEW s \in Seq(T)
    PROVE  \/ Clicks!TrimSpace(s) = <<>>
           \/ \E m, n \in 1 .. Len(s) :
                /\ m <= n /\ Clicks!TrimSpace(s) = SubSeq(s, m, n) /\ s[m] # Clicks!Space
                /\ \A i \in 1 .. Len(s) : s[i] # Clicks!Space => m <= i
<1> DEFINE ink == {i \in DOMAIN s : s[i] # Clicks!Space}
<1>1. Len(s) \in Nat /\ DOMAIN s = 1 .. Len(s)
  BY LenProperties
<1>2. CASE ink = {}
  BY <1>2 DEF Clicks!TrimSpace
<1>3. CASE ink # {}
  <2> DEFINE m == Clicks!Min(ink)
             n == Clicks!Max(ink)
  <2>1. m \in ink /\ n \in ink /\ \A i \in ink : m <= i /\ i <= n
    BY <1>1, <1>3, MinMax
  <2>2. Clicks!TrimSpace(s) = SubSeq(s, m, n)
    BY <1>3 DEF Clicks!TrimSpace
  <2> HIDE DEF m, n
  <2>3. m \in 1 .. Len(s) /\ n \in 1 .. Len(s) /\ m <= n /\ s[m] # Clicks!Space
    BY <1>1, <2>1
  <2>4. \A i \in 1 .. Len(s) : s[i] # Clicks!Space => m <= i
    BY <1>1, <2>1
  <2> QED
    BY <2>2, <2>3, <2>4
<1> QED
  BY <1>2, <1>3

\* The language of any header: a part of it without separators, from its first
\* character that is no space.
LEMMA LanguageOf ==
    ASSUME NEW T, NEW h \in Seq(T), NEW l, l = Clicks!FirstLang(h)
    PROVE  \/ l = <<>>
           \/ \E m, n \in 1 .. Len(h) :
                /\ m <= n /\ l = SubSeq(h, m, n) /\ h[m] # Clicks!Space
                /\ \A i \in m .. n : h[i] \notin {Clicks!Comma, Clicks!Semicolon}
                /\ \A i \in 1 .. Len(h) : h[i] # Clicks!Space => m <= i
<1>0. Len(h) \in Nat
  BY LenProperties
<1>1. PICK a \in 0 .. Len(h) : /\ Clicks!Cut(h, Clicks!Comma) = SubSeq(h, 1, a)
                               /\ \A i \in 1 .. a : h[i] # Clicks!Comma
  BY CutIs
<1> DEFINE p == SubSeq(h, 1, a)
<1>2. p \in Seq(T) /\ Len(p) = a /\ \A i \in 1 .. a : p[i] = h[i]
  BY <1>0
<1> HIDE DEF p
<1>3. PICK b \in 0 .. a : /\ Clicks!Cut(p, Clicks!Semicolon) = SubSeq(p, 1, b)
                          /\ \A i \in 1 .. b : p[i] # Clicks!Semicolon
  BY <1>2, CutIs
<1> DEFINE q == SubSeq(p, 1, b)
<1>4. q \in Seq(T) /\ Len(q) = b /\ \A i \in 1 .. b : q[i] = h[i]
  BY <1>0, <1>2
<1>5. /\ b \in 0 .. Len(h) /\ q = SubSeq(h, 1, b)
      /\ \A i \in 1 .. b : h[i] \notin {Clicks!Comma, Clicks!Semicolon}
  <2>1. b \in 0 .. Len(h) /\ \A i \in 1 .. b : i \in 1 .. a
    BY <1>0
  <2>2. q = [i \in 1 .. b |-> h[i]]
    <3>1. q = [i \in 1 .. b |-> q[i]]
      BY <1>4, LenProperties
    <3> HIDE DEF q
    <3> QED
      BY <1>4, <3>1
  <2>3. SubSeq(h, 1, b) = [i \in 1 .. b |-> h[i]]
    <3>1. SubSeq(h, 1, b) = [i \in 1 .. b |-> h[1 + i - 1]]
      BY <1>0, <2>1
    <3>2. \A i \in 1 .. b : 1 + i - 1 = i
      OBVIOUS
    <3> QED
      BY <3>1, <3>2
  <2> HIDE DEF q
  <2> QED
    BY <1>1, <1>2, <1>3, <2>1, <2>2, <2>3
<1> HIDE DEF q
<1>6. l = Clicks!TrimSpace(q)
  BY <1>1, <1>3 DEF Clicks!FirstLang, p, q
<1>7. CASE l = <<>>
  BY <1>7
<1>8. ASSUME NEW m \in 1 .. b, NEW n \in 1 .. b, m <= n,
             l = SubSeq(q, m, n), q[m] # Clicks!Space,
             \A i \in 1 .. b : q[i] # Clicks!Space => m <= i
      PROVE  /\ m \in 1 .. Len(h) /\ n \in 1 .. Len(h)
             /\ l = SubSeq(h, m, n) /\ h[m] # Clicks!Space
             /\ \A i \in m .. n : h[i] \notin {Clicks!Comma, Clicks!Semicolon}
             /\ \A i \in 1 .. Len(h) : h[i] # Clicks!Space => m <= i
  <2>1. /\ m \in 1 .. Len(h) /\ n \in 1 .. Len(h) /\ b \in Nat
        /\ \A i \in m .. n : i \in 1 .. b
        /\ \A i \in 1 .. Len(h) : i \in 1 .. b \/ m <= i
    BY <1>0, <1>5
  <2>2. SubSeq(q, m, n) = [i \in 1 .. (n - m) + 1 |-> q[m + i - 1]]
        /\ SubSeq(h, m, n) = [i \in 1 .. (n - m) + 1 |-> h[m + i - 1]]
    <3>1. SubSeq(q, m, n) = [i \in 1 .. (n - m + 1) |-> q[m + i - 1]]
      BY <1>4, <2>1
    <3>2. SubSeq(h, m, n) = [i \in 1 .. (n - m + 1) |-> h[m + i - 1]]
      BY <1>0, <2>1
    <3>3. (n - m) + 1 = n - m + 1
      OBVIOUS
    <3> QED
      BY <3>1, <3>2, <3>3
  <2>3. \A i \in 1 .. (n - m) + 1 : m + i - 1 \in 1 .. b
    BY <2>1
  <2>4. SubSeq(q, m, n) = SubSeq(h, m, n)
    <3>1. \A i \in 1 .. (n - m) + 1 : q[m + i - 1] = h[m + i - 1]
      BY <1>4, <2>3
    <3> QED
      BY <2>2, <3>1
  <2> QED
    BY <1>4, <1>5, <1>8, <2>1, <2>4
<1>9. CASE l # <<>>
  <2>1. PICK m \in 1 .. b : \E n \in 1 .. b :
           /\ m <= n /\ l = SubSeq(q, m, n) /\ q[m] # Clicks!Space
           /\ \A i \in 1 .. b : q[i] # Clicks!Space => m <= i
    BY <1>4, <1>6, <1>9, TrimIs
  <2>2. PICK n \in 1 .. b :
           /\ m <= n /\ l = SubSeq(q, m, n) /\ q[m] # Clicks!Space
           /\ \A i \in 1 .. b : q[i] # Clicks!Space => m <= i
    BY <2>1
  <2> QED
    BY <1>8, <2>2
<1> QED
  BY <1>7, <1>9

\* A time in milliseconds, back in ticks.
LEMMA MillisecondsDown ==
    ASSUME NEW t \in Nat
    PROVE  /\ (t \div Clicks!Millisecond) * Clicks!Millisecond \in Nat
           /\ (t \div Clicks!Millisecond) * Clicks!Millisecond <= t
           /\ t < (t \div Clicks!Millisecond) * Clicks!Millisecond + Clicks!Millisecond
           /\ ((t \div Clicks!Millisecond) * Clicks!Millisecond) \div Clicks!Day = t \div Clicks!Day
<1> DEFINE m == t \div 4
<1>1. m \in Nat /\ t % 4 \in 0 .. 3 /\ t = 4 * m + (t % 4)
  OBVIOUS
<1>2. (4 * m) \div 8 = t \div 8
  BY <1>1
<1>3. m * 4 = 4 * m /\ 4 * m \in Nat /\ 4 * m <= t /\ t < 4 * m + 4
  BY <1>1
<1> HIDE DEF m
<1>4. (m * 4) \div 8 = t \div 8
  BY <1>2, <1>3
<1> QED
  BY <1>3, <1>4 DEF m, Clicks!Millisecond, Clicks!Day

\* What clicks shows of an event: all of it, its time to the millisecond.
LEMMA ReadBack ==
    ASSUME NEW e, e = [f \in DOMAIN e |-> e[f]], {"ts", "is_bot"} \subseteq DOMAIN e,
           e.ts \in Nat, e.is_bot \in BOOLEAN
    PROVE  Clicks!toClickEventDTO(EventIn(Clicks!Encode(e))) =
               [e EXCEPT !.ts = (e.ts \div Clicks!Millisecond) * Clicks!Millisecond]
<1> DEFINE m == e.ts \div Clicks!Millisecond
           flag == IF e.is_bot THEN "1" ELSE "0"
           back == m * Clicks!Millisecond
<1>1. back \in Nat
  BY MillisecondsDown
<1>2. (flag = "1") = e.is_bot
  OBVIOUS
<1>3. Clicks!Encode(e) = [e EXCEPT !.ts = m, !.is_bot = flag]
  BY DEF Clicks!Encode
<1> HIDE DEF m, flag
<1>4. Clicks!Decode(Clicks!Encode(e)) = [e EXCEPT !.ts = back]
  BY <1>2, <1>3 DEF Clicks!Decode
<1> HIDE DEF back
<1>5. Clicks!clickToProto([e EXCEPT !.ts = back]) = [e EXCEPT !.ts = {back}]
  <2> DEFINE d == [e EXCEPT !.ts = back]
  <2>1. d.ts = back /\ [d EXCEPT !.ts = {back}] = [e EXCEPT !.ts = {back}]
    OBVIOUS
  <2>2. back # Clicks!ZeroTime
    BY <1>1 DEF Clicks!ZeroTime
  <2> HIDE DEF d
  <2>3. Clicks!clickToProto(d) = [d EXCEPT !.ts = {back}]
    BY <2>1, <2>2 DEF Clicks!clickToProto
  <2> QED
    BY <2>1, <2>3 DEF d
<1>6. Clicks!toClickEventDTO([e EXCEPT !.ts = {back}]) = [e EXCEPT !.ts = back]
  BY DEF Clicks!toClickEventDTO
<1> QED
  BY <1>4, <1>5, <1>6 DEF EventIn, back, m

\* The first rule of which ua has a word.
LEMMA FirstRule ==
    ASSUME NEW rules, DOMAIN rules \subseteq Int, NEW ua, NEW other,
           NEW i \in DOMAIN rules, rules[i].words \cap ua # {},
           \A j \in DOMAIN rules : j < i => rules[j].words \cap ua = {}
    PROVE  Clicks!Classify(rules, ua, other) = rules[i].name
<1> DEFINE fit == {j \in DOMAIN rules : rules[j].words \cap ua # {}}
<1>1. fit \subseteq Int /\ i \in fit /\ \A j \in fit : i <= j
  OBVIOUS
<1>2. Clicks!Min(fit) = i /\ fit # {}
  <2> HIDE DEF fit
  <2> QED
    BY <1>1, MinIs
<1> QED
  BY <1>2 DEF Clicks!Classify

\* What words of a user agent make it be taken for.
LEMMA Classes ==
    ASSUME NEW ua
    PROVE  /\ "edg/" \in ua => Clicks!Classify(Clicks!Browsers, ua, "Other") = "Edge"
           /\ "edg/" \notin ua /\ ua \cap {"opr/", "opera"} # {} =>
                  Clicks!Classify(Clicks!Browsers, ua, "Other") = "Opera"
           /\ ua \cap {"edg/", "opr/", "opera"} = {} /\ "chrome/" \in ua =>
                  Clicks!Classify(Clicks!Browsers, ua, "Other") = "Chrome"
           /\ "android" \in ua => Clicks!Classify(Clicks!Systems, ua, "Other") = "Android"
           /\ Clicks!Classify(Clicks!Devices, ua, "desktop") = "bot"
                  <=> ua \cap Clicks!botSignatures # {}
<1>1. /\ DOMAIN Clicks!Browsers = 1 .. 6 /\ DOMAIN Clicks!Systems = 1 .. 5
      /\ DOMAIN Clicks!Devices = 1 .. 3
      /\ Clicks!Browsers[1] = [words |-> {"edg/"}, name |-> "Edge"]
      /\ Clicks!Browsers[2] = [words |-> {"opr/", "opera"}, name |-> "Opera"]
      /\ Clicks!Browsers[3] = [words |-> {"chrome/"}, name |-> "Chrome"]
      /\ Clicks!Systems[1] = [words |-> {"android"}, name |-> "Android"]
      /\ Clicks!Devices[1] = [words |-> Clicks!botSignatures, name |-> "bot"]
      /\ Clicks!Devices[2].name = "tablet" /\ Clicks!Devices[3].name = "mobile"
  BY DEF Clicks!Browsers, Clicks!Systems, Clicks!Devices
<1>2. ASSUME NEW rules \in {Clicks!Browsers, Clicks!Systems, Clicks!Devices}, NEW other,
             NEW i \in DOMAIN rules, rules[i].words \cap ua # {},
             \A j \in DOMAIN rules : j < i => rules[j].words \cap ua = {}
      PROVE  Clicks!Classify(rules, ua, other) = rules[i].name
  <2>1. DOMAIN rules \subseteq Int
    BY <1>1
  <2> QED
    BY <1>2, <2>1, FirstRule
<1>3. ASSUME "edg/" \in ua PROVE Clicks!Classify(Clicks!Browsers, ua, "Other") = "Edge"
  <2>1. Clicks!Browsers[1].words \cap ua # {}
    BY <1>1, <1>3
  <2> QED
    BY <1>1, <1>2, <2>1
<1>4. ASSUME "edg/" \notin ua, ua \cap {"opr/", "opera"} # {}
      PROVE  Clicks!Classify(Clicks!Browsers, ua, "Other") = "Opera"
  <2>1. Clicks!Browsers[2].words \cap ua # {} /\ Clicks!Browsers[1].words \cap ua = {}
    BY <1>1, <1>4
  <2> QED
    BY <1>1, <1>2, <2>1
<1>5. ASSUME ua \cap {"edg/", "opr/", "opera"} = {}, "chrome/" \in ua
      PROVE  Clicks!Classify(Clicks!Browsers, ua, "Other") = "Chrome"
  <2>1. /\ Clicks!Browsers[3].words \cap ua # {}
        /\ \A j \in {1, 2} : Clicks!Browsers[j].words \cap ua = {}
    BY <1>1, <1>5
  <2> QED
    BY <1>1, <1>2, <2>1
<1>6. ASSUME "android" \in ua PROVE Clicks!Classify(Clicks!Systems, ua, "Other") = "Android"
  <2>1. Clicks!Systems[1].words \cap ua # {}
    BY <1>1, <1>6
  <2> QED
    BY <1>1, <1>2, <2>1
<1> DEFINE class == Clicks!Classify(Clicks!Devices, ua, "desktop")
<1>7. CASE ua \cap Clicks!botSignatures # {}
  <2>1. Clicks!Devices[1].words \cap ua # {}
    BY <1>1, <1>7
  <2>2. class = "bot"
    BY <1>1, <1>2, <2>1
  <2> QED
    BY <1>3, <1>4, <1>5, <1>6, <1>7, <2>2
<1>8. CASE ua \cap Clicks!botSignatures = {}
  <2>1. Clicks!Devices[1].words \cap ua = {}
    BY <1>1, <1>8
  <2>2. class # "bot"
    <3>1. CASE Clicks!Devices[2].words \cap ua # {}
      <4>1. class = "tablet"
        BY <1>1, <1>2, <2>1, <3>1
      <4> QED
        BY <4>1
    <3>2. CASE Clicks!Devices[2].words \cap ua = {} /\ Clicks!Devices[3].words \cap ua # {}
      <4>1. class = "mobile"
        BY <1>1, <1>2, <2>1, <3>2
      <4> QED
        BY <4>1
    <3>3. CASE Clicks!Devices[2].words \cap ua = {} /\ Clicks!Devices[3].words \cap ua = {}
      <4>1. \A j \in DOMAIN Clicks!Devices : Clicks!Devices[j].words \cap ua = {}
        BY <1>1, <2>1, <3>3
      <4>2. class = "desktop"
        BY <4>1 DEF Clicks!Classify
      <4> QED
        BY <4>2
    <3> QED
      BY <3>1, <3>2, <3>3
  <2> QED
    BY <1>3, <1>4, <1>5, <1>6, <1>8, <2>2
<1> QED
  BY <1>7, <1>8

\* A digest is longer than its address.
LEMMA Hashed ==
    ASSUME NEW T, NEW ip \in Seq(T), Clicks!HashIP(ip, Salt) = ip
    PROVE  ip = <<>>
<1> SUFFICES ASSUME ip # <<>> PROVE FALSE
  OBVIOUS
<1> DEFINE U == T \cup {"sha256", Salt}
<1>1. ip \in Seq(U) /\ <<"sha256">> \in Seq(U) /\ <<Salt>> \in Seq(U)
  <2>1. Len(ip) \in Nat /\ ip \in [1 .. Len(ip) -> T]
    BY LenProperties
  <2>2. ip \in [1 .. Len(ip) -> U]
    BY <2>1
  <2>3. ip \in Seq(U)
    BY <2>1, <2>2, IsASeq
  <2> QED
    BY <2>3
<1> HIDE DEF U
<1>2. Clicks!HashIP(ip, Salt) = <<"sha256">> \o ip \o <<Salt>>
  BY DEF Clicks!HashIP
<1>3. Len(<<"sha256">> \o ip \o <<Salt>>) = (1 + Len(ip)) + 1
  BY <1>1
<1>4. Len(ip) \in Nat
  BY <1>1, LenProperties
<1> QED
  BY <1>2, <1>3, <1>4

\* What clicks shows of the click of request q.
LEMMA Understands ==
    ASSUME NEW q \in Requests, NEW v \in Visits \cup {NoVisit}, v = web[q].visit,
           NEW t \in 0 .. MaxNow, web[q].click = <<Seen(v, t)>>,
           NEW x, x = Clicks!toClickEventDTO(EventIn(Clicks!Encode(Seen(v, t))))
    PROVE  Understood(x, q)
<1> DEFINE e == Seen(v, t)
           ua == Clicks!ParseUA(v.ua)
           at == e.ts
           ts == (at \div Clicks!Millisecond) * Clicks!Millisecond
           h == v.languages
<1>1. v.moment \in 0 .. 7 /\ v.ip \in Seq(STRING) /\ v.languages \in Seq(STRING)
  <2>1. CASE v \in Visits
    <3>1. \A w \in Visits : /\ w.moment \in 0 .. Clicks!Day - 1
                           /\ w.ip \in Seq(STRING) /\ w.languages \in Seq(STRING)
      BY GatewayAssumption, Zenon
    <3> QED
      BY <2>1, <3>1 DEF Clicks!Day, Clicks!Millisecond
  <2>2. CASE v = NoVisit
    <3>1. v.moment = 0 /\ v.ip = <<>> /\ v.languages = <<>>
      BY <2>2 DEF NoVisit
    <3>2. <<>> \in Seq(STRING)
      OBVIOUS
    <3> QED
      BY <3>1, <3>2
  <2> QED
    BY <2>1, <2>2
<1>2. /\ e = [f \in DOMAIN e |-> e[f]]
      /\ DOMAIN e = {"ts", "ip_hash", "country", "city", "referrer", "referrer_host",
                     "user_agent", "browser", "os", "device", "is_bot", "lang"}
      /\ e.ts = t * Clicks!Day + v.moment /\ e.ip_hash = Clicks!HashIP(v.ip, Salt)
      /\ e.referrer = v.referrer /\ e.user_agent = v.ua /\ e.lang = Clicks!FirstLang(v.languages)
      /\ e.browser = ua.browser /\ e.os = ua.os /\ e.device = ua.device /\ e.is_bot = ua.is_bot
  BY DEF Seen, Clicks!EventOf
<1>3. at \in Nat
  <2>1. t \in Nat
    BY SignInAssumption
  <2> QED
    BY <1>1, <1>2, <2>1 DEF Clicks!Day, Clicks!Millisecond
<1>4. ua.is_bot = (v.ua \cap Clicks!botSignatures # {})
  <2>1. v.ua = {} => ~(v.ua \cap Clicks!botSignatures # {})
    OBVIOUS
  <2> QED
    BY <2>1 DEF Clicks!ParseUA
<1>5. web[q].click[1] = e
  OBVIOUS
<1> HIDE DEF e
<1>6. x = [e EXCEPT !.ts = ts]
  <2>1. e.is_bot \in BOOLEAN
    BY <1>2, <1>4
  <2> QED
    BY <1>2, <1>3, <2>1, ReadBack DEF e
<1>7. /\ x.ts = ts
      /\ \A f \in DOMAIN e \ {"ts"} : x[f] = e[f]
  BY <1>2, <1>6
<1>8. x.ts <= at /\ at < x.ts + Clicks!Millisecond /\ x.ts \div Clicks!Day = at \div Clicks!Day
  <2>1. ts <= at /\ at < ts + Clicks!Millisecond /\ ts \div Clicks!Day = at \div Clicks!Day
    BY <1>3, MillisecondsDown
  <2> QED
    BY <1>7, <2>1
<1>9. x.ip_hash = v.ip => v.ip = <<>>
  BY <1>1, <1>2, <1>7, Hashed
<1>10. x.user_agent = v.ua /\ x.referrer = v.referrer /\ x.is_bot = ua.is_bot
       /\ x.browser = ua.browser /\ x.os = ua.os /\ x.device = ua.device
       /\ x.lang = Clicks!FirstLang(h)
  BY <1>2, <1>7
<1>11. /\ \A d \in Descent : x.browser = d[2] => v.ua \cap Marks[d[1]] = {}
       /\ x.os = "Linux" => "android" \notin v.ua
       /\ x.device = "bot" <=> v.ua \cap Clicks!botSignatures # {}
  <2>1. CASE v.ua = {}
    <3>1. ua.device = "other" /\ ua.os = ""
      BY <2>1 DEF Clicks!ParseUA
    <3> QED
      BY <1>10, <2>1, <3>1
  <2>2. CASE v.ua # {}
    <3>1. /\ ua.browser = Clicks!Classify(Clicks!Browsers, v.ua, "Other")
          /\ ua.os = Clicks!Classify(Clicks!Systems, v.ua, "Other")
          /\ ua.device = Clicks!Classify(Clicks!Devices, v.ua, "desktop")
      BY <2>2 DEF Clicks!ParseUA
    <3>2. /\ Marks["Edge"] = {"edg/"} /\ Marks["Opera"] = {"opr/", "opera"}
          /\ Marks["Chrome"] = {"chrome/"}
      BY DEF Marks
    <3> HIDE DEF ua
    <3>3. ASSUME NEW d \in Descent, x.browser = d[2] PROVE v.ua \cap Marks[d[1]] = {}
      <4>1. d[2] = "Chrome" => d[1] \in {"Edge", "Opera"}
        BY DEF Descent
      <4>2. d[2] \in {"Chrome", "Safari"} /\ d[1] \in {"Edge", "Opera", "Chrome"}
        BY DEF Descent
      <4>3. v.ua \cap {"edg/", "opr/", "opera"} = {}
        BY <1>10, <3>1, <3>3, <4>2, Classes
      <4>4. d[2] = "Safari" => "chrome/" \notin v.ua
        BY <1>10, <3>1, <3>3, <4>3, Classes
      <4> QED
        BY <3>2, <4>1, <4>2, <4>3, <4>4
    <3>4. x.os = "Linux" => "android" \notin v.ua
      BY <1>10, <3>1, Classes
    <3>5. x.device = "bot" <=> v.ua \cap Clicks!botSignatures # {}
      BY <1>10, <3>1, Classes
    <3> QED
      BY <3>3, <3>4, <3>5
  <2> QED
    BY <2>1, <2>2
<1> HIDE DEF ts, at, ua
<1> DEFINE lang == {x.lang[i] : i \in DOMAIN x.lang}
           ink == {i \in DOMAIN h : h[i] # Clicks!Space}
<1>12. /\ lang \cap {Clicks!Comma, Clicks!Semicolon} = {}
       /\ x.lang # <<>> => \E i \in ink : /\ \A j \in ink : i <= j
                                          /\ x.lang[1] = h[i]
  <2>1. Len(h) \in Nat /\ DOMAIN h = 1 .. Len(h)
    BY <1>1, LenProperties
  <2> DEFINE l == Clicks!FirstLang(h)
  <2>2. l = <<>> \/ \E m, n \in 1 .. Len(h) :
                /\ m <= n /\ l = SubSeq(h, m, n) /\ h[m] # Clicks!Space
                /\ \A i \in m .. n : h[i] \notin {Clicks!Comma, Clicks!Semicolon}
                /\ \A i \in 1 .. Len(h) : h[i] # Clicks!Space => m <= i
    BY <1>1, LanguageOf
  <2> HIDE DEF l
  <2>3. x.lang = l
    BY <1>10 DEF l
  <2>4. CASE l = <<>>
    BY <2>3, <2>4
  <2>5. CASE l # <<>>
    <3>1. PICK m \in 1 .. Len(h) : \E n \in 1 .. Len(h) :
                /\ m <= n /\ l = SubSeq(h, m, n) /\ h[m] # Clicks!Space
                /\ \A i \in m .. n : h[i] \notin {Clicks!Comma, Clicks!Semicolon}
                /\ \A i \in 1 .. Len(h) : h[i] # Clicks!Space => m <= i
      BY <2>2, <2>5
    <3>2. PICK n \in 1 .. Len(h) :
                /\ m <= n /\ l = SubSeq(h, m, n) /\ h[m] # Clicks!Space
                /\ \A i \in m .. n : h[i] \notin {Clicks!Comma, Clicks!Semicolon}
                /\ \A i \in 1 .. Len(h) : h[i] # Clicks!Space => m <= i
      BY <3>1
    <3> DEFINE k == n - m + 1
    <3>3. l = [i \in 1 .. k |-> h[m + i - 1]]
      BY <1>1, <2>1, <3>2
    <3>4. k >= 1 /\ \A i \in 1 .. k : m + i - 1 \in m .. n
      BY <2>1, <3>2
    <3>5. l[1] = h[m]
      <4>1. 1 \in 1 .. k /\ m + 1 - 1 = m
        BY <2>1, <3>4
      <4> HIDE DEF k
      <4> QED
        BY <3>3, <4>1
    <3> HIDE DEF k
    <3>6. \A i \in DOMAIN l : l[i] \notin {Clicks!Comma, Clicks!Semicolon}
      BY <3>2, <3>3, <3>4
    <3>7. m \in ink /\ \A j \in ink : m <= j
      BY <2>1, <3>2
    <3> HIDE DEF ink
    <3> QED
      BY <2>3, <3>5, <3>6, <3>7
  <2> QED
    BY <2>4, <2>5
<1>13. x.is_bot <=> v.ua \cap Clicks!botSignatures # {}
  BY <1>4, <1>10 DEF ua
<1>14. (x.device = "bot") <=> x.is_bot
  BY <1>11, <1>13
<1>15. web[q].visit = v /\ web[q].click[1].ts = at
  BY <1>5 DEF at
<1> QED
  BY <1>8, <1>9, <1>10, <1>11, <1>12, <1>13, <1>14, <1>15 DEF Understood

\* docs/api/clicks.md:9, recorder.go:238: whatever clicks shows was a redirect of that
\* link, and it shows of it what the redirect saw: its time to the millisecond, its
\* headers, the first language, no address, and no product or system taken for one it
\* descends from; whatever the headers, and whatever is flushed, sent again, dropped and
\* trimmed.
THEOREM ClicksTellWhatWasSeen == Spec => []ClicksAreUnderstood
<1>1. ASSUME ReadsInv, StreamInv, RequestsInv PROVE ClicksAreUnderstood
  <2> SUFFICES ASSUME NEW r \in Requests, Told(r, {200}, {"clicks"}), NEW i \in DOMAIN web[r].shown
               PROVE  \E q \in Requests :
                        /\ Told(q, {302}, {"redirect"}) /\ web[q].code = web[r].code
                        /\ web[q].click # <<>> /\ Understood(web[r].shown[i], q)
    BY DEF ClicksAreUnderstood
  <2> DEFINE c == web[r].code
             s == Shown(stream[c])
             x == web[r].shown[i]
  <2>1. c \in Codes /\ Displayed(web[r], s)
    BY <1>1 DEF RequestsInv, Typed, ReadsInv, ReadsRight, Told
  <2>2. PICK j \in 1 .. Len(s) : x = Clicks!toClickEventDTO(s[j])
    BY <2>1 DEF Displayed
  <2>3. s[j] = EventIn(stream[c][j]) /\ j \in 1 .. Len(stream[c])
    BY <1>1, <2>1, HeldIs
  <2>4. PICK q \in Requests : Origin(q, c, stream[c][j])
    BY <1>1, <2>1, <2>3 DEF StreamInv
  <2>5. /\ web[q].code = c /\ web[q].click # <<>>
        /\ stream[c][j] = Clicks!Encode(web[q].click[1]) /\ ClickOK(web[q])
    BY <1>1, <2>4 DEF Origin, StreamInv
  <2>6. Told(q, {302}, {"redirect"})
    BY <2>5 DEF ClickOK, Told
  <2>7. PICK t \in 0 .. MaxNow : web[q].click = <<Seen(web[q].visit, t)>>
    BY <2>5 DEF ClickOK
  <2> DEFINE v == web[q].visit
  <2>8. v \in Visits \cup {NoVisit}
    BY <1>1 DEF RequestsInv, Typed
  <2>9. x = Clicks!toClickEventDTO(EventIn(Clicks!Encode(Seen(v, t))))
    BY <2>2, <2>3, <2>5, <2>7
  <2>10. Understood(x, q)
    BY <2>7, <2>8, <2>9, Understands
  <2> QED
    BY <2>5, <2>6, <2>10
<1>2. GatewayInv /\ ReadsInv => ClicksAreUnderstood
  BY <1>1 DEF GatewayInv
<1> QED
  BY <1>2, ReadsAreRight, PTL
===============================================================================
