------------------------------ MODULE SignInProofs ------------------------------
(***************************************************************************)
(* Proofs about SignIn, for any requests, tokens, keys and lifetimes, any  *)
(* rotations and any failing fetches.                                      *)
(***************************************************************************)
EXTENDS SignIn, TLAPS

-------------------------------------------------------------------------------
(* The inductive invariant                                                 *)

\* A published key was published last now; a cached one so recently that the cache
\* ages before the key is an hour old.
KeysAge == /\ \A k \in Kids : last[k] <= now
           /\ \A k \in published : last[k] = now
           /\ \A k \in keys : expires <= last[k] + KeyLife

\* How far a sign-in is and what is known of it.
StepsInv ==
    \A r \in Requests :
        /\ step[r] = "idle" => token[r] = NoToken /\ outcome[r] = 0
        /\ step[r] # "idle" => token[r] \in Tokens
        /\ step[r] \in {"look", "lock", "fetch", "verify"} => token[r].wellFormed
        /\ token[r] # NoToken /\ token[r].kid \notin published => missed[r]

\* Sessions come from requests that are through.
IssuedInv == \A s \in issued : s.by # NoOne => step[s.by] = "done"

Inv == /\ SignInTypeOK /\ KeysAge /\ StepsInv /\ IssuedInv
       /\ RejectionsJustified /\ SessionsWereEarned

\* Tokens are records, and none is the missing one.
LEMMA TokenFields ==
    ASSUME NEW t \in Tokens
    PROVE  /\ t # NoToken
           /\ t.wellFormed \in BOOLEAN /\ t.kid \in Kids /\ t.exp \in Nat
           /\ t.sub \in Subs \cup {NoUser}
  BY SignInAssumption

LEMMA InitInv == AuthInit => Inv
<1> SUFFICES ASSUME AuthInit PROVE Inv
  OBVIOUS
<1>1. ttl \in Nat \ {0}
  BY SignInAssumption DEF AuthInit, TTL
<1>2. jar \in [Clients -> Sessions \cup {NoCookie}]
  BY SignInAssumption DEF AuthInit
<1>3. issued \subseteq [sub : Subs \cup {NoUser}, exp : Nat, by : Requests \cup {NoOne}]
  BY <1>2 DEF AuthInit, Sessions
<1>4. SignInTypeOK
  BY <1>1, <1>2, <1>3, SignInAssumption DEF AuthInit, SignInTypeOK
<1>5. \A s \in issued : s.by = NoOne
  BY DEF AuthInit
<1>6. KeysAge /\ StepsInv /\ IssuedInv
  BY <1>4, <1>5 DEF AuthInit, KeysAge, StepsInv, IssuedInv, SignInTypeOK
<1>7. RejectionsJustified /\ SessionsWereEarned
  BY <1>5 DEF AuthInit, RejectionsJustified, SessionsWereEarned
<1> QED BY <1>4, <1>6, <1>7 DEF Inv

-------------------------------------------------------------------------------
(* The steps                                                               *)

LEMMA TickInv == Inv /\ Tick => Inv'
<1> SUFFICES ASSUME Inv, Tick PROVE Inv'
  OBVIOUS
<1> USE SignInAssumption
<1>1. SignInTypeOK'
  BY DEF Inv, SignInTypeOK, Tick, cache_vars, login_vars
<1>2. KeysAge'
  BY DEF Inv, SignInTypeOK, KeysAge, Tick, cache_vars
<1>3. StepsInv' /\ IssuedInv'
  BY DEF Inv, StepsInv, IssuedInv, Tick, login_vars
<1>4. \A r \in Requests : outcome[r] = 401 => token[r] \in Tokens
  BY DEF Inv, StepsInv, SignInTypeOK
<1>5. RejectionsJustified'
  BY <1>4, TokenFields DEF Inv, RejectionsJustified, Tick, login_vars, Genuine, SignInTypeOK
<1>6. SessionsWereEarned'
  BY DEF Inv, SessionsWereEarned, Tick, login_vars, Genuine
<1> QED BY <1>1, <1>2, <1>3, <1>5, <1>6 DEF Inv

LEMMA RotateInv == Inv /\ Rotate => Inv'
<1> SUFFICES ASSUME Inv, Rotate PROVE Inv'
  OBVIOUS
<1> USE SignInAssumption
<1>1. SignInTypeOK'
  BY DEF Inv, SignInTypeOK, Rotate, cache_vars
<1>2. KeysAge'
  <2>1. \A k \in Kids : last'[k] = now \/ last'[k] = last[k]
    BY DEF Rotate
  <2>2. \A k \in keys : expires <= now + KeyLife
    BY DEF Inv, KeysAge, SignInTypeOK
  <2> QED BY <2>1, <2>2 DEF Inv, SignInTypeOK, KeysAge, Rotate, cache_vars
<1>3. StepsInv' /\ IssuedInv'
  BY DEF Inv, StepsInv, IssuedInv, Rotate
<1>4. RejectionsJustified'
  BY DEF Inv, RejectionsJustified, Rotate, Genuine
<1>5. SessionsWereEarned'
  BY DEF Inv, SessionsWereEarned, Rotate, Genuine
<1> QED BY <1>1, <1>2, <1>3, <1>4, <1>5 DEF Inv

LEMMA LoginInv == ASSUME NEW r \in Requests, NEW t \in Tokens, Inv, Login(r, t) PROVE Inv'
<1> USE SignInAssumption
<1>0. step[r] = "idle" /\ token[r] = NoToken /\ outcome[r] = 0
  BY DEF Inv, StepsInv, Login
<1>1. SignInTypeOK'
  BY DEF Inv, SignInTypeOK, Login, Answer, Continue, google_vars, cache_vars
<1>2. KeysAge'
  BY DEF Inv, KeysAge, Login, google_vars, cache_vars
<1>3. StepsInv'
  <2> SUFFICES ASSUME NEW q \in Requests
               PROVE  (/\ step[q] = "idle" => token[q] = NoToken /\ outcome[q] = 0
                       /\ step[q] # "idle" => token[q] \in Tokens
                       /\ step[q] \in {"look", "lock", "fetch", "verify"} => token[q].wellFormed
                       /\ token[q] # NoToken /\ token[q].kid \notin published => missed[q])'
    BY DEF StepsInv
  <2>1. CASE q = r
    <3>1. token'[q] = t
      BY <2>1 DEF Inv, SignInTypeOK, Login
    <3>2. t.kid \notin published => missed'[q]
      <4>1. missed \in [Requests -> BOOLEAN]
        BY DEF Inv, SignInTypeOK
      <4>2. missed' = [missed EXCEPT ![r] = t.kid \notin published]
        BY DEF Login
      <4> QED BY <2>1, <4>1, <4>2, Zenon
    <3>3. step'[q] = "done" \/ (step'[q] = "look" /\ t.wellFormed)
      BY <2>1 DEF Inv, SignInTypeOK, Login, Answer, Continue
    <3>4. published' = published
      BY DEF Login, google_vars
    <3> QED BY <3>1, <3>2, <3>3, <3>4
  <2>2. CASE q # r
    <3>1. step'[q] = step[q] /\ outcome'[q] = outcome[q]
      BY <2>2 DEF Inv, SignInTypeOK, Login, Answer, Continue
    <3>2. token'[q] = token[q] /\ missed'[q] = missed[q]
      BY <2>2 DEF Inv, SignInTypeOK, Login
    <3> QED BY <3>1, <3>2 DEF Inv, StepsInv, Login, google_vars
  <2> QED BY <2>1, <2>2
<1>4. IssuedInv'
  BY <1>0 DEF Inv, SignInTypeOK, IssuedInv, Login, Answer, Continue
<1>5. RejectionsJustified'
  BY <1>0 DEF Inv, SignInTypeOK, RejectionsJustified, Login, Answer, Continue, Genuine
<1>6. SessionsWereEarned'
  BY <1>0 DEF Inv, SignInTypeOK, IssuedInv, SessionsWereEarned, Login, Genuine
<1> QED BY <1>1, <1>2, <1>3, <1>4, <1>5, <1>6 DEF Inv

LEMMA LookInv == ASSUME NEW r \in Requests, Inv, Look(r) PROVE Inv'
<1> USE SignInAssumption
<1>1. SignInTypeOK'
  BY DEF Inv, SignInTypeOK, Look, Answer, Continue, google_vars, cache_vars
<1>2. KeysAge'
  BY DEF Inv, KeysAge, Look, google_vars, cache_vars
<1>3. StepsInv' /\ IssuedInv'
  BY DEF Inv, SignInTypeOK, StepsInv, IssuedInv, Look, Continue, google_vars
<1>4. RejectionsJustified' /\ SessionsWereEarned'
  BY DEF Inv, RejectionsJustified, SessionsWereEarned, Look, Continue, Genuine
<1> QED BY <1>1, <1>2, <1>3, <1>4 DEF Inv

LEMMA LockInv == ASSUME NEW r \in Requests, Inv, Lock(r) PROVE Inv'
<1> USE SignInAssumption
<1>1. SignInTypeOK'
  BY DEF Inv, SignInTypeOK, Lock, Answer, Continue, google_vars, cache_vars
<1>2. KeysAge'
  BY DEF Inv, KeysAge, Lock, google_vars
<1>3. StepsInv' /\ IssuedInv'
  BY DEF Inv, SignInTypeOK, StepsInv, IssuedInv, Lock, Continue, google_vars
<1>4. RejectionsJustified' /\ SessionsWereEarned'
  BY DEF Inv, RejectionsJustified, SessionsWereEarned, Lock, Continue, Genuine
<1> QED BY <1>1, <1>2, <1>3, <1>4 DEF Inv

LEMMA FetchInv == ASSUME NEW r \in Requests, Inv, Fetch(r) PROVE Inv'
<1> USE SignInAssumption
<1>0. step[r] = "fetch" /\ token[r] \in Tokens /\ token[r] # NoToken
  BY TokenFields DEF Inv, StepsInv, Fetch
<1>1. SignInTypeOK'
  BY DEF Inv, SignInTypeOK, Fetch, Answer, Continue, google_vars
<1>2. KeysAge'
  BY DEF Inv, SignInTypeOK, KeysAge, Fetch, google_vars
<1>3. StepsInv' /\ IssuedInv'
  BY <1>0 DEF Inv, SignInTypeOK, StepsInv, IssuedInv, Fetch, Continue, Answer, google_vars
<1>4. RejectionsJustified'
  BY <1>0 DEF Inv, SignInTypeOK, StepsInv, RejectionsJustified, Fetch, Continue, Answer, Genuine
<1>5. SessionsWereEarned'
  BY DEF Inv, SessionsWereEarned, Fetch, Genuine
<1> QED BY <1>1, <1>2, <1>3, <1>4, <1>5 DEF Inv

LEMMA FetchFailsInv == ASSUME NEW r \in Requests, Inv, FetchFails(r) PROVE Inv'
<1> USE SignInAssumption
<1>0. step[r] = "fetch"
  BY DEF FetchFails
<1>1. SignInTypeOK'
  BY DEF Inv, SignInTypeOK, FetchFails, Answer, google_vars
<1>2. KeysAge'
  BY DEF Inv, KeysAge, FetchFails, google_vars
<1>3. StepsInv' /\ IssuedInv'
  BY <1>0 DEF Inv, SignInTypeOK, StepsInv, IssuedInv, FetchFails, Answer, google_vars
<1>4. RejectionsJustified'
  BY <1>0 DEF Inv, SignInTypeOK, RejectionsJustified, FetchFails, Answer, Genuine
<1>5. SessionsWereEarned'
  BY DEF Inv, SessionsWereEarned, FetchFails, Genuine
<1> QED BY <1>1, <1>2, <1>3, <1>4, <1>5 DEF Inv

LEMMA VerifyInv ==
    ASSUME NEW r \in Requests, NEW c \in Clients, Inv, Verify(r, c) PROVE Inv'
<1> USE SignInAssumption
<1> DEFINE t == token[r]
           s == [sub |-> t.sub, exp |-> now + ttl, by |-> r]
<1>0. step[r] = "verify" /\ t \in Tokens /\ t.wellFormed
  BY DEF Inv, StepsInv, Verify
<1>1. /\ t.sub \in Subs \cup {NoUser} /\ t.exp \in Nat
      /\ now \in Nat /\ ttl \in Nat /\ now + ttl \in Nat
  BY <1>0, TokenFields DEF Inv, SignInTypeOK
<1>2. Issue(t) \in Sessions
  BY <1>1 DEF Issue, Sessions
<1>3. /\ issued' \subseteq issued \cup {s}
      /\ s \in [sub : Subs \cup {NoUser}, exp : Nat, by : Requests \cup {NoOne}]
  BY <1>1 DEF Verify
<1>4. jar' \in [Clients -> Sessions \cup {NoCookie}]
  BY <1>2 DEF Verify, Inv, SignInTypeOK
<1>5. SignInTypeOK'
  BY <1>0, <1>3, <1>4 DEF Inv, SignInTypeOK, Verify, Answer, google_vars, cache_vars
<1>6. KeysAge'
  BY DEF Inv, KeysAge, Verify, google_vars, cache_vars
<1>7. StepsInv'
  BY <1>0 DEF Inv, SignInTypeOK, StepsInv, Verify, Answer, google_vars
<1>8. IssuedInv'
  <2>1. step' = [step EXCEPT ![r] = "done"]
    BY DEF Verify, Answer
  <2> QED BY <1>3, <2>1 DEF Inv, SignInTypeOK, IssuedInv
<1>9. RejectionsJustified'
  <2>1. outcome'[r] = 401 => ~Genuine(t) \/ t.exp <= now
    BY <1>0, <1>1 DEF Verify, Answer, ValidClaims, Genuine, Inv, SignInTypeOK
  <2> QED BY <2>1 DEF Inv, SignInTypeOK, RejectionsJustified, Verify, Answer, Genuine
<1>10. SessionsWereEarned'
  <2>1. CASE issued' = issued
    BY <2>1 DEF Inv, SessionsWereEarned, Verify, Genuine
  <2>2. CASE issued' # issued
    <3>1. t.signer = t.kid /\ ValidClaims(t)
      BY <2>2 DEF Verify
    <3>2. Genuine(t) /\ s.sub = t.sub /\ s.exp - ttl < t.exp
      BY <1>0, <1>1, <3>1 DEF Genuine, ValidClaims
    <3>3. \A x \in issued' : x \in issued \/ x = s
      BY <1>3
    <3>4. UNCHANGED <<token, ttl>>
      BY DEF Verify
    <3> HIDE DEF s, t
    <3>5. ASSUME NEW x \in issued', x.by # NoOne
          PROVE  Genuine(token[x.by])' /\ token'[x.by].sub = x.sub /\ x.exp - ttl' < token'[x.by].exp
      <4>1. CASE x \in issued
        BY <3>4, <3>5, <4>1 DEF Inv, SessionsWereEarned, Genuine
      <4>2. CASE x = s
        BY <3>2, <3>4, <4>2 DEF s, t, Genuine
      <4> QED BY <3>3, <4>1, <4>2
    <3> QED BY <3>5 DEF SessionsWereEarned
  <2> QED BY <2>1, <2>2
<1> QED BY <1>5, <1>6, <1>7, <1>8, <1>9, <1>10 DEF Inv

LEMMA DropCookieInv == ASSUME NEW c \in Clients, Inv, DropCookie(c) PROVE Inv'
<1> USE SignInAssumption
<1>1. SignInTypeOK'
  BY DEF Inv, SignInTypeOK, DropCookie, google_vars, cache_vars, login_vars
<1>2. KeysAge' /\ StepsInv' /\ IssuedInv'
  BY DEF Inv, KeysAge, StepsInv, IssuedInv, DropCookie, google_vars, cache_vars, login_vars
<1>3. RejectionsJustified' /\ SessionsWereEarned'
  BY DEF Inv, RejectionsJustified, SessionsWereEarned, DropCookie, login_vars, Genuine
<1> QED BY <1>1, <1>2, <1>3 DEF Inv

LEMMA StutterInv == Inv /\ UNCHANGED auth_vars => Inv'
  BY DEF Inv, SignInTypeOK, KeysAge, StepsInv, IssuedInv, RejectionsJustified,
         SessionsWereEarned, Genuine, auth_vars, google_vars, cache_vars, login_vars

LEMMA NextInv == Inv /\ [AuthNext]_auth_vars => Inv'
<1> SUFFICES ASSUME Inv, AuthNext PROVE Inv'
  BY StutterInv
<1>1. CASE Tick
  BY <1>1, TickInv
<1>2. CASE Rotate
  BY <1>2, RotateInv
<1>3. ASSUME NEW r \in Requests, NEW t \in Tokens, Login(r, t) PROVE Inv'
  BY <1>3, LoginInv
<1>4. ASSUME NEW r \in Requests, NEW c \in Clients, SignInStep(r, c) PROVE Inv'
  BY <1>4, LookInv, LockInv, FetchInv, FetchFailsInv, VerifyInv DEF SignInStep
<1>5. ASSUME NEW c \in Clients, DropCookie(c) PROVE Inv'
  BY <1>5, DropCookieInv
<1> QED BY <1>1, <1>2, <1>3, <1>4, <1>5 DEF AuthNext

-------------------------------------------------------------------------------
(* The theorems                                                            *)

\* The invariant the properties follow from.
THEOREM Invariance == AuthSpec => []Inv
<1> QED BY InitInv, NextInv, PTL DEF AuthSpec

\* The variables of SignIn keep their types.
THEOREM SignInTyped == AuthSpec => []SignInTypeOK
<1>1. Inv => SignInTypeOK
  BY DEF Inv
<1> QED BY <1>1, Invariance, PTL

\* A genuine, current token is turned away only if its key was not published, or the
\* fetch failed, at some moment of the request.
THEOREM RejectedForAReason == AuthSpec => []RejectionsJustified
<1>1. Inv => RejectionsJustified
  BY DEF Inv
<1> QED BY <1>1, Invariance, PTL

\* Every session was issued to the subject of a genuine token that had not expired.
THEOREM Earned == AuthSpec => []SessionsWereEarned
<1>1. Inv => SessionsWereEarned
  BY DEF Inv
<1> QED BY <1>1, Invariance, PTL

\* Who has the key to verify a token has one that is less than an hour from its last
\* publication: it comes from the cache that has not aged, or from the fetch.
LEMMA VerifiedWithRecentKey ==
    ASSUME NEW r \in Requests, Inv, [AuthNext]_auth_vars, step[r] # "verify", step'[r] = "verify"
    PROVE  now < last[token[r].kid] + KeyLife
<1> USE SignInAssumption
<1>0. AuthNext
  BY DEF auth_vars, login_vars
<1>1. step' # step
  OBVIOUS
<1>2. ~Tick /\ ~Rotate /\ \A c \in Clients : ~DropCookie(c)
  BY <1>1 DEF Tick, Rotate, DropCookie, login_vars
<1>3. \A q \in Requests, t \in Tokens : ~Login(q, t)
  BY DEF Login, Continue, Answer, Inv, SignInTypeOK
<1>4. PICK q \in Requests, c \in Clients : SignInStep(q, c)
  BY <1>0, <1>2, <1>3 DEF AuthNext
<1>5. Look(r) \/ Lock(r) \/ Fetch(r)
  BY <1>4 DEF SignInStep, Look, Lock, Fetch, FetchFails, Verify, Continue, Answer, Inv, SignInTypeOK
<1>6. CASE Look(r) \/ Lock(r)
  <2>1. Known(token[r].kid)
    BY <1>6 DEF Look, Lock, Continue, Inv, SignInTypeOK
  <2> QED BY <2>1 DEF Known, Inv, SignInTypeOK, KeysAge
<1>7. CASE Fetch(r)
  <2>1. token[r].kid \in published
    BY <1>7 DEF Fetch, Continue, Answer, Inv, SignInTypeOK
  <2> QED BY <2>1 DEF Inv, SignInTypeOK, KeysAge
<1> QED BY <1>5, <1>6, <1>7

\* Rejections have a reason, and sessions were earned.
THEOREM SignInsDecidedRight == AuthSpec => []SignInsAreRight
BY RejectedForAReason, Earned, PTL DEF SignInsAreRight

\* No token is verified with a key that Google withdrew longer ago than the hour.
THEOREM RecentKeys == AuthSpec => KeysWerePublished
<1>1. Inv /\ [AuthNext]_auth_vars =>
        [\A r \in Requests : step[r] # "verify" /\ step'[r] = "verify" =>
             now < last[token[r].kid] + KeyLife]_auth_vars
  BY VerifiedWithRecentKey
<1> QED BY <1>1, Invariance, PTL DEF AuthSpec, KeysWerePublished
===============================================================================
