-------------------------------- MODULE SignIn --------------------------------
(***************************************************************************)
(* Signing in with Google and the session cookie (internal/auth): a client *)
(* posts a Google ID token, which is verified with the keys that Google    *)
(* publishes.  They are cached for an hour under a read-write lock and     *)
(* fetched again when the cache is old or does not have the key; Google    *)
(* rotates them as it likes and the fetch may fail.  A verified token      *)
(* earns a session, a signed cookie that nothing can revoke.               *)
(*                                                                         *)
(* Signatures are modelled by who made them.  One unit of time is a part   *)
(* of the hour that keys are cached; a fetch, ten seconds at most, takes   *)
(* no time.                                                                *)
(***************************************************************************)
EXTENDS Integers, FiniteSets

CONSTANTS
    Requests,      \* requests, each served once
    Clients,       \* browsers, each with its own address
    Kids,          \* ids of Google's keys
    Tokens,        \* ID tokens that clients post
    ClientID,      \* the audience configured
    Issuers,       \* the two spellings of Google
    Subs, NoUser,  \* users; NoUser also stands for an empty subject
    NoToken, NoOne,
    Cookies,       \* cookies that browsers may hold at first
    NoCookie,
    KeyLife,       \* how long fetched keys are used: one hour
    TTLs,          \* values of cookie_ttl
    DefaultTTL,    \* 7 days
    MaxNow, MaxRotations, MaxFetchFailures   \* bounds

\* The session cookie: forged ones are not signed with the secret.
Sessions == [sub : Subs \cup {NoUser}, exp : Nat, signed : BOOLEAN]

ASSUME SignInAssumption ==
    /\ NoUser \notin Subs /\ NoToken \notin Tokens /\ NoOne \notin Requests
    /\ Tokens \subseteq [wellFormed : BOOLEAN, kid : Kids, signer : Kids, iss : STRING,
                         aud : STRING, exp : Nat, sub : Subs \cup {NoUser}]
    /\ Cookies \subseteq Sessions \cup {NoCookie} /\ NoCookie \notin Sessions
    /\ KeyLife \in Nat \ {0} /\ DefaultTTL \in Nat \ {0} /\ TTLs \subseteq Int
    /\ MaxNow \in Nat /\ MaxRotations \in Nat /\ MaxFetchFailures \in Nat

VARIABLES
    now,
    published,    \* ids of the keys that Google publishes
    last,         \* history: when each key was published last
    rotations,
    ttl,          \* lifetime of sessions
    keys, expires,   \* GoogleVerifier's cache
    writer,       \* who holds GoogleVerifier.mu for writing
    step,         \* of each sign-in
    token,        \* posted with the request
    missed,       \* history: the key was unpublished, or its fetch failed, meanwhile
    outcome,      \* HTTP status of the answer, 0 before
    jar,          \* the session cookie of each browser
    issued,       \* history: the sessions issued
    fetchFailures

google_vars == <<published, last, rotations>>
cache_vars == <<keys, expires, writer, fetchFailures>>
login_vars == <<step, token, missed>>
auth_vars == <<now, ttl, google_vars, cache_vars, login_vars, outcome, jar, issued>>

-------------------------------------------------------------------------------
(* Sessions                                                                *)

\* The lifetime of sessions, as configured.
TTL(d) == IF d <= 0 THEN DefaultTTL ELSE d

\* Whose session a cookie is.
Decode(cookie) ==
    IF cookie # NoCookie /\ cookie.signed /\ now < cookie.exp /\ cookie.sub # NoUser
    THEN cookie.sub ELSE NoUser

\* The session for a verified token.
Issue(t) == [sub |-> t.sub, exp |-> now + ttl, signed |-> TRUE]

-------------------------------------------------------------------------------
(* Tokens                                                                  *)

ValidClaims(t) == t.iss \in Issuers /\ t.aud = ClientID /\ now < t.exp /\ t.sub # NoUser

\* What a token needs besides time and a known key.
Genuine(t) == /\ t.wellFormed /\ t.signer = t.kid
              /\ t.iss \in Issuers /\ t.aud = ClientID /\ t.sub # NoUser

\* Mutant of Known: the cache does not age.
KnownForever(k) == k \in keys

Known(k) == now < expires /\ k \in keys

-------------------------------------------------------------------------------
(* Actions                                                                 *)

AuthInit ==
    /\ now = 0 /\ rotations = 0 /\ fetchFailures = 0
    /\ published \in SUBSET Kids \ {{}}
    /\ last = [k \in Kids |-> 0]
    /\ \E d \in TTLs : ttl = TTL(d)
    /\ keys = {} /\ expires = 0 /\ writer = NoOne
    /\ step = [r \in Requests |-> "idle"]
    /\ token = [r \in Requests |-> NoToken]
    /\ missed = [r \in Requests |-> FALSE]
    /\ outcome = [r \in Requests |-> 0]
    /\ jar \in [Clients -> Cookies]
    /\ issued = {[sub |-> jar[c].sub, exp |-> jar[c].exp, by |-> NoOne] :
                   c \in {b \in Clients : jar[b] # NoCookie /\ jar[b].signed}}

\* Time passes; what is published stays published.
Tick == /\ now < MaxNow
        /\ now' = now + 1
        /\ last' = [k \in Kids |-> IF k \in published THEN now + 1 ELSE last[k]]
        /\ UNCHANGED <<ttl, published, rotations, cache_vars, login_vars, outcome, jar, issued>>

\* Google publishes other keys.
Rotate == /\ rotations < MaxRotations
          /\ rotations' = rotations + 1
          /\ published' \in SUBSET Kids \ {{}, published}
          /\ last' = [k \in Kids |-> IF k \in published' THEN now ELSE last[k]]
          /\ missed' = [r \in Requests |-> \/ missed[r]
                                           \/ /\ token[r] # NoToken
                                              /\ token[r].kid \notin published']
          /\ UNCHANGED <<now, ttl, cache_vars, step, token, outcome, jar, issued>>

Answer(r, c) == /\ step' = [step EXCEPT ![r] = "done"]
                /\ outcome' = [outcome EXCEPT ![r] = c]

Continue(r, next) == /\ step' = [step EXCEPT ![r] = next]
                     /\ UNCHANGED outcome

\* A token arrives; its form and its algorithm are checked.
Login(r, t) ==
    /\ step[r] = "idle"
    /\ token' = [token EXCEPT ![r] = t]
    /\ missed' = [missed EXCEPT ![r] = t.kid \notin published]
    /\ \/ /\ t.wellFormed
          /\ Continue(r, "look")
       \/ /\ ~t.wellFormed
          /\ Answer(r, 401)
    /\ UNCHANGED <<now, ttl, google_vars, cache_vars, jar, issued>>

\* The cache is read under the read lock.
Look(r) ==
    /\ step[r] = "look" /\ writer = NoOne
    /\ \/ /\ Known(token[r].kid)
          /\ Continue(r, "verify")
       \/ /\ ~Known(token[r].kid)
          /\ Continue(r, "lock")
    /\ UNCHANGED <<now, ttl, google_vars, cache_vars, token, missed, jar, issued>>

\* Mutant of Lock: keys that are not old are taken for complete.
LockIfOld(r) ==
    /\ step[r] = "lock" /\ writer = NoOne
    /\ \/ /\ Known(token[r].kid)
          /\ Continue(r, "verify")
          /\ UNCHANGED writer
       \/ /\ ~Known(token[r].kid) /\ now < expires
          /\ Answer(r, 401)
          /\ UNCHANGED writer
       \/ /\ ~Known(token[r].kid) /\ now >= expires
          /\ Continue(r, "fetch")
          /\ writer' = r
    /\ UNCHANGED <<now, ttl, google_vars, keys, expires, fetchFailures, token, missed, jar, issued>>

\* The write lock is taken and the cache read again: another request may have
\* fetched the keys.
Lock(r) ==
    /\ step[r] = "lock" /\ writer = NoOne
    /\ \/ /\ Known(token[r].kid)
          /\ Continue(r, "verify")
          /\ UNCHANGED writer
       \/ /\ ~Known(token[r].kid)
          /\ Continue(r, "fetch")
          /\ writer' = r
    /\ UNCHANGED <<now, ttl, google_vars, keys, expires, fetchFailures, token, missed, jar, issued>>

\* The keys arrive, and replace the cache, under the lock.
Fetch(r) ==
    /\ step[r] = "fetch"
    /\ keys' = published /\ expires' = now + KeyLife
    /\ writer' = NoOne
    /\ \/ /\ token[r].kid \in published
          /\ Continue(r, "verify")
       \/ /\ token[r].kid \notin published
          /\ Answer(r, 401)
    /\ UNCHANGED <<now, ttl, google_vars, fetchFailures, token, missed, jar, issued>>

\* Mutant of FetchFails: the lock is not released.
FetchFailsLocked(r) ==
    /\ step[r] = "fetch" /\ fetchFailures < MaxFetchFailures
    /\ fetchFailures' = fetchFailures + 1
    /\ missed' = [missed EXCEPT ![r] = TRUE]
    /\ Answer(r, 401)
    /\ UNCHANGED <<now, ttl, google_vars, keys, expires, writer, token, jar, issued>>

\* No answer, an error, or no usable key in it: the old cache stays as it is.
FetchFails(r) ==
    /\ step[r] = "fetch" /\ fetchFailures < MaxFetchFailures
    /\ fetchFailures' = fetchFailures + 1
    /\ missed' = [missed EXCEPT ![r] = TRUE]
    /\ writer' = NoOne
    /\ Answer(r, 401)
    /\ UNCHANGED <<now, ttl, google_vars, keys, expires, token, jar, issued>>

\* The signature and the claims are checked, and the session is issued and set in
\* the client's browser.
Verify(r, c) ==
    /\ step[r] = "verify"
    /\ LET t == token[r] IN
       \/ /\ t.signer = t.kid /\ ValidClaims(t)
          /\ jar' = [jar EXCEPT ![c] = Issue(t)]
          /\ issued' = issued \cup {[sub |-> t.sub, exp |-> now + ttl, by |-> r]}
          /\ Answer(r, 200)
       \/ /\ ~(t.signer = t.kid /\ ValidClaims(t))
          /\ Answer(r, 401)
          /\ UNCHANGED <<jar, issued>>
    /\ UNCHANGED <<now, ttl, google_vars, cache_vars, token, missed>>

\* Logging out removes the cookie; the session stays valid.
DropCookie(c) ==
    /\ jar' = [jar EXCEPT ![c] = NoCookie]
    /\ UNCHANGED <<now, ttl, google_vars, cache_vars, login_vars, outcome, issued>>

SignInStep(r, c) == Look(r) \/ Lock(r) \/ Fetch(r) \/ FetchFails(r) \/ Verify(r, c)

AuthNext == \/ Tick \/ Rotate
            \/ \E r \in Requests, t \in Tokens : Login(r, t)
            \/ \E r \in Requests, c \in Clients : SignInStep(r, c)
            \/ \E c \in Clients : DropCookie(c)

AuthSpec == AuthInit /\ [][AuthNext]_auth_vars

-------------------------------------------------------------------------------
(* Properties                                                              *)

\* Type correctness.
SignInTypeOK ==
    /\ now \in 0 .. MaxNow /\ rotations \in 0 .. MaxRotations
    /\ fetchFailures \in 0 .. MaxFetchFailures
    /\ published \subseteq Kids /\ last \in [Kids -> Nat]
    /\ ttl \in Nat \ {0}
    /\ keys \subseteq Kids /\ expires \in Nat /\ writer \in Requests \cup {NoOne}
    /\ step \in [Requests -> {"idle", "look", "lock", "fetch", "verify", "done"}]
    /\ token \in [Requests -> Tokens \cup {NoToken}]
    /\ missed \in [Requests -> BOOLEAN]
    /\ outcome \in [Requests -> {0, 200, 401}]
    /\ jar \in [Clients -> Sessions \cup {NoCookie}]
    /\ issued \subseteq [sub : Subs \cup {NoUser}, exp : Nat, by : Requests \cup {NoOne}]

\* google.go:201: a token is verified with a key that Google published less than
\* the hour of the cache ago, however rotations, refreshes and waiting interleave.
KeysWerePublished ==
    [][\A r \in Requests : step[r] # "verify" /\ step'[r] = "verify" =>
           now < last[token[r].kid] + KeyLife]_auth_vars

\* Google's keys change at once: a genuine token that has not expired is turned away
\* only if its key was not published, or the fetch failed, at some moment of the
\* request.  A cache that is not old yet is no reason.
RejectionsJustified ==
    \A r \in Requests :
        outcome[r] = 401 => ~Genuine(token[r]) \/ token[r].exp <= now \/ missed[r]

\* Every session was issued to the subject of a genuine token, posted by the request
\* that got it, before that token expired.
SessionsWereEarned ==
    \A s \in issued : s.by # NoOne =>
        /\ Genuine(token[s.by]) /\ token[s.by].sub = s.sub
        /\ s.exp - ttl < token[s.by].exp

\* Sign-ins succeed and fail for a reason.
SignInsAreRight == RejectionsJustified /\ SessionsWereEarned
===============================================================================
