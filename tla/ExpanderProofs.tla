---------------------------- MODULE ExpanderProofs ----------------------------
(***************************************************************************)
(* Theorems about Expander, for any set of URLs, addresses and answers of  *)
(* the resolver, any number of expansions at a time and any limits.        *)
(*                                                                         *)
(* The invariant says how an expansion under way stands to what it was     *)
(* answered: its redirects are the responses so far, each leads to the     *)
(* next request, and the keys it has visited are those of the requests.    *)
(***************************************************************************)
EXTENDS Expander, SequenceTheorems, TLAPS

\* What the dialer holds has been checked.
Checked == \A r \in Requests : \A i \in DOMAIN addrs[r] : IsPublic(addrs[r][i])

\* Each response leads to the next request.
Chained(s) == \A i \in 1 .. Len(s) - 1 : /\ IsRedirect(s[i].status)
                                         /\ s[i].location = s[i + 1].url

\* No two responses of a request have the same key.
Distinct(s) == \A i, j \in 1 .. Len(s) : VisitKey(s[i].url) = VisitKey(s[j].url) => i = j

\* An expansion under way.
Chain(r) ==
    /\ served[r] = redirects[r] /\ Len(redirects[r]) <= limit
    /\ \A i \in 1 .. Len(served[r]) : VisitKey(served[r][i].url) \in visited[r]
    /\ VisitKey(current[r]) \in visited[r]
    /\ \A k \in visited[r] : \/ k = VisitKey(current[r])
                             \/ \E i \in 1 .. Len(served[r]) : k = VisitKey(served[r][i].url)
    /\ \A i \in 1 .. Len(served[r]) : VisitKey(served[r][i].url) # VisitKey(current[r])
    /\ served[r] = <<>> => input[r] = current[r]
    /\ served[r] # <<>> => /\ input[r] = served[r][1].url
                           /\ IsRedirect(served[r][Len(served[r])].status)
                           /\ served[r][Len(served[r])].location = current[r]
    /\ answer[r] = NoAnswer /\ ValidateTarget(current[r]) = "ok"

Valid(s) == \A i \in 1 .. Len(s) : ValidateTarget(s[i].url) = "ok"

\* What an answer says of the responses.
Explained(r) == LET s == served[r]  a == answer[r]  n == Len(s) IN
    /\ a.code = 200 =>
         /\ n = Len(a.redirects) + 1 /\ n <= limit + 1
         /\ a.input = s[1].url /\ a.final = s[n].url /\ a.status = s[n].status
         /\ \A i \in 1 .. n - 1 : /\ a.redirects[i] = s[i]
                                 /\ IsRedirect(s[i].status)
                                 /\ s[i].location = s[i + 1].url
         /\ s[n].location = NoLocation \/ ~IsRedirect(s[n].status)
    /\ a.error = "tooMany" => n = limit + 1 /\ s[n].location # NoLocation
    /\ a.error = "loop" => \E i \in 1 .. n : VisitKey(s[i].url) = VisitKey(s[n].location)

DialsInv == Checked /\ \A a \in dialled : IsPublic(a)

HistoryOf(r) == /\ step[r] \in Running => Chain(r)
                /\ Len(served[r]) <= limit + 1
                /\ Chained(served[r]) /\ Distinct(served[r]) /\ Valid(served[r])
                /\ Explained(r)

HistoryInv == \A r \in Requests : HistoryOf(r)

Inv == TypeOK /\ DialsInv /\ HistoryInv

-------------------------------------------------------------------------------
(* Values                                                                  *)

LEMMA LimitType ==
    ASSUME NEW n \in Int PROVE MaxRedirects(n) \in 1 .. MaxSupportedRedirects
  BY ExpanderAssumption DEF MaxRedirects

Errors == {"invalid", "invalidRedirect", "blocked", "tooMany", "loop", "timeout", "fetch"}

LEMMA FailedValue ==
    ASSUME NEW e \in Errors
    PROVE  Failed(e).error = e /\ Failed(e).code # 200 /\ Failed(e).code # 0
  BY DEF Failed, Errors, WriteExpandError

LEMMA VerdictValue ==
    ASSUME NEW r, NEW location
    PROVE  /\ Verdict(r, location) \in Errors \cup {"ok"}
           /\ Verdict(r, location) = "tooMany" => TooMany(r)
           /\ Verdict(r, location) = "loop" => Reached(r, location)
           /\ Verdict(r, location) = "ok" =>
                /\ ~TooMany(r) /\ ~Reached(r, location) /\ ValidateTarget(location) = "ok"
  BY DEF Verdict, Errors, ValidateTarget, ValidateHostName

LEMMA DialVerdictValue ==
    ASSUME NEW host, NEW ips
    PROVE  /\ DialVerdict(host, ips) \in {"invalid", "blocked", "fetch", "ok"}
           /\ DialVerdict(host, ips) = "ok" => ips # <<>> /\ \A i \in DOMAIN ips : IsPublic(ips[i])
  BY DEF DialVerdict, ValidateHostName

LEMMA ParseValue ==
    ASSUME NEW raw \in URLs \cup {Malformed}
    PROVE  /\ ParseTarget(raw) \in {"invalid", "blocked", "ok"}
           /\ ParseTarget(raw) = "ok" => raw \in URLs /\ ValidateTarget(raw) = "ok"
  BY DEF ParseTarget, ValidateTarget, ValidateHostName

LEMMA KeyOfValid ==
    ASSUME NEW u \in URLs, ValidateTarget(u) = "ok"
    PROVE  VisitKey(u) = [scheme |-> u.scheme, user |-> FALSE, long |-> FALSE, host |-> u.host,
                          caps |-> FALSE, page |-> u.page, fragment |-> FALSE]
<1>1. u \in [scheme : {"http", "https", "other"}, user : BOOLEAN, long : BOOLEAN, host : Hosts,
             caps : BOOLEAN, page : STRING, fragment : BOOLEAN]
  BY ExpanderAssumption
<1>2. ~u.user /\ ~u.long
  BY DEF ValidateTarget
<1>3. u.user = FALSE /\ u.long = FALSE
  BY <1>1, <1>2
<1>4. /\ VisitKey(u) \in [scheme : {"http", "https", "other"}, user : BOOLEAN, long : BOOLEAN,
                          host : Hosts, caps : BOOLEAN, page : STRING, fragment : BOOLEAN]
      /\ VisitKey(u).scheme = u.scheme /\ VisitKey(u).host = u.host /\ VisitKey(u).page = u.page
  BY <1>1 DEF VisitKey
<1>5. VisitKey(u).user = FALSE /\ VisitKey(u).long = FALSE
  BY <1>1, <1>3 DEF VisitKey
<1>6. VisitKey(u).caps = FALSE /\ VisitKey(u).fragment = FALSE
  BY <1>1 DEF VisitKey
<1> QED BY <1>4, <1>5, <1>6

LEMMA NothingLeft == DOMAIN <<>> = {}
  OBVIOUS

LEMMA TailOfMany ==
    ASSUME NEW S, NEW s \in Seq(S), Len(s) > 1 PROVE Tail(s) # <<>>
<1>1. Len(s) \in Nat /\ s # <<>> BY EmptySeq, LenProperties
<1>2. Len(Tail(s)) = Len(s) - 1 BY <1>1, HeadTailProperties, Zenon
<1>3. Len(Tail(s)) # 0 BY <1>1, <1>2
<1> QED BY <1>3, EmptySeq, Zenon

LEMMA ValidLocation ==
    ASSUME NEW r, NEW location \in URLs \cup {Malformed, NoLocation},
           location # NoLocation, Verdict(r, location) = "ok"
    PROVE  location \in URLs
  BY DEF Verdict

-------------------------------------------------------------------------------
(* Steps that leave the chain alone                                        *)

\* Errors that no response is needed for.
Plain == {"invalid", "invalidRedirect", "blocked", "timeout", "fetch"}

\* A step within an expansion, or to its end with a plain error.
Quiet(r) ==
    /\ UNCHANGED <<limit, chain_vars, served>>
    /\ \/ \E next \in Running : Goes(r, next)
       \/ \E e \in Plain : Answer(r, Failed(e))

LEMMA QuietKeepsHistory ==
    ASSUME TypeOK, HistoryInv, NEW r \in Requests, step[r] \in Running, Quiet(r)
    PROVE  HistoryInv'
<1> SUFFICES ASSUME NEW q \in Requests PROVE HistoryOf(q)'
  BY DEF HistoryInv
<1> HistoryOf(q) BY DEF HistoryInv
<1> UNCHANGED <<limit, input, current, visited, redirects, served>> BY DEF Quiet, chain_vars
<1>1. CASE \E next \in Running : Goes(r, next)
  <2> answer' = answer /\ (step'[q] \in Running => step[q] \in Running)
    BY <1>1 DEF Goes, TypeOK
  <2> QED BY DEF HistoryOf, Chain, Explained, Chained, Distinct, Valid
<1>2. CASE \E e \in Plain : Answer(r, Failed(e))
  <2> PICK e \in Plain : Answer(r, Failed(e)) BY <1>2
  <2>1. Failed(e).error = e /\ Failed(e).code # 200
    BY FailedValue DEF Plain, Errors
  <2>2. CASE q = r
    <3> step'[q] = "done" /\ answer'[q] = Failed(e) BY <2>2 DEF Answer, TypeOK
    <3> Explained(q)' BY <2>1 DEF Explained, Plain
    <3> QED BY DEF HistoryOf, Running, Chained, Distinct, Valid
  <2>3. CASE q # r
    <3> step'[q] = step[q] /\ answer'[q] = answer[q] BY <2>3 DEF Answer, TypeOK
    <3> QED BY DEF HistoryOf, Chain, Explained, Chained, Distinct, Valid
  <2> QED BY <2>2, <2>3
<1> QED BY <1>1, <1>2 DEF Quiet

LEMMA ReuseStep ==
    ASSUME Inv, NEW r \in Requests, Reuse(r)
    PROVE  Inv'
<1>1. step[r] \in Running /\ Quiet(r) BY DEF Reuse, Quiet, Running
<1>2. HistoryInv' BY <1>1, QuietKeepsHistory DEF Inv
<1>3. TypeOK' BY DEF Inv, TypeOK, Reuse, Goes, chain_vars, Running
<1>4. DialsInv' BY DEF Inv, DialsInv, Checked, Reuse
<1> QED BY <1>2, <1>3, <1>4 DEF Inv

LEMMA ResolveStep ==
    ASSUME Inv, NEW r \in Requests, Resolve(r)
    PROVE  Inv'
<1> PICK ips \in Resolutions(current[r].host) :
      LET verdict == DialVerdict(current[r].host, ips) IN
         \/ verdict # "ok" /\ Answer(r, Failed(verdict)) /\ UNCHANGED addrs
         \/ verdict = "ok" /\ addrs' = [addrs EXCEPT ![r] = ips] /\ Goes(r, "dial")
  BY DEF Resolve
<1> DEFINE verdict == DialVerdict(current[r].host, ips)
<1>1. verdict \in Plain \cup {"ok"} BY DialVerdictValue DEF Plain
<1>2. step[r] \in Running /\ Quiet(r) BY <1>1 DEF Resolve, Quiet, Running
<1>3. HistoryInv' BY <1>2, QuietKeepsHistory DEF Inv
<1>4. ips \in Seq(Addresses)
  <2>1. CASE current[r].host \in Addresses
    <3>1. ASSUME NEW a \in Addresses PROVE <<a>> \in Seq(Addresses) OBVIOUS
    <3> QED BY <2>1, <3>1 DEF Resolutions
  <2>2. CASE current[r].host \notin Addresses BY <2>2, ExpanderAssumption DEF Resolutions
  <2> QED BY <2>1, <2>2
<1>5. UNCHANGED <<limit, idle, input, current, visited, redirects, served, dialled, begun>>
  BY DEF Resolve, chain_vars
<1>6. CASE verdict # "ok"
  <2>1. UNCHANGED addrs /\ Answer(r, Failed(verdict)) BY <1>6
  <2>2. TypeOK' BY <1>5, <2>1 DEF Inv, TypeOK, Answer, Resolve, Running
  <2>3. DialsInv' BY <1>5, <2>1 DEF Inv, DialsInv, Checked
  <2> QED BY <1>3, <2>2, <2>3 DEF Inv
<1>7. CASE verdict = "ok"
  <2>1. addrs' = [addrs EXCEPT ![r] = ips] /\ Goes(r, "dial") BY <1>7
  <2>2. ips # <<>> /\ \A i \in DOMAIN ips : IsPublic(ips[i]) BY <1>7, DialVerdictValue
  <2>3. TypeOK' BY <1>4, <1>5, <2>1, <2>2 DEF Inv, TypeOK, Goes, Resolve, Running
  <2>4. DialsInv' BY <1>5, <2>1, <2>2 DEF Inv, DialsInv, Checked, TypeOK
  <2> QED BY <1>3, <2>3, <2>4 DEF Inv
<1> QED BY <1>6, <1>7

LEMMA DialStep ==
    ASSUME Inv, NEW r \in Requests, Dial(r)
    PROVE  Inv'
<1> DEFINE a == Head(addrs[r])
<1>1. step[r] \in Running /\ addrs[r] \in Seq(Addresses) /\ addrs[r] # <<>>
  BY DEF Inv, TypeOK, Dial, Running
<1>2. a \in Addresses /\ a = addrs[r][1] /\ 1 \in DOMAIN addrs[r]
  BY <1>1
<1>3. Quiet(r) BY DEF Dial, DialTo, Quiet, Running, Plain
<1>4. HistoryInv' BY <1>1, <1>3, QuietKeepsHistory DEF Inv
<1>5. /\ UNCHANGED <<limit, idle, input, current, visited, redirects, served, begun>>
      /\ dialled' = dialled \cup {a}
  BY DEF Dial, DialTo, chain_vars
<1>6. PICK next \in Running \cup {"done"}, left \in {<<>>, Tail(addrs[r])} :
        /\ step' = [step EXCEPT ![r] = next] /\ addrs' = [addrs EXCEPT ![r] = left]
        /\ next = "dial" <=> left # <<>>
        /\ DOMAIN answer' = Requests
  <2>1. CASE Goes(r, "wait") /\ addrs' = [addrs EXCEPT ![r] = <<>>]
    BY <2>1 DEF Goes, Running, Inv, TypeOK
  <2>2. CASE Len(addrs[r]) > 1 /\ Goes(r, "dial") /\ addrs' = [addrs EXCEPT ![r] = Tail(@)]
    <3>1. Tail(addrs[r]) # <<>> BY <1>1, <2>2, TailOfMany
    <3>2. addrs' = [addrs EXCEPT ![r] = Tail(addrs[r])] BY <2>2 DEF Inv, TypeOK
    <3> QED BY <2>2, <3>1, <3>2 DEF Goes, Running, Inv, TypeOK
  <2>3. CASE /\ \E error \in {"fetch", "timeout"} : Answer(r, Failed(error))
             /\ addrs' = [addrs EXCEPT ![r] = <<>>]
    BY <2>3 DEF Answer, Running, Inv, TypeOK
  <2> QED BY <2>1, <2>2, <2>3 DEF Dial, DialTo
<1>7. left \in Seq(Addresses)
  <2>1. <<>> \in Seq(Addresses) BY EmptySeq
  <2>2. Tail(addrs[r]) \in Seq(Addresses) BY <1>1, HeadTailProperties
  <2> QED BY <2>1, <2>2
<1>8. TypeOK' BY <1>1, <1>2, <1>5, <1>6, <1>7 DEF Inv, TypeOK, Running
<1>9. DialsInv'
  <2>1. IsPublic(a) BY <1>2 DEF Inv, DialsInv, Checked
  <2>2. \A i \in DOMAIN left : IsPublic(left[i])
    <3>1. CASE left = <<>> BY <3>1, NothingLeft, Zenon
    <3>2. CASE left = Tail(addrs[r])
      <4> SUFFICES ASSUME NEW i \in DOMAIN left PROVE IsPublic(left[i]) OBVIOUS
      <4>1. i + 1 \in DOMAIN addrs[r] /\ left[i] = addrs[r][i + 1]
        BY <1>1, <3>2, HeadTailProperties
      <4> QED BY <4>1 DEF Inv, DialsInv, Checked
    <3> QED BY <3>1, <3>2
  <2> QED BY <1>5, <1>6, <2>1, <2>2 DEF Inv, DialsInv, Checked, TypeOK
<1> QED BY <1>4, <1>8, <1>9 DEF Inv

LEMMA GiveUpStep ==
    ASSUME Inv, NEW r \in Requests, ExchangeFails(r) \/ Deadline(r)
    PROVE  Inv'
<1>1. PICK e \in {"fetch", "timeout"} : GiveUp(r, e) BY DEF ExchangeFails, Deadline
<1>2. step[r] \in Running BY DEF ExchangeFails, Deadline, Running
<1>3. Quiet(r) BY <1>1 DEF GiveUp, Quiet, Plain
<1>4. HistoryInv' BY <1>2, <1>3, QuietKeepsHistory DEF Inv
<1>5. TypeOK' BY <1>1, <1>2 DEF Inv, TypeOK, GiveUp, Answer, chain_vars, Running
<1>6. DialsInv' BY <1>1 DEF Inv, DialsInv, Checked, TypeOK, GiveUp
<1> QED BY <1>4, <1>5, <1>6 DEF Inv

-------------------------------------------------------------------------------
(* Steps of the chain                                                      *)

\* The other expansions do not notice.
LEMMA OthersKeepHistory ==
    ASSUME HistoryInv, NEW r \in Requests, limit' = limit, NEW q \in Requests, q # r,
           step'[q] = step[q], answer'[q] = answer[q], served'[q] = served[q],
           input'[q] = input[q], current'[q] = current[q], visited'[q] = visited[q],
           redirects'[q] = redirects[q]
    PROVE  HistoryOf(q)'
<1>1. HistoryOf(q) BY DEF HistoryInv
<1>2. Chain(q) => Chain(q)' BY DEF Chain
<1>3. Explained(q) => Explained(q)' BY DEF Explained
<1>4. /\ Chained(served[q]) => Chained(served[q])'
      /\ Distinct(served[q]) => Distinct(served[q])'
      /\ Valid(served[q]) => Valid(served[q])'
  BY DEF Chained, Distinct, Valid
<1> QED BY <1>1, <1>2, <1>3, <1>4 DEF HistoryOf

LEMMA BeginStep ==
    ASSUME Inv, NEW r \in Requests, NEW raw \in URLs \cup {Malformed}, Begin(r, raw)
    PROVE  Inv'
<1> DEFINE verdict == ParseTarget(raw)
<1>1. verdict \in {"invalid", "blocked", "ok"} /\ (verdict = "ok" => raw \in URLs /\ ValidateTarget(raw) = "ok")
  BY ParseValue
<1>2. /\ step[r] = "done" /\ begun' = begun + 1 /\ begun < MaxExpansions
      /\ served' = [served EXCEPT ![r] = <<>>]
      /\ UNCHANGED <<limit, idle, addrs, dialled>>
  BY DEF Begin
<1>3. DialsInv' BY <1>2 DEF Inv, DialsInv, Checked
<1>4. limit \in Nat BY DEF Inv, TypeOK
<1>5. CASE verdict = "ok"
  <2>1. /\ step' = [step EXCEPT ![r] = "connect"]
        /\ answer' = [answer EXCEPT ![r] = NoAnswer]
        /\ input' = [input EXCEPT ![r] = raw]
        /\ current' = [current EXCEPT ![r] = raw]
        /\ visited' = [visited EXCEPT ![r] = {VisitKey(raw)}]
        /\ redirects' = [redirects EXCEPT ![r] = <<>>]
    BY <1>5 DEF Begin
  <2>2. TypeOK' BY <1>1, <1>2, <1>5, <2>1, ExpanderAssumption DEF Inv, TypeOK, Running
  <2>3. HistoryOf(r)'
    BY <1>1, <1>2, <1>4, <1>5, <2>1 DEF Inv, TypeOK, HistoryOf, Chain, Explained, Chained, Distinct, Valid, NoAnswer
  <2>4. ASSUME NEW q \in Requests, q # r PROVE HistoryOf(q)'
    BY <1>2, <2>1, <2>4, OthersKeepHistory DEF Inv, TypeOK
  <2> QED BY <1>3, <2>2, <2>3, <2>4 DEF Inv, HistoryInv
<1>6. CASE verdict # "ok"
  <2>1. Answer(r, Failed(verdict)) /\ UNCHANGED <<input, current, visited, redirects>>
    BY <1>6 DEF Begin, chain_vars
  <2>2. TypeOK' BY <1>2, <2>1, ExpanderAssumption DEF Inv, TypeOK, Answer, Running
  <2>3. Failed(verdict).error = verdict /\ Failed(verdict).code # 200
    BY <1>1, <1>6, FailedValue DEF Errors
  <2>4. step'[r] = "done" /\ answer'[r] = Failed(verdict) /\ served'[r] = <<>>
    BY <1>2, <2>1 DEF Inv, TypeOK, Answer
  <2>5. HistoryOf(r)'
    BY <1>1, <1>2, <1>4, <2>3, <2>4 DEF HistoryOf, Explained, Chained, Distinct, Valid, Running
  <2>6. ASSUME NEW q \in Requests, q # r PROVE HistoryOf(q)'
    BY <1>2, <2>1, <2>6, OthersKeepHistory DEF Inv, TypeOK, Answer
  <2> QED BY <1>3, <2>2, <2>5, <2>6 DEF Inv, HistoryInv
<1> QED BY <1>5, <1>6

LEMMA CloseIdleStep == Inv /\ CloseIdle => Inv'
  BY DEF Inv, TypeOK, DialsInv, Checked, HistoryInv, HistoryOf, Chain, Explained, Chained,
         Distinct, Valid, CloseIdle, chain_vars

\* A response is one more in the history, which stays a chain without repetition.
LEMMA ServedGrows ==
    ASSUME NEW r \in Requests, TypeOK, HistoryOf(r), step[r] \in Running,
           NEW status \in Statuses, NEW location \in URLs \cup {Malformed, NoLocation}
    PROVE  LET s == Append(served[r], Hop(r, status, location)) IN
           /\ s \in Seq(Hops) /\ Len(s) = Len(served[r]) + 1
           /\ s[Len(s)] = Hop(r, status, location)
           /\ \A i \in 1 .. Len(served[r]) : s[i] = served[r][i]
           /\ Len(s) <= limit + 1
           /\ Chained(s) /\ Distinct(s) /\ Valid(s)
           /\ s[1].url = input[r]
<1> DEFINE n == Len(served[r])
           s == Append(served[r], Hop(r, status, location))
<1>1. Hop(r, status, location) \in Hops BY DEF TypeOK, Hop, Hops
<1>2. served[r] \in Seq(Hops) /\ n \in Nat /\ limit \in Nat BY DEF TypeOK
<1>3. /\ s \in Seq(Hops) /\ Len(s) = n + 1
      /\ s[n + 1] = Hop(r, status, location)
      /\ \A i \in 1 .. n : s[i] = served[r][i]
  BY <1>1, <1>2
<1> HIDE DEF s
<1>4. Chain(r) BY DEF HistoryOf
<1>11. Chained(served[r]) /\ Distinct(served[r]) BY DEF HistoryOf
<1>5. Len(s) <= limit + 1 BY <1>2, <1>3, <1>4 DEF Chain
<1>6. s[n + 1].url = current[r] BY <1>3 DEF Hop
<1>7. Chained(s)
  <2> SUFFICES ASSUME NEW i \in 1 .. n
               PROVE  IsRedirect(s[i].status) /\ s[i].location = s[i + 1].url
    BY <1>2, <1>3 DEF Chained
  <2>1. CASE i < n
    <3>1. i \in 1 .. n - 1 /\ i + 1 \in 1 .. n BY <1>2, <2>1
    <3>2. s[i] = served[r][i] /\ s[i + 1] = served[r][i + 1] BY <1>3, <3>1
    <3> QED BY <1>11, <3>1, <3>2 DEF Chained
  <2>2. CASE i = n
    <3>1. served[r] # <<>> BY <1>2, <2>2
    <3> QED BY <1>2, <1>3, <1>4, <1>6, <2>2, <3>1 DEF Chain
  <2> QED BY <1>2, <2>1, <2>2
<1>8. Distinct(s)
  <2> SUFFICES ASSUME NEW i \in 1 .. n + 1, NEW j \in 1 .. n + 1,
                      VisitKey(s[i].url) = VisitKey(s[j].url)
               PROVE  i = j
    BY <1>3 DEF Distinct
  <2>1. CASE i <= n /\ j <= n
    <3>1. i \in 1 .. n /\ j \in 1 .. n BY <1>2, <2>1
    <3>2. s[i] = served[r][i] /\ s[j] = served[r][j] BY <1>3, <3>1
    <3>3. VisitKey(served[r][i].url) = VisitKey(served[r][j].url) BY <3>2
    <3>4. \A k, l \in 1 .. n : VisitKey(served[r][k].url) = VisitKey(served[r][l].url) => k = l
      BY <1>11 DEF Distinct
    <3> QED BY <3>1, <3>3, <3>4, Zenon
  <2>2. CASE i = n + 1 /\ j <= n BY <1>2, <1>3, <1>4, <1>6, <2>2 DEF Chain
  <2>3. CASE i <= n /\ j = n + 1 BY <1>2, <1>3, <1>4, <1>6, <2>3 DEF Chain
  <2> QED BY <1>2, <2>1, <2>2, <2>3
<1>9. s[1].url = input[r]
  <2>1. CASE n = 0 BY <1>2, <1>3, <1>4, <1>6, <2>1 DEF Chain
  <2>2. CASE n > 0
    <3>1. served[r] # <<>> /\ 1 \in 1 .. n BY <1>2, <2>2
    <3> QED BY <1>3, <1>4, <3>1 DEF Chain
  <2> QED BY <1>2, <2>1, <2>2
<1>10. Valid(s)
  BY <1>2, <1>3, <1>4, <1>6 DEF Valid, HistoryOf, Chain
<1> QED BY <1>3, <1>5, <1>7, <1>8, <1>9, <1>10 DEF s

LEMMA RespondStep ==
    ASSUME Inv, NEW r \in Requests, NEW status \in Statuses,
           NEW location \in URLs \cup {Malformed, NoLocation}, Respond(r, status, location)
    PROVE  Inv'
<1> DEFINE h == Hop(r, status, location)
           n == Len(served[r])
<1>0. PICK s : s = Append(served[r], Hop(r, status, location)) OBVIOUS
<1>1. /\ step[r] = "wait" /\ step[r] \in Running /\ addrs[r] = <<>>
      /\ input[r] \in URLs /\ current[r] \in URLs
  BY DEF Respond, Running, Inv, TypeOK
<1>2. TypeOK /\ HistoryOf(r) /\ Chain(r) BY <1>1 DEF Inv, HistoryInv, HistoryOf
<1>3. /\ s \in Seq(Hops) /\ Len(s) = n + 1 /\ s[Len(s)] = h
      /\ \A i \in 1 .. n : s[i] = served[r][i]
      /\ Len(s) <= limit + 1
      /\ Chained(s) /\ Distinct(s) /\ Valid(s)
      /\ s[1].url = input[r]
  BY <1>0, <1>1, <1>2, ServedGrows
<1>4. /\ served' = [served EXCEPT ![r] = s]
      /\ UNCHANGED <<limit, addrs, dialled, begun>>
  BY <1>0 DEF Respond, Inv, TypeOK
<1>5. DialsInv' BY <1>4 DEF Inv, DialsInv, Checked
<1>6. n \in Nat /\ limit \in Nat /\ served[r] = redirects[r]
  BY <1>2 DEF TypeOK, Chain
<1>7. served'[r] = s /\ served' \in [Requests -> Seq(Hops)] BY <1>2, <1>3, <1>4 DEF TypeOK
<1>8. h.url = current[r] /\ h.status = status /\ h.location = location BY DEF Hop
<1>9. CASE (~IsRedirect(status) \/ location = NoLocation) /\ Answer(r, Result(r, status))
           /\ UNCHANGED chain_vars
  <2>1. TypeOK' BY <1>1, <1>4, <1>7, <1>9 DEF Inv, TypeOK, Answer, chain_vars, Running
  <2>2. step'[r] = "done" /\ answer'[r] = Result(r, status) BY <1>2, <1>9 DEF TypeOK, Answer
  <2>3. Explained(r)'
    <3>1. \A i \in 1 .. n : /\ redirects[r][i] = s[i]
                            /\ IsRedirect(s[i].status) /\ s[i].location = s[i + 1].url
      BY <1>3, <1>6 DEF Chained
    <3>2. Len(s) = Len(redirects[r]) + 1 /\ Len(s) - 1 = n BY <1>3, <1>6
    <3>3. /\ input[r] = s[1].url /\ current[r] = s[Len(s)].url /\ status = s[Len(s)].status
          /\ s[Len(s)].location = NoLocation \/ ~IsRedirect(s[Len(s)].status)
      BY <1>3, <1>8, <1>9
    <3>4. /\ Result(r, status).error = "none" /\ Result(r, status).code = 200
          /\ Result(r, status).input = input[r] /\ Result(r, status).final = current[r]
          /\ Result(r, status).status = status /\ Result(r, status).redirects = redirects[r]
      BY DEF Result
    <3> HIDE DEF n
    <3> QED BY <1>3, <1>4, <1>7, <2>2, <3>1, <3>2, <3>3, <3>4 DEF Explained
  <2>4. HistoryOf(r)' BY <1>3, <1>4, <1>7, <2>2, <2>3 DEF HistoryOf, Running
  <2>5. ASSUME NEW q \in Requests, q # r PROVE HistoryOf(q)'
    BY <1>2, <1>4, <1>9, <2>5, OthersKeepHistory DEF Inv, TypeOK, Answer, chain_vars
  <2> QED BY <1>5, <2>1, <2>4, <2>5 DEF Inv, HistoryInv
<1>10. CASE /\ location # NoLocation /\ Verdict(r, location) # "ok"
            /\ Answer(r, Failed(Verdict(r, location))) /\ UNCHANGED chain_vars
  <2> DEFINE e == Verdict(r, location)
  <2>1. TypeOK' BY <1>1, <1>4, <1>7, <1>10 DEF Inv, TypeOK, Answer, chain_vars, Running
  <2>2. step'[r] = "done" /\ answer'[r] = Failed(e) BY <1>2, <1>10 DEF TypeOK, Answer
  <2>3. e \in Errors /\ Failed(e).error = e /\ Failed(e).code # 200
    BY <1>10, VerdictValue, FailedValue
  <2>4. e = "tooMany" => Len(s) = limit + 1
    BY <1>2, <1>3, <1>6, VerdictValue DEF TooMany, Chain
  <2>5. e = "loop" => \E i \in 1 .. Len(s) : VisitKey(s[i].url) = VisitKey(location)
    <3> SUFFICES ASSUME e = "loop"
                 PROVE  \E i \in 1 .. Len(s) : VisitKey(s[i].url) = VisitKey(location)
      OBVIOUS
    <3>1. VisitKey(location) \in visited[r] BY VerdictValue DEF Reached
    <3>2. CASE VisitKey(location) = VisitKey(current[r])
      <4>1. n + 1 \in 1 .. Len(s) /\ s[n + 1].url = current[r] BY <1>3, <1>6, <1>8
      <4> QED BY <3>2, <4>1
    <3>3. CASE \E i \in 1 .. n : VisitKey(location) = VisitKey(served[r][i].url)
      BY <1>3, <1>6, <3>3
    <3> QED BY <1>2, <3>1, <3>2, <3>3 DEF Chain
  <2>6. Explained(r)'
    BY <1>3, <1>4, <1>7, <1>8, <1>10, <2>2, <2>3, <2>4, <2>5 DEF Explained
  <2>7. HistoryOf(r)' BY <1>3, <1>4, <1>7, <2>2, <2>6 DEF HistoryOf, Running
  <2>8. ASSUME NEW q \in Requests, q # r PROVE HistoryOf(q)'
    BY <1>2, <1>4, <1>10, <2>8, OthersKeepHistory DEF Inv, TypeOK, Answer, chain_vars
  <2> QED BY <1>5, <2>1, <2>7, <2>8 DEF Inv, HistoryInv
<1>11. CASE /\ IsRedirect(status) /\ location # NoLocation /\ Verdict(r, location) = "ok"
            /\ Advance(r, status, location)
  <2>1. location \in URLs BY <1>11, ValidLocation
  <2>2. /\ step' = [step EXCEPT ![r] = "connect"] /\ answer' = answer /\ input' = input
        /\ visited' = [visited EXCEPT ![r] = visited[r] \cup {VisitKey(location)}]
        /\ redirects' = [redirects EXCEPT ![r] = s]
        /\ current' = [current EXCEPT ![r] = location]
    BY <1>0, <1>2, <1>6, <1>11 DEF Advance, Goes, TypeOK
  <2>3. TypeOK' BY <1>1, <1>3, <1>4, <1>7, <2>1, <2>2 DEF Inv, TypeOK, Running
  <2>4. VisitKey(location) \notin visited[r] /\ n < limit /\ ValidateTarget(location) = "ok"
    BY <1>6, <1>11, VerdictValue DEF Reached, TooMany
  <2>5. \A i \in 1 .. n + 1 : VisitKey(s[i].url) \in visited[r]
    BY <1>2, <1>3, <1>6, <1>8 DEF Chain
  <2>6. Chain(r)'
    <3>1. served'[r] = redirects'[r] /\ Len(redirects'[r]) <= limit'
      BY <1>2, <1>3, <1>4, <1>6, <1>7, <2>2, <2>4 DEF TypeOK
    <3>2. /\ visited'[r] = visited[r] \cup {VisitKey(location)} /\ current'[r] = location
          /\ input'[r] = input[r] /\ answer'[r] = NoAnswer
      BY <1>2, <2>2 DEF TypeOK, Chain
    <3>3. \A k \in visited[r] : \E i \in 1 .. n + 1 : k = VisitKey(s[i].url)
      <4> SUFFICES ASSUME NEW k \in visited[r]
                   PROVE  \E i \in 1 .. n + 1 : k = VisitKey(s[i].url)
        OBVIOUS
      <4>1. CASE k = VisitKey(current[r])
        <5>1. n + 1 \in 1 .. n + 1 /\ s[n + 1].url = current[r] BY <1>3, <1>6, <1>8
        <5> QED BY <4>1, <5>1
      <4>2. CASE \E i \in 1 .. n : k = VisitKey(served[r][i].url)
        BY <1>3, <1>6, <4>2
      <4> QED BY <1>2, <4>1, <4>2 DEF Chain
    <3>4. s # <<>> BY <1>3, <1>6, EmptySeq
    <3> QED BY <1>3, <1>6, <1>7, <1>8, <1>11, <2>4, <2>5, <3>1, <3>2, <3>3, <3>4 DEF Chain
  <2>7. Explained(r)' BY <1>2, <2>2 DEF Explained, Chain, NoAnswer
  <2>8. HistoryOf(r)' BY <1>3, <1>4, <1>7, <2>6, <2>7 DEF HistoryOf
  <2>9. ASSUME NEW q \in Requests, q # r PROVE HistoryOf(q)'
    BY <1>2, <1>4, <2>2, <2>9, OthersKeepHistory DEF Inv, TypeOK
  <2> QED BY <1>5, <2>3, <2>8, <2>9 DEF Inv, HistoryInv
<1> QED BY <1>9, <1>10, <1>11 DEF Respond

-------------------------------------------------------------------------------
(* Theorems                                                                *)

LEMMA InvInit == Init => Inv
<1> SUFFICES ASSUME Init PROVE Inv OBVIOUS
<1>1. limit \in 1 .. MaxSupportedRedirects BY LimitType, ExpanderAssumption DEF Init
<1>2. TypeOK BY <1>1, ExpanderAssumption DEF Init, TypeOK, Running
<1>3. DialsInv BY DEF Init, DialsInv, Checked
<1>4. HistoryInv
  BY <1>1, ExpanderAssumption
     DEF Init, HistoryInv, HistoryOf, Chained, Distinct, Valid, Explained, NoAnswer, Running
<1> QED BY <1>2, <1>3, <1>4 DEF Inv

LEMMA InvNext == Inv /\ [Next]_vars => Inv'
<1> SUFFICES ASSUME Inv, [Next]_vars PROVE Inv' OBVIOUS
<1>1. CASE UNCHANGED vars
  <2> UNCHANGED <<limit, idle, step, input, current, visited, redirects, addrs, answer,
                  served, dialled, begun>>
    BY <1>1 DEF vars, chain_vars
  <2>1. TypeOK' BY DEF Inv, TypeOK
  <2>2. DialsInv' BY DEF Inv, DialsInv, Checked
  <2>3. HistoryInv'
    BY DEF Inv, HistoryInv, HistoryOf, Chain, Explained, Chained, Distinct, Valid
  <2> QED BY <2>1, <2>2, <2>3 DEF Inv
<1>2. CASE CloseIdle BY <1>2, CloseIdleStep
<1>3. ASSUME NEW r \in Requests, NEW raw \in URLs \cup {Malformed}, Begin(r, raw) PROVE Inv'
  BY <1>3, BeginStep
<1>4. ASSUME NEW r \in Requests, NEW status \in Statuses,
             NEW location \in URLs \cup {Malformed, NoLocation}, Respond(r, status, location)
      PROVE  Inv'
  BY <1>4, RespondStep
<1>5. ASSUME NEW r \in Requests,
             Reuse(r) \/ Resolve(r) \/ Dial(r) \/ ExchangeFails(r) \/ Deadline(r)
      PROVE  Inv'
  BY <1>5, ReuseStep, ResolveStep, DialStep, GiveUpStep
<1> QED BY <1>1, <1>2, <1>3, <1>4, <1>5 DEF Next

LEMMA InvAlways == Spec => []Inv
  BY InvInit, InvNext, PTL DEF Spec

\* The variables keep their types: in particular the limit in force is one that is
\* supported, whatever the configuration says (expander.go:92-98).
THEOREM Typed == Spec => []TypeOK
<1>1. Inv => TypeOK BY DEF Inv
<1> QED BY <1>1, InvAlways, PTL

\* Only public addresses are dialled, for any answers of the resolver, which may
\* change from lookup to lookup (safeDialContext, expander.go:339-387).
THEOREM PublicOnly == Spec => []OnlyPublicDials
<1>1. ASSUME Inv PROVE OnlyPublicDials
  <2>1. \A a \in dialled : a.class \notin BlockedClasses
    BY <1>1 DEF Inv, DialsInv, IsPublic
  <2>2. \A r \in Requests : Valid(served[r]) /\ served[r] \in Seq(Hops)
    BY <1>1 DEF Inv, TypeOK, HistoryInv, HistoryOf
  <2> QED BY <2>1, <2>2 DEF OnlyPublicDials, Valid
<1> QED BY <1>1, InvAlways, PTL

\* An expansion requests no page twice (expander.go:191-195).
THEOREM PagesOnce == Spec => []NoPageTwice
<1>1. ASSUME Inv PROVE NoPageTwice
  <2> SUFFICES ASSUME NEW r \in Requests, NEW i \in DOMAIN served[r], NEW j \in DOMAIN served[r],
                      SamePage(served[r][i].url, served[r][j].url)
               PROVE  i = j
    BY DEF NoPageTwice
  <2>1. served[r] \in Seq(Hops) /\ Distinct(served[r])
    BY <1>1 DEF Inv, TypeOK, HistoryInv, HistoryOf
  <2>2. i \in 1 .. Len(served[r]) /\ j \in 1 .. Len(served[r]) BY <2>1
  <2>3. served[r][i].url \in URLs /\ served[r][j].url \in URLs
    <3>1. served[r][i] \in Hops /\ served[r][j] \in Hops BY <2>1, <2>2
    <3> QED BY <3>1 DEF Hops
  <2>5. ValidateTarget(served[r][i].url) = "ok" /\ ValidateTarget(served[r][j].url) = "ok"
    BY <1>1, <2>1, <2>2 DEF Inv, HistoryInv, HistoryOf, Valid
  <2>4. ASSUME NEW u \in URLs, NEW v \in URLs, SamePage(u, v),
               ValidateTarget(u) = "ok", ValidateTarget(v) = "ok"
        PROVE  VisitKey(u) = VisitKey(v)
    BY <2>4, KeyOfValid DEF SamePage
  <2> QED BY <2>1, <2>2, <2>3, <2>4, <2>5 DEF Distinct
<1> QED BY <1>1, InvAlways, PTL

\* No expansion makes more requests than the limit in force allows, nor more than
\* the supported limit (expander.go:179-181).
THEOREM Bounded == Spec => []RequestsBounded
<1>1. Inv => RequestsBounded
  BY ExpanderAssumption DEF Inv, TypeOK, HistoryInv, HistoryOf, RequestsBounded
<1> QED BY <1>1, InvAlways, PTL

\* Answers follow from the responses received, the boundary between "too many
\* redirects", a loop and a result included (expander.go:169-203).
THEOREM Explains == Spec => []AnswersFollowChain
<1>1. Inv => AnswersFollowChain
  BY DEF Inv, HistoryInv, HistoryOf, Explained, AnswersFollowChain
<1> QED BY <1>1, InvAlways, PTL

\* Types and the two bounds together.
THEOREM Spent == Spec => []RequestsSpent
BY Typed, PagesOnce, Bounded, PTL DEF RequestsSpent

===============================================================================
