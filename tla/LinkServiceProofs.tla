--------------------------- MODULE LinkServiceProofs ---------------------------
(***************************************************************************)
(* Theorems about LinkService, for either store, any number of requests,   *)
(* codes and users, and any mix of operations.                             *)
(***************************************************************************)
EXTENDS LinkService, TLAPS

\* The parts of a request that the history of its link object explains.
RequestOK(k) ==
    LET r == req[k] IN
    /\ r.pc # "new" => r.since \in 1 .. Len(log[r.code])
    /\ r.pc \in {"update", "put", "incr_put"} =>
         r.put # Absent /\ r.put.visits <= visited[r.code]
    /\ r.pc \in {"create", "point"} => r.op \in Shortening
    /\ r.pc = "get" => r.op \in Managing \cup {"resolve"}
    /\ r.pc = "point" => r.by # NoOwner
    /\ r.pc = "unpoint" => r.put # Absent /\ r.put.owner # NoOwner

\* Requests beyond their owner check, and clean-ups.
BeyondCheck(k) ==
    \/ /\ req[k].op \in Managing \cup {"resolve"}
       /\ req[k].pc \in {"delete", "find_owner", "remove", "unpoint", "update", "put"}
    \/ req[k].op \in Managing /\ Answered(k, "ok")

LinkInv ==
    /\ TypeOK
    /\ VisitsNeverOvercounted
    /\ \A k \in Requests : RequestOK(k)
    /\ \A k \in Requests : BeyondCheck(k) => Authorised(k)

\* A write of a well-formed value, or none.
LogStep ==
    \/ UNCHANGED log
    \/ \E c \in Codes, v \in Values : WriteObject(c, v)

-------------------------------------------------------------------------------
(* Facts about the history of an object                                    *)

LEMMA LogGrows ==
    ASSUME TypeOK, LogStep
    PROVE  /\ log' \in [Codes -> Seq(Values)]
           /\ \A c \in Codes :
                /\ Len(log[c]) \in Nat /\ Len(log'[c]) \in Nat
                /\ Len(log[c]) >= 1 /\ Len(log'[c]) >= Len(log[c])
                /\ \A i \in 1 .. Len(log[c]) : log'[c][i] = log[c][i]
<1>1. log \in [Codes -> Seq(Values)] /\ \A c \in Codes : Len(log[c]) >= 1
  BY DEF TypeOK
<1>2. CASE UNCHANGED log
  BY <1>1, <1>2
<1>3. ASSUME NEW d \in Codes, NEW v \in Values, WriteObject(d, v)
      PROVE  /\ log' \in [Codes -> Seq(Values)]
             /\ \A c \in Codes :
                  /\ Len(log[c]) \in Nat /\ Len(log'[c]) \in Nat
                  /\ Len(log[c]) >= 1 /\ Len(log'[c]) >= Len(log[c])
                  /\ \A i \in 1 .. Len(log[c]) : log'[c][i] = log[c][i]
  <2>1. log' = [log EXCEPT ![d] = Append(log[d], v)]
    BY <1>3 DEF WriteObject
  <2>2. Append(log[d], v) \in Seq(Values) /\ Len(Append(log[d], v)) = Len(log[d]) + 1
        /\ \A i \in 1 .. Len(log[d]) : Append(log[d], v)[i] = log[d][i]
    BY <1>1
  <2>. QED
    BY <1>1, <2>1, <2>2
<1>. QED
  BY <1>2, <1>3 DEF LogStep

LEMMA LatestType ==
    ASSUME TypeOK, NEW c \in Codes
    PROVE  Latest(c) \in Values /\ Len(log[c]) \in 1 .. Len(log[c])
BY DEF TypeOK, Latest

\* What is appended is the latest value.
LEMMA LatestWritten ==
    ASSUME TypeOK, NEW c \in Codes, NEW v \in Values, WriteObject(c, v)
    PROVE  /\ Latest(c)' = v
           /\ \A d \in Codes \ {c} : Latest(d)' = Latest(d)
<1>1. log \in [Codes -> Seq(Values)]
  BY DEF TypeOK
<1>2. log' = [log EXCEPT ![c] = Append(log[c], v)]
  BY DEF WriteObject
<1>3. Len(Append(log[c], v)) = Len(log[c]) + 1 /\ Append(log[c], v)[Len(log[c]) + 1] = v
  BY <1>1
<1>. QED
  BY <1>1, <1>2, <1>3 DEF Latest

-------------------------------------------------------------------------------
(* The invariant is kept                                                   *)

\* A step of k that leaves the identity of k and its history alone keeps the
\* invariant if the new state of k is explained by the new history.
LEMMA RequestStepInv ==
    ASSUME LinkInv, LogStep, NEW k \in Requests, NEW r \in RequestStates,
           req' = [req EXCEPT ![k] = r],
           TypeOK', VisitsNeverOvercounted', UNCHANGED now,
           \A c \in Codes : visited'[c] >= visited[c],
           RequestOK(k)', BeyondCheck(k)' => Authorised(k)'
    PROVE  LinkInv'
<1>1. /\ log \in [Codes -> Seq(Values)] /\ req \in [Requests -> RequestStates]
      /\ visited \in [Codes -> Nat] /\ visited' \in [Codes -> Nat]
  BY DEF LinkInv, TypeOK
<1>2. \A c \in Codes :
        /\ Len(log[c]) \in Nat /\ Len(log'[c]) \in Nat
        /\ Len(log[c]) >= 1 /\ Len(log'[c]) >= Len(log[c])
        /\ \A i \in 1 .. Len(log[c]) : log'[c][i] = log[c][i]
  BY LogGrows DEF LinkInv
<1>3. ASSUME NEW j \in Requests, j # k
      PROVE  RequestOK(j)' /\ (BeyondCheck(j)' => Authorised(j)')
  <2>1. req'[j] = req[j] /\ req[j] \in RequestStates /\ req[j].code \in Codes
        /\ req[j].since \in Nat
    BY <1>1, <1>3 DEF RequestStates
  <2>2. RequestOK(j)'
    <3>1. RequestOK(j)
      BY DEF LinkInv
    <3>2. req[j].put.visits <= visited[req[j].code] /\ req[j].put # Absent
            => req[j].put.visits <= visited'[req[j].code]
      <4>1. req[j].put # Absent => req[j].put.visits \in Nat
        BY <2>1 DEF RequestStates, Values, Records
      <4>. QED
        BY <1>1, <2>1, <4>1
    <3>. QED
      BY <1>2, <2>1, <3>1, <3>2 DEF RequestOK
  <2>3. BeyondCheck(j)' => Authorised(j)'
    <3>1. BeyondCheck(j)' => BeyondCheck(j)
      BY <2>1 DEF BeyondCheck, Answered
    <3>2. Authorised(j) /\ BeyondCheck(j) => Authorised(j)'
      <4>1. BeyondCheck(j) => req[j].pc # "new"
        BY DEF BeyondCheck, Answered
      <4>2. BeyondCheck(j) => req[j].since \in 1 .. Len(log[req[j].code])
        BY <4>1 DEF LinkInv, RequestOK
      <4>. QED
        BY <1>2, <2>1, <4>2 DEF Authorised, Permits, Expired
    <3>. QED
      BY <3>1, <3>2 DEF LinkInv
  <2>. QED
    BY <2>2, <2>3
<1>. QED
  BY <1>3 DEF LinkInv
\* What a step may write: nothing, or a link whose counter is covered.
SoundWrite ==
    \/ UNCHANGED log
    \/ \E c \in Codes, v \in Values :
         /\ WriteObject(c, v)
         /\ v # Absent => v.visits <= visited'[c]

LEMMA SoundWriteCounts ==
    ASSUME LinkInv, SoundWrite, visited' \in [Codes -> Nat],
           \A c \in Codes : visited'[c] >= visited[c]
    PROVE  LogStep /\ VisitsNeverOvercounted'
<1>1. /\ visited \in [Codes -> Nat]
      /\ \A c \in Codes : Latest(c) # Absent =>
           Latest(c).visits \in Nat /\ Latest(c).visits <= visited[c]
  BY LatestType DEF LinkInv, TypeOK, VisitsNeverOvercounted, Values, Records
<1>2. \A c \in Codes : Latest(c) # Absent => Latest(c).visits <= visited'[c]
  BY <1>1
<1>3. CASE UNCHANGED log
  BY <1>2, <1>3 DEF LogStep, VisitsNeverOvercounted, Latest
<1>4. ASSUME NEW c \in Codes, NEW v \in Values, WriteObject(c, v),
             v # Absent => v.visits <= visited'[c]
      PROVE  LogStep /\ VisitsNeverOvercounted'
  <2>1. LogStep
    BY <1>4 DEF LogStep
  <2>2. Latest(c)' = v /\ \A d \in Codes \ {c} : Latest(d)' = Latest(d)
    BY <1>4, LatestWritten DEF LinkInv
  <2>. QED
    BY <1>2, <1>4, <2>1, <2>2 DEF VisitsNeverOvercounted
<1>. QED
  BY <1>3, <1>4 DEF SoundWrite

\* The form in which the actions use the two lemmas above.
LEMMA StepInv ==
    ASSUME LinkInv, SoundWrite, NEW k \in Requests, NEW r \in RequestStates,
           req' = [req EXCEPT ![k] = r],
           visited' \in [Codes -> Nat], \A c \in Codes : visited'[c] >= visited[c],
           ptr' \subseteq Users \X Codes, UNCHANGED now, failures' \in 0 .. MaxFailures,
           RequestOK(k)', BeyondCheck(k)' => Authorised(k)'
    PROVE  LinkInv'
<1>1. LogStep /\ VisitsNeverOvercounted'
  BY SoundWriteCounts
<1>2. TypeOK'
  BY <1>1, LogGrows DEF LinkInv, TypeOK
<1>. QED
  BY <1>1, <1>2, RequestStepInv

\* What a step does to the variables other than log and req.
Frame ==
    /\ visited' \in [Codes -> Nat] /\ \A c \in Codes : visited'[c] >= visited[c]
    /\ ptr' \subseteq Users \X Codes
    /\ UNCHANGED now
    /\ failures' \in 0 .. MaxFailures

\* r is k further on, with the same code, caller and beginning.
Onward(k, r) ==
    /\ req[k].pc # "new" /\ r.pc # "get"
    /\ r.op = req[k].op /\ r.code = req[k].code /\ r.by = req[k].by
    /\ r.since = req[k].since
    /\ r.pc \in {"update", "put", "incr_put"} =>
         r.put # Absent /\ r.put.visits <= visited'[r.code]
    /\ r.pc \in {"create", "point"} => r.op \in Shortening
    /\ r.pc = "point" => r.by # NoOwner
    /\ r.pc = "unpoint" => r.put # Absent /\ r.put.owner # NoOwner
    /\ \/ /\ r.op \in Managing \cup {"resolve"}
          /\ r.pc \in {"delete", "find_owner", "remove", "unpoint", "update", "put"}
       \/ r.op \in Managing /\ r.pc = "done" /\ r.answer = "ok"
       => BeyondCheck(k) \/ Permits(k, Latest(r.code))

LEMMA OnwardInv ==
    ASSUME LinkInv, SoundWrite, Frame, NEW k \in Requests, NEW r \in RequestStates,
           req' = [req EXCEPT ![k] = r], Onward(k, r)
    PROVE  LinkInv'
<1>1. /\ req \in [Requests -> RequestStates] /\ req'[k] = r
      /\ r.code \in Codes /\ r.since \in Nat
  BY DEF LinkInv, TypeOK, RequestStates
<1>2. LogStep
  BY SoundWriteCounts DEF Frame
<1>3. /\ Len(log[r.code]) \in Nat /\ Len(log'[r.code]) \in Nat
      /\ Len(log[r.code]) >= 1 /\ Len(log'[r.code]) >= Len(log[r.code])
      /\ \A i \in 1 .. Len(log[r.code]) : log'[r.code][i] = log[r.code][i]
  BY <1>1, <1>2, LogGrows DEF LinkInv
<1>4. r.since \in 1 .. Len(log[r.code])
  BY <1>1 DEF LinkInv, RequestOK, Onward
<1>5. RequestOK(k)'
  BY <1>1, <1>3, <1>4 DEF RequestOK, Onward, Frame
<1>6. BeyondCheck(k)' => Authorised(k)'
  <2>1. BeyondCheck(k)' => BeyondCheck(k) \/ Permits(k, Latest(r.code))
    BY <1>1 DEF BeyondCheck, Answered, Onward
  <2>2. BeyondCheck(k) => Authorised(k)
    BY DEF LinkInv
  <2>3. ASSUME NEW i \in r.since .. Len(log[r.code]), Permits(k, log[r.code][i])
        PROVE  Authorised(k)'
    <3>1. i \in 1 .. Len(log[r.code]) /\ i \in r.since .. Len(log'[r.code])
      BY <1>3, <1>4
    <3>2. log'[r.code][i] = log[r.code][i]
      BY <1>3, <3>1
    <3>3. Permits(k, log[r.code][i])'
      BY <1>1, <2>3, <3>2 DEF Permits, Expired, Onward, Frame
    <3>. QED
      BY <1>1, <3>1, <3>2, <3>3 DEF Authorised, Permits, Expired
  <2>4. Authorised(k) => Authorised(k)'
    BY <2>3 DEF Authorised, Onward
  <2>5. Permits(k, Latest(r.code)) => Authorised(k)'
    <3>1. Len(log[r.code]) \in r.since .. Len(log[r.code])
      BY <1>3, <1>4
    <3>. QED
      BY <2>3, <3>1 DEF Latest
  <2>. QED
    BY <2>1, <2>2, <2>4, <2>5
<1>. QED
  BY <1>5, <1>6, StepInv DEF Frame

LEMMA InitInv == Init => LinkInv
<1> SUFFICES ASSUME Init PROVE LinkInv
  OBVIOUS
<1>1. ASSUME NEW c \in Codes
      PROVE  /\ log[c] \in Seq(Values) /\ Len(log[c]) = 1
             /\ Latest(c) \in InitObjects
  <2>1. PICK v \in InitObjects : log[c] = <<v>>
    BY DEF Init
  <2>2. v \in Values
    BY LinksAssumption
  <2>. QED
    BY <2>1, <2>2 DEF Latest
<1>2. Absent \in Values /\ NoOwner \in Callers
  BY DEF Values, Callers
<1>3. NewRequest \in RequestStates
  BY <1>2, SettingsAssumption, LinksAssumption DEF NewRequest, RequestStates, AllOps
<1>4. \A c \in Codes : Latest(c) # Absent => Latest(c).visits \in Nat
  BY <1>1, LinksAssumption DEF Values, Records
<1>5. TypeOK
  <2>1. log \in [Codes -> Seq(Values)] /\ \A c \in Codes : Len(log[c]) >= 1
    <3>1. log \in [Codes -> {<<v>> : v \in InitObjects}]
      BY DEF Init
    <3>2. ASSUME NEW v \in InitObjects PROVE <<v>> \in Seq(Values)
      BY LinksAssumption
    <3>3. {<<v>> : v \in InitObjects} \subseteq Seq(Values)
      BY <3>2
    <3>4. \A c \in Codes : Len(log[c]) >= 1
      BY <1>1
    <3>. QED
      BY <3>1, <3>3, <3>4
  <2>2. ptr \subseteq Users \X Codes /\ now \in 0 .. MaxNow /\ failures \in 0 .. MaxFailures
    BY SettingsAssumption DEF Init
  <2>3. req \in [Requests -> RequestStates]
    BY <1>3 DEF Init
  <2>4. visited \in [Codes -> Nat]
    BY <1>4 DEF Init
  <2>. QED
    BY <2>1, <2>2, <2>3, <2>4 DEF TypeOK
<1>6. \A k \in Requests : req[k].pc = "new"
  BY DEF Init, NewRequest
<1>7. VisitsNeverOvercounted
  BY <1>4 DEF Init, VisitsNeverOvercounted
<1>. QED
  BY <1>5, <1>6, <1>7 DEF LinkInv, RequestOK, BeyondCheck, Answered

LEMMA BeginInv ==
    ASSUME LinkInv, NEW k \in Requests, Begin(k)
    PROVE  LinkInv'
<1>1. PICK op \in Ops, c \in Codes, u \in Callers :
        req' = [req EXCEPT ![k] =
             [@ EXCEPT !.op = op, !.code = c, !.by = u, !.since = Len(log[c]),
                       !.after = {j \in Requests : req[j].pc = "done"},
                       !.left = IF op = "shorten_random" THEN Attempts ELSE 1,
                       !.pc = CASE op \in {"shorten", "shorten_random"} -> "create"
                                [] op = "delete" -> "delete"
                                [] OTHER -> "get"]]
  BY DEF Begin
<1> DEFINE pc == CASE op \in {"shorten", "shorten_random"} -> "create"
                   [] op = "delete" -> "delete"
                   [] OTHER -> "get"
           r == [req[k] EXCEPT !.op = op, !.code = c, !.by = u, !.since = Len(log[c]),
                       !.after = {j \in Requests : req[j].pc = "done"},
                       !.left = IF op = "shorten_random" THEN Attempts ELSE 1,
                       !.pc = pc]
<1>2. /\ req[k] \in RequestStates /\ req \in [Requests -> RequestStates]
      /\ Len(log[c]) \in Nat /\ Len(log[c]) >= 1
  BY DEF LinkInv, TypeOK
<1>3. /\ pc \in {"create", "delete", "get"}
      /\ pc = "create" => op \in Shortening
      /\ pc = "delete" => op = "delete"
      /\ pc = "get" => op \in Managing \cup {"resolve"}
  <2>1. op \in AllOps
    BY SettingsAssumption
  <2>2. CASE op \in {"shorten", "shorten_random"}
    BY <2>2 DEF Shortening
  <2>3. CASE op = "delete"
    BY <2>3
  <2>4. CASE op \notin {"shorten", "shorten_random", "delete"}
    BY <2>1, <2>4 DEF AllOps, Managing
  <2>. QED
    BY <2>2, <2>3, <2>4
<1>4. r \in RequestStates /\ req' = [req EXCEPT ![k] = r]
  <2>1. req' = [req EXCEPT ![k] = r]
    BY <1>1, <1>2
  <2> DEFINE left == IF op = "shorten_random" THEN Attempts ELSE 1
             after == {j \in Requests : req[j].pc = "done"}
  <2>2. op \in AllOps /\ left \in 0 .. Attempts /\ after \in SUBSET Requests
    BY SettingsAssumption
  <2> HIDE DEF pc, left, after
  <2>3. [req[k] EXCEPT !.op = op, !.code = c, !.by = u, !.since = Len(log[c]),
                       !.after = after, !.left = left, !.pc = pc] \in RequestStates
    BY <1>2, <1>3, <2>2 DEF RequestStates
  <2>. QED
    BY <2>1, <2>3 DEF after, left
<1>5. /\ req'[k] = r /\ r.op = op /\ r.code = c /\ r.pc = pc /\ r.since = Len(log[c])
  BY <1>2, <1>4 DEF RequestStates
<1>6. UNCHANGED <<log, ptr, now, visited, failures>>
  BY DEF Begin
<1>7. RequestOK(k)'
  BY <1>2, <1>3, <1>5, <1>6 DEF RequestOK
<1>8. ~BeyondCheck(k)'
  BY <1>3, <1>5 DEF BeyondCheck, Answered, Managing, Shortening
<1>9. SoundWrite /\ Frame
  BY <1>6 DEF SoundWrite, Frame, LinkInv, TypeOK
<1> HIDE DEF r
<1>. QED
  BY <1>4, <1>7, <1>8, <1>9, StepInv DEF Frame

-------------------------------------------------------------------------------
(* The ways a request goes on                                              *)

Answers == {"none", "ok", "found", "not_found", "denied", "conflict", "error"}

LEMMA FinishInv ==
    ASSUME LinkInv, SoundWrite, Frame, NEW k \in Requests, req[k].pc # "new",
           NEW answer \in Answers, Finish(k, answer),
           answer = "ok" /\ req[k].op \in Managing => BeyondCheck(k)
    PROVE  LinkInv'
<1> DEFINE r == [req[k] EXCEPT !.pc = "done", !.answer = answer]
<1>1. req \in [Requests -> RequestStates] /\ req[k] \in RequestStates
  BY DEF LinkInv, TypeOK
<1>2. r \in RequestStates
  BY <1>1 DEF RequestStates, Answers
<1>3. req' = [req EXCEPT ![k] = r]
  BY <1>1 DEF Finish
<1>4. Onward(k, r)
  BY <1>1 DEF Onward, RequestStates
<1> HIDE DEF r
<1>. QED
  BY <1>2, <1>3, <1>4, OnwardInv

LEMMA DeletedInv ==
    ASSUME LinkInv, SoundWrite, Frame, NEW k \in Requests, req[k].pc # "new",
           NEW answer \in Answers, Deleted(k, answer),
           answer = "ok" /\ req[k].op \in Managing => BeyondCheck(k)
    PROVE  LinkInv'
<1>1. CASE req[k].op = "resolve"
  BY <1>1, FinishInv DEF Deleted, Answers
<1>2. CASE req[k].op # "resolve"
  BY <1>2, FinishInv DEF Deleted
<1>. QED
  BY <1>1, <1>2

LEMMA RedirectInv ==
    ASSUME LinkInv, SoundWrite, Frame, NEW k \in Requests, req[k].pc # "new",
           NEW v \in Values, Redirect(k, v)
    PROVE  LinkInv'
<1> DEFINE r == [req[k] EXCEPT !.pc = "done", !.answer = "found", !.saw = v]
<1>1. req \in [Requests -> RequestStates] /\ req[k] \in RequestStates
  BY DEF LinkInv, TypeOK
<1>2. r \in RequestStates
  BY <1>1 DEF RequestStates
<1>3. req' = [req EXCEPT ![k] = r]
  BY <1>1 DEF Redirect
<1>4. Onward(k, r)
  BY <1>1 DEF Onward, RequestStates
<1> HIDE DEF r
<1>. QED
  BY <1>2, <1>3, <1>4, OnwardInv

LEMMA GotoInv ==
    ASSUME LinkInv, SoundWrite, Frame, NEW k \in Requests, req[k].pc # "new",
           NEW pc \in {"point", "put", "delete", "find_owner", "remove", "unpoint"},
           Goto(k, pc),
           pc = "put" => req[k].put # Absent /\ req[k].put.visits <= visited'[req[k].code],
           pc = "point" => req[k].op \in Shortening /\ req[k].by # NoOwner,
           pc = "unpoint" => req[k].put # Absent /\ req[k].put.owner # NoOwner,
           pc # "point" /\ req[k].op \in Managing \cup {"resolve"} =>
             BeyondCheck(k) \/ Permits(k, Latest(req[k].code))
    PROVE  LinkInv'
<1> DEFINE r == [req[k] EXCEPT !.pc = pc]
<1>1. req \in [Requests -> RequestStates] /\ req[k] \in RequestStates
  BY DEF LinkInv, TypeOK
<1>2. r \in RequestStates
  BY <1>1 DEF RequestStates
<1>3. req' = [req EXCEPT ![k] = r]
  BY <1>1 DEF Goto
<1>4. Onward(k, r)
  BY <1>1 DEF Onward, RequestStates, Managing, Shortening
<1> HIDE DEF r
<1>. QED
  BY <1>2, <1>3, <1>4, OnwardInv

\* A step that touches at most req and failures.
LEMMA Quiet ==
    ASSUME LinkInv, UNCHANGED <<log, ptr, now, visited, failures>>
    PROVE  SoundWrite /\ Frame
BY DEF SoundWrite, Frame, LinkInv, TypeOK

LEMMA Written ==
    ASSUME LinkInv, NEW c \in Codes, NEW v \in Values, WriteObject(c, v),
           UNCHANGED <<ptr, now, visited, failures>>,
           v # Absent => v.visits <= visited[c]
    PROVE  SoundWrite /\ Frame
BY DEF SoundWrite, Frame, LinkInv, TypeOK

\* What the state of a request tells in a reachable state.
LEMMA RequestType ==
    ASSUME LinkInv, NEW k \in Requests
    PROVE  /\ req \in [Requests -> RequestStates] /\ req[k] \in RequestStates
           /\ req[k].code \in Codes /\ req[k].put \in Values /\ req[k].saw \in Values
           /\ req[k].by \in Callers /\ req[k].op \in AllOps
           /\ Latest(req[k].code) \in Values
           /\ RequestOK(k) /\ (BeyondCheck(k) => Authorised(k))
BY LatestType DEF LinkInv, TypeOK, RequestStates

-------------------------------------------------------------------------------
(* The service                                                             *)

LEMMA GetToResolveInv ==
    ASSUME LinkInv, NEW k \in Requests, GetToResolve(k)
    PROVE  LinkInv'
<1> DEFINE v == Latest(req[k].code)
<1>1. SoundWrite /\ Frame
  BY Quiet DEF GetToResolve
<1>2. req[k].pc = "get" /\ req[k].op = "resolve" /\ v \in Values
  BY RequestType DEF GetToResolve
<1>3. CASE Finish(k, "not_found")
  BY <1>1, <1>2, <1>3, FinishInv DEF Answers
<1>4. CASE v # Absent /\ Expired(v) /\ Goto(k, "delete")
  BY <1>1, <1>2, <1>4, GotoInv DEF Permits
<1>5. CASE req' = [req EXCEPT ![k].pc = "incr", ![k].saw = v]
  <2> DEFINE r == [req[k] EXCEPT !.pc = "incr", !.saw = v]
  <2>1. r \in RequestStates /\ req' = [req EXCEPT ![k] = r]
    BY <1>2, <1>5, RequestType DEF RequestStates
  <2>2. Onward(k, r)
    BY <1>2, RequestType DEF Onward, RequestStates
  <2> HIDE DEF r
  <2>. QED
    BY <1>1, <2>1, <2>2, OnwardInv
<1>. QED
  BY <1>3, <1>4, <1>5 DEF GetToResolve

\* A patch keeps the visits.
LEMMA PatchedByKeeps ==
    ASSUME NEW r \in Records, now \in Int, NEW op \in Managing, op # "delete_as",
           NEW p \in PatchedBy(op, r)
    PROVE  p \in Records /\ p.visits = r.visits
<1>1. CASE op = "update_as"
  <2>1. Expiries \cup {r.expires} \subseteq Int
    BY DEF Expiries, Never, Records
  <2>2. p \in [owner : {r.owner}, dest : Dests, expires : Expiries \cup {r.expires},
               disabled : {r.disabled}, visits : {r.visits}]
    BY <1>1 DEF PatchedBy
  <2>. QED
    BY <2>1, <2>2 DEF Records
<1>2. CASE op # "update_as"
  <2>1. p = [r EXCEPT !.disabled = (op = "disable_as")]
    BY <1>2 DEF PatchedBy
  <2>. QED
    BY <2>1 DEF Records
<1>. QED
  BY <1>1, <1>2

LEMMA GetToManageInv ==
    ASSUME LinkInv, NEW k \in Requests, GetToManage(k)
    PROVE  LinkInv'
<1> DEFINE v == Latest(req[k].code)
<1>1. SoundWrite /\ Frame
  BY Quiet DEF GetToManage
<1>2. /\ req[k].pc = "get" /\ req[k].op # "resolve" /\ v \in Values
      /\ req[k].op \in Managing
  BY RequestType DEF GetToManage, RequestOK
<1>3. CASE Finish(k, "not_found") \/ Finish(k, "denied")
  BY <1>1, <1>2, <1>3, FinishInv DEF Answers
<1>4. CASE v # Absent /\ MayManage(v, req[k].by) /\ Goto(k, "delete")
  BY <1>1, <1>2, <1>4, GotoInv DEF Permits
<1>5. ASSUME v # Absent, MayManage(v, req[k].by), req[k].op # "delete_as",
             NEW patched \in PatchedBy(req[k].op, v),
             req' = [req EXCEPT ![k].pc = "update", ![k].put = patched]
      PROVE  LinkInv'
  <2> DEFINE r == [req[k] EXCEPT !.pc = "update", !.put = patched]
  <2>1. v \in Records /\ v.visits <= visited[req[k].code]
    BY <1>2, <1>5, RequestType DEF Values, LinkInv, VisitsNeverOvercounted
  <2>2. patched \in Records /\ patched.visits = v.visits
    <3>1. now \in Int
      BY DEF LinkInv, TypeOK
    <3>. QED
      BY <1>2, <1>5, <2>1, <3>1, PatchedByKeeps
  <2>3. patched # Absent /\ patched \in Values
    BY <2>2, LinksAssumption DEF Values
  <2>4. r \in RequestStates /\ req' = [req EXCEPT ![k] = r]
    <3>1. req \in [Requests -> RequestStates] /\ req[k] \in RequestStates
      BY RequestType
    <3>. QED
      BY <1>5, <2>3, <3>1 DEF RequestStates
  <2>5. Onward(k, r)
    BY <1>1, <1>2, <1>5, <2>1, <2>2, <2>3, RequestType
       DEF Onward, RequestStates, GetToManage, Permits
  <2> HIDE DEF r
  <2>. QED
    BY <1>1, <2>4, <2>5, OnwardInv
<1>. QED
  BY <1>3, <1>4, <1>5 DEF GetToManage

\* A new link is a link without visits.
LEMMA NewLinksType ==
    ASSUME now \in Int, NEW u \in Callers, NEW link \in NewLinks(u)
    PROVE  /\ link \in Records /\ link \in Values /\ link # Absent
           /\ link.owner = u /\ link.visits = 0
<1>1. Expiries \subseteq Int
  BY DEF Expiries, Never
<1>2. link \in [owner : {u}, dest : Dests, expires : Expiries, disabled : {FALSE}, visits : {0}]
  BY DEF NewLinks
<1>3. /\ link.owner = u /\ link.visits = 0 /\ link.disabled = FALSE
      /\ link.dest \in Dests /\ link.expires \in Int
      /\ link = [owner |-> link.owner, dest |-> link.dest, expires |-> link.expires,
                 disabled |-> link.disabled, visits |-> link.visits]
  BY <1>1, <1>2
<1>4. [owner |-> u, dest |-> link.dest, expires |-> link.expires,
       disabled |-> FALSE, visits |-> 0] \in Records
  BY <1>3 DEF Records
<1>. QED
  <2>1. link \in Records
    BY <1>3, <1>4
  <2>. QED
    BY <1>3, <2>1, LinksAssumption DEF Values

LEMMA CreateInv ==
    ASSUME LinkInv, NEW k \in Requests, Create(k)
    PROVE  LinkInv'
<1> DEFINE c == req[k].code
<1>1. /\ req[k].pc = "create" /\ req[k].op \in Shortening /\ c \in Codes
      /\ req[k].by \in Callers /\ now \in Int
      /\ UNCHANGED <<ptr, now, visited, failures>>
      /\ \A d \in Codes : visited[d] \in Nat
  <2>1. req[k].pc = "create" /\ UNCHANGED <<ptr, now, visited, failures>>
    BY DEF Create
  <2>2. RequestOK(k) /\ c \in Codes /\ req[k].by \in Callers
    BY RequestType
  <2>3. now \in Int /\ visited \in [Codes -> Nat]
    BY DEF LinkInv, TypeOK
  <2>. QED
    BY <2>1, <2>2, <2>3 DEF RequestOK
<1>2. ASSUME NEW link \in NewLinks(req[k].by), Created(k, link)
      PROVE  LinkInv'
  <2>1. link \in Values /\ link # Absent /\ link.owner = req[k].by /\ link.visits = 0
    BY <1>1, NewLinksType
  <2>2. SoundWrite /\ Frame
    BY <1>1, <1>2, <2>1, Written DEF Created
  <2>3. CASE HasPointer(link) /\ Goto(k, "point")
    BY <1>1, <2>1, <2>2, <2>3, GotoInv DEF HasPointer
  <2>4. CASE Finish(k, "ok")
    BY <1>1, <2>2, <2>4, FinishInv DEF Answers, Shortening, Managing
  <2>. QED
    BY <1>2, <2>3, <2>4 DEF Created
<1>3. ASSUME NEW d \in Codes, req[k].left > 1, UNCHANGED log,
             req' = [req EXCEPT ![k].code = d, ![k].left = @ - 1, ![k].since = Len(log[d])]
      PROVE  LinkInv'
  <2> DEFINE r == [req[k] EXCEPT !.code = d, !.left = req[k].left - 1, !.since = Len(log[d])]
  <2>1. req \in [Requests -> RequestStates] /\ req[k] \in RequestStates
    BY RequestType
  <2>2. Len(log[d]) \in Nat /\ Len(log[d]) >= 1
    BY DEF LinkInv, TypeOK
  <2>3. req[k].left - 1 \in 0 .. Attempts
    BY <1>3, <2>1, SettingsAssumption DEF RequestStates
  <2>4. r \in RequestStates
    BY <2>1, <2>2, <2>3 DEF RequestStates
  <2>5. req' = [req EXCEPT ![k] = r] /\ req'[k] = r
    BY <1>3, <2>1
  <2>6. /\ r.pc = "create" /\ r.op = req[k].op /\ r.code = d
        /\ r.since = Len(log[d])
    BY <1>1, <2>1 DEF RequestStates
  <2>7. SoundWrite /\ Frame
    BY <1>1, <1>3, Quiet
  <2> HIDE DEF r
  <2>8. RequestOK(k)'
    BY <1>1, <1>3, <2>2, <2>5, <2>6 DEF RequestOK
  <2>9. ~BeyondCheck(k)'
    BY <2>5, <2>6 DEF BeyondCheck, Answered
  <2>. QED
    BY <2>4, <2>5, <2>7, <2>8, <2>9, StepInv DEF Frame
<1>4. CASE UNCHANGED log /\ \E answer \in {"conflict", "error"} : Finish(k, answer)
  <2>1. SoundWrite /\ Frame
    BY <1>1, <1>4, Quiet
  <2>. QED
    BY <1>1, <1>4, <2>1, FinishInv DEF Answers
<1>. QED
  BY <1>2, <1>3, <1>4 DEF Create

-------------------------------------------------------------------------------
(* The memory store                                                        *)

LEMMA MemoryDeleteInv ==
    ASSUME LinkInv, NEW k \in Requests, MemoryDelete(k)
    PROVE  LinkInv'
<1>1. /\ req[k].pc = "delete" /\ UNCHANGED <<ptr, now, visited, failures>>
      /\ req[k].code \in Codes /\ Absent \in Values
      /\ req[k].op \in Managing => BeyondCheck(k)
  BY RequestType DEF MemoryDelete, Values, BeyondCheck
<1>2. CASE Deleted(k, "not_found") /\ UNCHANGED log
  BY <1>1, <1>2, Quiet, DeletedInv DEF Answers
<1>3. CASE Deleted(k, "ok") /\ WriteObject(req[k].code, Absent)
  <2>1. SoundWrite /\ Frame
    BY <1>1, <1>3, Written
  <2>. QED
    BY <1>1, <1>3, <2>1, DeletedInv DEF Answers
<1>. QED
  BY <1>2, <1>3 DEF MemoryDelete

LEMMA MemoryUpdateInv ==
    ASSUME LinkInv, NEW k \in Requests, MemoryUpdate(k)
    PROVE  LinkInv'
<1>1. /\ req[k].pc = "update" /\ UNCHANGED <<ptr, now, visited, failures>>
      /\ req[k].code \in Codes /\ req[k].put \in Values
      /\ req[k].put.visits <= visited[req[k].code]
      /\ req[k].op \in Managing => BeyondCheck(k)
  BY RequestType DEF MemoryUpdate, BeyondCheck, RequestOK
<1>2. CASE Finish(k, "not_found") /\ UNCHANGED log
  BY <1>1, <1>2, Quiet, FinishInv DEF Answers
<1>3. CASE Finish(k, "ok") /\ WriteObject(req[k].code, req[k].put)
  <2>1. SoundWrite /\ Frame
    BY <1>1, <1>3, Written
  <2>. QED
    BY <1>1, <1>3, <2>1, FinishInv DEF Answers
<1>. QED
  BY <1>2, <1>3 DEF MemoryUpdate

\* One more visit of a link, counted by visited as well.
LEMMA CountedType ==
    ASSUME LinkInv, NEW c \in Codes, Latest(c) # Absent
    PROVE  LET counted == [Latest(c) EXCEPT !.visits = @ + 1] IN
           /\ counted \in Records /\ counted \in Values /\ counted # Absent
           /\ counted.visits <= visited[c] + 1 /\ visited \in [Codes -> Nat]
<1> DEFINE v == Latest(c)
           counted == [v EXCEPT !.visits = v.visits + 1]
<1>1. v \in Records /\ v.visits <= visited[c] /\ visited \in [Codes -> Nat]
  BY LatestType DEF LinkInv, Values, VisitsNeverOvercounted, TypeOK
<1>2. counted \in Records /\ counted.visits = v.visits + 1
  BY <1>1 DEF Records
<1>. QED
  BY <1>1, <1>2, LinksAssumption DEF Values, Records

LEMMA MemoryIncrVisitInv ==
    ASSUME LinkInv, NEW k \in Requests, MemoryIncrVisit(k)
    PROVE  LinkInv'
<1> DEFINE c == req[k].code
           counted == [Latest(c) EXCEPT !.visits = @ + 1]
<1>1. /\ req[k].pc = "incr" /\ UNCHANGED <<ptr, now, failures>>
      /\ c \in Codes /\ req[k].saw \in Values
  BY RequestType DEF MemoryIncrVisit
<1>2. CASE Redirect(k, req[k].saw) /\ UNCHANGED <<log, visited>>
  BY <1>1, <1>2, Quiet, RedirectInv
<1>3. CASE /\ Latest(c) # Absent /\ WriteObject(c, counted) /\ Redirect(k, counted)
           /\ visited' = [visited EXCEPT ![c] = @ + 1]
  <2>1. /\ counted \in Values /\ counted.visits <= visited[c] + 1
        /\ visited \in [Codes -> Nat]
    BY <1>1, <1>3, CountedType
  <2> HIDE DEF counted
  <2>2. /\ visited' \in [Codes -> Nat] /\ visited'[c] = visited[c] + 1
        /\ \A d \in Codes : visited'[d] >= visited[d]
    BY <1>1, <1>3, <2>1
  <2>3. SoundWrite /\ Frame
    BY <1>1, <1>3, <2>1, <2>2 DEF SoundWrite, Frame, LinkInv, TypeOK
  <2>. QED
    BY <1>1, <1>3, <2>1, <2>3, RedirectInv
<1>. QED
  BY <1>2, <1>3 DEF MemoryIncrVisit

-------------------------------------------------------------------------------
(* The S3 store                                                            *)

LEMMA PointInv ==
    ASSUME LinkInv, NEW k \in Requests, Point(k)
    PROVE  LinkInv'
<1>1. /\ req[k].pc = "point" /\ req[k].op \in Shortening
      /\ req[k].by \in Users /\ req[k].code \in Codes
  BY RequestType DEF Point, RequestOK, Callers
<1>2. SoundWrite /\ Frame
  BY <1>1 DEF Point, SoundWrite, Frame, LinkInv, TypeOK
<1>. QED
  BY <1>1, <1>2, FinishInv DEF Point, Answers, Shortening, Managing

LEMMA HeadObjectInv ==
    ASSUME LinkInv, NEW k \in Requests, HeadObject(k)
    PROVE  LinkInv'
<1>1. /\ req[k].pc \in {"update", "delete"}
      /\ req[k].op \in Managing \cup {"resolve"} => BeyondCheck(k)
      /\ SoundWrite /\ Frame
  BY Quiet DEF HeadObject, BeyondCheck
<1>2. CASE Deleted(k, "not_found")
  BY <1>1, <1>2, DeletedInv DEF Answers
<1>3. CASE req[k].pc = "update" /\ Goto(k, "put")
  <2>1. req[k].put # Absent /\ req[k].put.visits <= visited'[req[k].code]
    BY <1>3, RequestType DEF RequestOK, HeadObject
  <2>. QED
    BY <1>1, <1>3, <2>1, GotoInv
<1>4. CASE Goto(k, "find_owner")
  BY <1>1, <1>4, GotoInv
<1>. QED
  BY <1>1, <1>2, <1>3, <1>4 DEF HeadObject

LEMMA PutUpdateInv ==
    ASSUME LinkInv, NEW k \in Requests, PutUpdate(k)
    PROVE  LinkInv'
<1>1. /\ req[k].pc = "put" /\ req[k].code \in Codes /\ req[k].put \in Values
      /\ req[k].put.visits <= visited[req[k].code]
      /\ req[k].op \in Managing => BeyondCheck(k)
  BY RequestType DEF PutUpdate, BeyondCheck, RequestOK
<1>2. SoundWrite /\ Frame
  BY <1>1, Written DEF PutUpdate
<1>. QED
  BY <1>1, <1>2, FinishInv DEF PutUpdate, Answers

\* FindOwner, and its failure, go on with a value in put.
LEMMA FoundOwnerInv ==
    ASSUME LinkInv, SoundWrite, Frame, NEW k \in Requests, NEW v \in Values,
           req[k].pc = "find_owner",
           req' = [req EXCEPT ![k].pc = "remove", ![k].put = v]
    PROVE  LinkInv'
<1> DEFINE r == [req[k] EXCEPT !.pc = "remove", !.put = v]
<1>1. req \in [Requests -> RequestStates] /\ req[k] \in RequestStates
  BY RequestType
<1>2. r \in RequestStates /\ req' = [req EXCEPT ![k] = r]
  BY <1>1 DEF RequestStates
<1>3. Onward(k, r)
  BY <1>1 DEF Onward, RequestStates, BeyondCheck
<1> HIDE DEF r
<1>. QED
  BY <1>2, <1>3, OnwardInv

LEMMA FindOwnerInv ==
    ASSUME LinkInv, NEW k \in Requests, FindOwner(k)
    PROVE  LinkInv'
BY Quiet, RequestType, FoundOwnerInv DEF FindOwner

LEMMA RemoveInv ==
    ASSUME LinkInv, NEW k \in Requests, Remove(k)
    PROVE  LinkInv'
<1>1. /\ req[k].pc = "remove" /\ req[k].code \in Codes /\ Absent \in Values
      /\ req[k].op \in Managing \cup {"resolve"} => BeyondCheck(k)
  BY RequestType DEF Remove, Values, BeyondCheck
<1>2. SoundWrite /\ Frame
  <2>1. CASE UNCHANGED log
    BY <2>1, Quiet DEF Remove
  <2>2. CASE WriteObject(req[k].code, Absent)
    BY <1>1, <2>2, Written DEF Remove
  <2>. QED
    BY <2>1, <2>2 DEF Remove
<1>3. CASE HasPointer(req[k].put) /\ Goto(k, "unpoint")
  BY <1>1, <1>2, <1>3, GotoInv DEF HasPointer
<1>4. CASE Deleted(k, "ok")
  BY <1>1, <1>2, <1>4, DeletedInv DEF Answers
<1>. QED
  BY <1>3, <1>4 DEF Remove

LEMMA UnpointInv ==
    ASSUME LinkInv, NEW k \in Requests, Unpoint(k)
    PROVE  LinkInv'
<1>1. req[k].pc = "unpoint" /\ (req[k].op \in Managing => BeyondCheck(k))
  BY DEF Unpoint, BeyondCheck
<1>2. SoundWrite /\ Frame
  BY DEF Unpoint, SoundWrite, Frame, LinkInv, TypeOK
<1>. QED
  BY <1>1, <1>2, DeletedInv DEF Unpoint, Answers

LEMMA ReadVisitInv ==
    ASSUME LinkInv, NEW k \in Requests, ReadVisit(k)
    PROVE  LinkInv'
<1> DEFINE c == req[k].code
           counted == [Latest(c) EXCEPT !.visits = @ + 1]
<1>1. /\ req[k].pc = "incr" /\ UNCHANGED <<log, ptr, now, failures>>
      /\ c \in Codes /\ req[k].saw \in Values
      /\ req \in [Requests -> RequestStates] /\ req[k] \in RequestStates
  BY RequestType DEF ReadVisit
<1>2. CASE Redirect(k, req[k].saw) /\ UNCHANGED visited
  BY <1>1, <1>2, Quiet, RedirectInv
<1>3. CASE /\ Latest(c) # Absent
           /\ req' = [req EXCEPT ![k].pc = "incr_put", ![k].put = counted]
           /\ visited' = [visited EXCEPT ![c] = @ + 1]
  <2>1. /\ counted \in Values /\ counted # Absent
        /\ counted.visits <= visited[c] + 1 /\ visited \in [Codes -> Nat]
    BY <1>1, <1>3, CountedType
  <2> HIDE DEF counted
  <2>2. /\ visited' \in [Codes -> Nat] /\ visited'[c] = visited[c] + 1
        /\ \A d \in Codes : visited'[d] >= visited[d]
    BY <1>1, <1>3, <2>1
  <2>3. SoundWrite /\ Frame
    BY <1>1, <2>2 DEF SoundWrite, Frame, LinkInv, TypeOK
  <2> DEFINE r == [req[k] EXCEPT !.pc = "incr_put", !.put = counted]
  <2>4. r \in RequestStates /\ req' = [req EXCEPT ![k] = r]
    BY <1>1, <1>3, <2>1 DEF RequestStates
  <2>5. Onward(k, r)
    BY <1>1, <2>1, <2>2 DEF Onward, RequestStates
  <2> HIDE DEF r
  <2>. QED
    BY <2>3, <2>4, <2>5, OnwardInv
<1>. QED
  BY <1>2, <1>3 DEF ReadVisit

LEMMA PutVisitInv ==
    ASSUME LinkInv, NEW k \in Requests, PutVisit(k)
    PROVE  LinkInv'
<1>1. /\ req[k].pc = "incr_put" /\ req[k].code \in Codes /\ req[k].put \in Values
      /\ req[k].put.visits <= visited[req[k].code]
  BY RequestType DEF PutVisit, RequestOK
<1>2. SoundWrite /\ Frame
  BY <1>1, Written DEF PutVisit
<1>. QED
  BY <1>1, <1>2, RedirectInv DEF PutVisit

\* What a write that is not answered may do.
LEMMA InterruptedInv ==
    ASSUME LinkInv, NEW k \in Requests, Interrupted(k), UNCHANGED <<now, visited>>,
           failures < MaxFailures, failures' = failures + 1
    PROVE  Frame /\ SoundWrite
<1>1. /\ req[k].code \in Codes /\ req[k].put \in Values
      /\ req[k].by \in Callers /\ Absent \in Values
      /\ RequestOK(k)
  BY RequestType DEF Values
<1>2. Frame
  <2>1. failures' \in 0 .. MaxFailures
    BY SettingsAssumption DEF LinkInv, TypeOK
  <2>2. UNCHANGED ptr
    BY DEF Interrupted
  <2>. QED
    BY <2>1, <2>2 DEF Frame, LinkInv, TypeOK
<1>3. SoundWrite
  <2>1. CASE UNCHANGED log
    BY <2>1 DEF SoundWrite
  <2>2. CASE req[k].pc \in {"put", "incr_put"} /\ WriteObject(req[k].code, req[k].put)
    BY <1>1, <2>2 DEF SoundWrite, RequestOK
  <2>3. ASSUME NEW link \in NewLinks(req[k].by), WriteObject(req[k].code, link)
        PROVE  SoundWrite
    <3>1. link \in Values /\ link.visits = 0 /\ now \in Int
      BY <1>1, NewLinksType DEF LinkInv, TypeOK
    <3>2. visited'[req[k].code] >= 0
      BY <1>1, <1>2 DEF Frame
    <3>. QED
      BY <1>1, <2>3, <3>1, <3>2 DEF SoundWrite
  <2>4. CASE WriteObject(req[k].code, Absent)
    BY <1>1, <2>4 DEF SoundWrite
  <2>. QED
    BY <1>1, <2>1, <2>2, <2>3, <2>4 DEF Interrupted
<1>. QED
  BY <1>2, <1>3

LEMMA FailInv ==
    ASSUME LinkInv, NEW k \in Requests, Fail(k)
    PROVE  LinkInv'
<1>1. /\ req[k].pc \notin {"new", "done"}
      /\ req[k].code \in Codes /\ req[k].put \in Values /\ req[k].saw \in Values
      /\ req[k].by \in Callers /\ Absent \in Values
      /\ RequestOK(k)
  BY RequestType DEF Fail, Values
<1>2. Frame
  BY InterruptedInv DEF Fail
<1>3. SoundWrite
  BY InterruptedInv DEF Fail
<1>4. CASE req[k].pc = "find_owner"
  BY <1>1, <1>2, <1>3, <1>4, FoundOwnerInv DEF Fail
<1>5. CASE req[k].pc \in {"point", "unpoint"}
  <2>1. req[k].op \in Managing => BeyondCheck(k)
    BY <1>1, <1>5 DEF RequestOK, BeyondCheck, Shortening, Managing
  <2>. QED
    BY <1>1, <1>2, <1>3, <1>5, <2>1, DeletedInv DEF Fail, Answers
<1>6. CASE req[k].pc \in {"incr", "incr_put"}
  BY <1>1, <1>2, <1>3, <1>6, RedirectInv DEF Fail
<1>7. CASE req[k].pc = "get"
  BY <1>1, <1>2, <1>3, <1>7, FinishInv DEF Fail, Answers
<1>8. CASE req[k].pc \in {"create", "update", "put", "delete", "remove"}
  BY <1>1, <1>2, <1>3, <1>8, DeletedInv DEF Fail, Answers
<1>. QED
  BY <1>4, <1>5, <1>6, <1>7, <1>8 DEF Fail

LEMMA ResendInv ==
    ASSUME LinkInv, NEW k \in Requests, Resend(k)
    PROVE  LinkInv'
<1>1. /\ req \in [Requests -> RequestStates] /\ req[k] \in RequestStates /\ RequestOK(k)
      /\ UNCHANGED <<req, visited>> /\ req' = [req EXCEPT ![k] = req[k]]
  BY RequestType DEF Resend
<1>2. Frame /\ SoundWrite
  BY InterruptedInv DEF Resend
<1>3. req[k].pc \in {"put", "incr_put", "create", "remove"}
  BY DEF Resend, Interrupted
<1>4. Onward(k, req[k])
  BY <1>1, <1>3 DEF Onward, RequestOK, BeyondCheck, Answered
<1>. QED
  BY <1>1, <1>2, <1>4, OnwardInv

-------------------------------------------------------------------------------
(* Theorems                                                                *)

LEMMA TickInv ==
    ASSUME LinkInv, Tick
    PROVE  LinkInv'
<1>1. /\ UNCHANGED <<log, ptr, req, visited, failures>> /\ now' \in 0 .. MaxNow
      /\ now \in Int /\ now' = now + 1
  BY SettingsAssumption DEF Tick, LinkInv, TypeOK
<1>2. TypeOK' /\ VisitsNeverOvercounted'
  BY <1>1 DEF LinkInv, TypeOK, VisitsNeverOvercounted, Latest
<1>3. ASSUME NEW k \in Requests, BeyondCheck(k), Authorised(k) PROVE Authorised(k)'
  <2>1. /\ log \in [Codes -> Seq(Values)] /\ req[k].code \in Codes
        /\ BeyondCheck(k) => req[k].since \in 1 .. Len(log[req[k].code])
    BY RequestType DEF LinkInv, TypeOK, RequestOK, BeyondCheck, Answered
  <2>2. ASSUME NEW v \in Values, Permits(k, v) PROVE Permits(k, v)'
    <3>1. CASE req[k].op = "resolve"
      <4>1. v \in Records
        BY <2>2 DEF Permits, Values
      <4>2. v.expires \in Int
        BY <4>1 DEF Records
      <4>. QED
        BY <1>1, <2>2, <3>1, <4>2 DEF Permits, Expired
    <3>2. CASE req[k].op # "resolve"
      BY <1>1, <2>2, <3>2 DEF Permits
    <3>. QED
      BY <3>1, <3>2
  <2>3. PICK i \in req[k].since .. Len(log[req[k].code]) : Permits(k, log[req[k].code][i])
    BY <1>3 DEF Authorised
  <2>4. log[req[k].code][i] \in Values
    BY <1>3, <2>1, <2>3
  <2>5. Permits(k, log[req[k].code][i])'
    BY <1>1, <2>2, <2>3, <2>4 DEF Permits, Expired
  <2>. QED
    BY <1>1, <2>3, <2>5 DEF Authorised
<1>. QED
  BY <1>1, <1>2, <1>3 DEF LinkInv, RequestOK, BeyondCheck, Answered

LEMMA NextInv == LinkInv /\ [Next]_vars => LinkInv'
<1> SUFFICES ASSUME LinkInv, [Next]_vars PROVE LinkInv'
  OBVIOUS
<1>1. CASE Tick
  BY <1>1, TickInv
<1>2. ASSUME NEW k \in Requests, RequestStep(k)
      PROVE  LinkInv'
  BY <1>2, BeginInv, GetToResolveInv, GetToManageInv, CreateInv, MemoryDeleteInv,
     MemoryUpdateInv, MemoryIncrVisitInv, PointInv, HeadObjectInv, PutUpdateInv,
     FindOwnerInv, RemoveInv, UnpointInv, ReadVisitInv, PutVisitInv, FailInv, ResendInv
     DEF RequestStep
<1>3. CASE UNCHANGED vars
  <2>1. TypeOK' /\ VisitsNeverOvercounted'
    BY <1>3 DEF vars, LinkInv, TypeOK, VisitsNeverOvercounted, Latest
  <2>. QED
    BY <1>3, <2>1 DEF vars, LinkInv, RequestOK, BeyondCheck, Authorised,
                    Permits, Expired, Answered
<1>. QED
  BY <1>1, <1>2, <1>3 DEF Next

\* The inductive invariant: what a request carries from one store access to the
\* next is explained by the history of its link.
THEOREM LinkInvariant == Spec => []LinkInv
BY InitInv, NextInv, PTL DEF Spec

\* The variables keep their types, whatever the requests.
THEOREM TypeCorrect == Spec => []TypeOK
<1>1. LinkInv => TypeOK
  BY DEF LinkInv
<1>. QED
  BY <1>1, LinkInvariant, PTL

\* Concurrent resolutions, and edits written from stale reads, may lose visits
\* of a link but never invent one.
THEOREM NeverOvercounted == Spec => []VisitsNeverOvercounted
<1>1. LinkInv => VisitsNeverOvercounted
  BY DEF LinkInv
<1>. QED
  BY <1>1, LinkInvariant, PTL

\* An edit or deletion is acknowledged only to a caller who could manage the
\* link at some moment of the request.
THEOREM Authorisation == Spec => []EditsWereAuthorised
<1>1. LinkInv => EditsWereAuthorised
  BY DEF LinkInv, EditsWereAuthorised, BeyondCheck
<1>. QED
  BY <1>1, LinkInvariant, PTL

\* DeleteAs and the clean-up of Resolve remove an object only after its check has
\* been passed during the request.
THEOREM RemovalsJustified == Spec => RemovalsWereJustified
<1>1. LinkInv /\ [Next]_vars =>
        [\A k \in Requests :
           req[k].op \in {"delete_as", "resolve"} /\ RemovedBy(k) => Authorised(k)]_vars
  BY DEF LinkInv, RemovedBy, BeyondCheck, Managing
<1>. QED
  BY <1>1, LinkInvariant, PTL DEF Spec, RemovalsWereJustified

-------------------------------------------------------------------------------
(* What the steps of a request change                                      *)

\* The other requests stay as they are, and k stays the request that it is.
Keeps(k) ==
    /\ \A j \in Requests \ {k} : req'[j] = req[j]
    /\ req'[k].op = req[k].op /\ req'[k].code = req[k].code
    /\ req'[k].by = req[k].by /\ req'[k].after = req[k].after
    /\ req'[k].since = req[k].since /\ req'[k].left = req[k].left

LEMMA GotoFields ==
    ASSUME LinkInv, NEW k \in Requests, NEW pc, Goto(k, pc)
    PROVE  /\ Keeps(k) /\ req'[k].pc = pc
           /\ req'[k].answer = req[k].answer /\ req'[k].put = req[k].put
<1>1. req \in [Requests -> RequestStates] /\ req[k] \in RequestStates
  BY RequestType
<1>2. req' = [req EXCEPT ![k] = [req[k] EXCEPT !.pc = pc]]
  BY <1>1 DEF Goto
<1>. QED
  BY <1>1, <1>2 DEF Keeps, RequestStates

LEMMA FinishFields ==
    ASSUME LinkInv, NEW k \in Requests, NEW a, Finish(k, a)
    PROVE  /\ Keeps(k) /\ req'[k].pc = "done"
           /\ req'[k].answer = a /\ req'[k].put = req[k].put
<1>1. req \in [Requests -> RequestStates] /\ req[k] \in RequestStates
  BY RequestType
<1>2. req' = [req EXCEPT ![k] = [req[k] EXCEPT !.pc = "done", !.answer = a]]
  BY <1>1 DEF Finish
<1>. QED
  BY <1>1, <1>2 DEF Keeps, RequestStates

LEMMA DeletedFields ==
    ASSUME LinkInv, NEW k \in Requests, NEW a, Deleted(k, a)
    PROVE  /\ Keeps(k) /\ req'[k].pc = "done"
           /\ req'[k].answer = (IF req[k].op = "resolve" THEN "not_found" ELSE a)
           /\ req'[k].put = req[k].put
BY FinishFields DEF Deleted

LEMMA RedirectFields ==
    ASSUME LinkInv, NEW k \in Requests, NEW v, Redirect(k, v)
    PROVE  /\ Keeps(k) /\ req'[k].pc = "done"
           /\ req'[k].answer = "found" /\ req'[k].put = req[k].put /\ req'[k].saw = v
<1>1. req \in [Requests -> RequestStates] /\ req[k] \in RequestStates
  BY RequestType
<1>2. req' = [req EXCEPT ![k] = [req[k] EXCEPT !.pc = "done", !.answer = "found", !.saw = v]]
  BY <1>1 DEF Redirect
<1>. QED
  BY <1>1, <1>2 DEF Keeps, RequestStates

\* The request goes on with a value to write, or to look for its owner in.
LEMMA CarriesFields ==
    ASSUME LinkInv, NEW k \in Requests, NEW pc, NEW v,
           req' = [req EXCEPT ![k].pc = pc, ![k].put = v]
    PROVE  /\ Keeps(k) /\ req'[k].pc = pc
           /\ req'[k].answer = req[k].answer /\ req'[k].put = v
<1>1. req \in [Requests -> RequestStates] /\ req[k] \in RequestStates
  BY RequestType
<1>2. req' = [req EXCEPT ![k] = [req[k] EXCEPT !.pc = pc, !.put = v]]
  BY <1>1
<1>. QED
  BY <1>1, <1>2 DEF Keeps, RequestStates

LEMMA CarriesSaw ==
    ASSUME LinkInv, NEW k \in Requests, NEW pc, NEW v,
           req' = [req EXCEPT ![k].pc = pc, ![k].put = v]
    PROVE  req'[k].pc = pc /\ req'[k].saw = req[k].saw
<1>1. req \in [Requests -> RequestStates] /\ req[k] \in RequestStates
  BY RequestType
<1>2. req' = [req EXCEPT ![k] = [req[k] EXCEPT !.pc = pc, !.put = v]]
  BY <1>1
<1>. QED
  BY <1>1, <1>2 DEF RequestStates

LEMMA FoundFields ==
    ASSUME LinkInv, NEW k \in Requests, NEW v,
           req' = [req EXCEPT ![k].pc = "incr", ![k].saw = v]
    PROVE  /\ Keeps(k) /\ req'[k].pc = "incr"
           /\ req'[k].answer = req[k].answer /\ req'[k].put = req[k].put /\ req'[k].saw = v
<1>1. req \in [Requests -> RequestStates] /\ req[k] \in RequestStates
  BY RequestType
<1>2. req' = [req EXCEPT ![k] = [req[k] EXCEPT !.pc = "incr", !.saw = v]]
  BY <1>1
<1>. QED
  BY <1>1, <1>2 DEF Keeps, RequestStates

LEMMA RedrawFields ==
    ASSUME LinkInv, NEW k \in Requests, NEW d,
           req' = [req EXCEPT ![k].code = d, ![k].left = @ - 1, ![k].since = Len(log[d])]
    PROVE  /\ \A j \in Requests \ {k} : req'[j] = req[j]
           /\ req'[k].op = req[k].op /\ req'[k].code = d /\ req'[k].pc = req[k].pc
           /\ req'[k].after = req[k].after /\ req'[k].answer = req[k].answer
           /\ req'[k].put = req[k].put /\ req'[k].by = req[k].by
           /\ req'[k].since = Len(log[d])
<1>1. req \in [Requests -> RequestStates] /\ req[k] \in RequestStates
  BY RequestType
<1>2. req' = [req EXCEPT ![k] = [req[k] EXCEPT !.code = d, !.left = req[k].left - 1,
                                                !.since = Len(log[d])]]
  BY <1>1
<1>. QED
  BY <1>1, <1>2 DEF RequestStates

LEMMA BeginFields ==
    ASSUME LinkInv, NEW k \in Requests, Begin(k)
    PROVE  /\ \A j \in Requests \ {k} : req'[j] = req[j]
           /\ req'[k].op \in AllOps
           /\ req'[k].after = {j \in Requests : req[j].pc = "done"}
           /\ req'[k].answer = req[k].answer /\ req'[k].since = Len(log[req'[k].code])
           /\ req'[k].op # "shorten_random" => req'[k].left = 1
           /\ req'[k].pc = CASE req'[k].op \in Shortening -> "create"
                             [] req'[k].op = "delete" -> "delete"
                             [] OTHER -> "get"
<1>1. PICK op \in Ops, c \in Codes, u \in Callers :
        req' = [req EXCEPT ![k] =
             [@ EXCEPT !.op = op, !.code = c, !.by = u, !.since = Len(log[c]),
                       !.after = {j \in Requests : req[j].pc = "done"},
                       !.left = IF op = "shorten_random" THEN Attempts ELSE 1,
                       !.pc = CASE op \in {"shorten", "shorten_random"} -> "create"
                                [] op = "delete" -> "delete"
                                [] OTHER -> "get"]]
  BY DEF Begin
<1> DEFINE pc == CASE op \in {"shorten", "shorten_random"} -> "create"
                   [] op = "delete" -> "delete"
                   [] OTHER -> "get"
           left == IF op = "shorten_random" THEN Attempts ELSE 1
           after == {j \in Requests : req[j].pc = "done"}
           r == [req[k] EXCEPT !.op = op, !.code = c, !.by = u, !.since = Len(log[c]),
                               !.after = after, !.left = left, !.pc = pc]
<1>2. req \in [Requests -> RequestStates] /\ req[k] \in RequestStates
  BY RequestType
<1>3. req' = [req EXCEPT ![k] = r]
  BY <1>1, <1>2
<1>4. op \in AllOps
  BY SettingsAssumption
<1> HIDE DEF pc, left, after
<1>5. req'[k].op = op /\ req'[k].after = after /\ req'[k].answer = req[k].answer
      /\ req'[k].since = Len(log[req'[k].code]) /\ req'[k].left = left
      /\ req'[k].pc = pc /\ \A j \in Requests \ {k} : req'[j] = req[j]
  BY <1>2, <1>3 DEF RequestStates
<1>. QED
  BY <1>4, <1>5 DEF pc, left, after, Shortening

-------------------------------------------------------------------------------
(* What a request is in the middle of                                      *)

Removers == {"resolve", "delete_as", "delete"}
Editing == {"update_as", "disable_as", "enable_as"}

\* Where a request is tells what it is about, and it remembers requests that ended.
Stage(k) ==
    LET r == req[k] IN
    /\ r.pc = "new" => r.op = "resolve"
    /\ r.pc # "done" => r.answer = "none"
    /\ r.pc \in {"delete", "find_owner", "remove", "unpoint"} => r.op \in Removers
    /\ r.pc \in {"update", "put"} => r.op \in Editing
    /\ r.pc \in {"incr", "incr_put"} => r.op = "resolve"
    /\ r.pc \in {"update", "put"} /\ r.op = "disable_as" => r.put.disabled
    /\ \A j \in r.after : req[j].pc = "done"
    /\ Backend = "memory" =>
         r.pc \in {"new", "get", "create", "update", "delete", "incr", "done"}

Stages == \A k \in Requests : Stage(k)

LEMMA StagesStep ==
    ASSUME LinkInv, Stages, NEW k \in Requests, req[k].pc # "done",
           \A j \in Requests \ {k} : req'[j] = req[j], Stage(k)'
    PROVE  Stages'
<1>1. ASSUME NEW j \in Requests, j # k PROVE Stage(j)'
  <2>1. req'[j] = req[j] /\ Stage(j) /\ req[j].after \subseteq Requests
    BY <1>1, RequestType DEF Stages, RequestStates
  <2>2. \A i \in req[j].after : req'[i].pc = "done"
    BY <2>1 DEF Stage
  <2>. QED
    BY <2>1, <2>2 DEF Stage
<1>. QED
  BY <1>1 DEF Stages

LEMMA KeepsAfter ==
    ASSUME LinkInv, Stages, NEW k \in Requests, Keeps(k), req[k].pc # "done"
    PROVE  \A i \in req'[k].after : req'[i].pc = "done"
<1>1. req[k].after \subseteq Requests /\ Stage(k)
  BY RequestType DEF RequestStates, Stages
<1>. QED
  BY <1>1 DEF Keeps, Stage

\* An edit that disables writes a link that is disabled.
LEMMA DisablingPatch ==
    ASSUME NEW r \in Records, NEW p \in PatchedBy("disable_as", r)
    PROVE  p.disabled
BY DEF PatchedBy, Records

LEMMA BeginStage ==
    ASSUME LinkInv, Stages, NEW k \in Requests, Begin(k)
    PROVE  Stages'
<1>1. req[k].pc = "new" /\ Stage(k)
  BY DEF Begin, Stages
<1>2. /\ \A j \in Requests \ {k} : req'[j] = req[j]
      /\ req'[k].op \in AllOps
      /\ req'[k].after = {j \in Requests : req[j].pc = "done"}
      /\ req'[k].answer = req[k].answer
      /\ req'[k].pc = CASE req'[k].op \in Shortening -> "create"
                        [] req'[k].op = "delete" -> "delete"
                        [] OTHER -> "get"
  BY BeginFields
<1>3. /\ req'[k].pc \in {"create", "delete", "get"}
      /\ req'[k].pc = "delete" => req'[k].op \in Removers
  BY <1>2 DEF Removers, Shortening
<1>4. \A i \in req'[k].after : req'[i].pc = "done"
  BY <1>1, <1>2
<1>5. Stage(k)'
  BY <1>1, <1>2, <1>3, <1>4 DEF Stage
<1>. QED
  BY <1>1, <1>2, <1>5, StagesStep

LEMMA GetStage ==
    ASSUME LinkInv, Stages, NEW k \in Requests, GetToResolve(k) \/ GetToManage(k)
    PROVE  Stages'
<1> DEFINE v == Latest(req[k].code)
<1>1. req[k].pc = "get" /\ Stage(k) /\ RequestOK(k) /\ v \in Values
  BY RequestType DEF GetToResolve, GetToManage, Stages
<1>2. ASSUME NEW a, Finish(k, a) PROVE Stages'
  <2>1. Stage(k)'
    BY <1>1, <1>2, FinishFields, KeepsAfter DEF Stage
  <2>. QED
    BY <1>1, <1>2, <2>1, FinishFields, StagesStep DEF Keeps
<1>3. CASE req[k].op \in Removers /\ Goto(k, "delete")
  <2>1. Stage(k)'
    BY <1>1, <1>3, GotoFields, KeepsAfter DEF Stage, Keeps
  <2>. QED
    BY <1>1, <1>3, <2>1, GotoFields, StagesStep DEF Keeps
<1>4. CASE req[k].op = "resolve" /\ req' = [req EXCEPT ![k].pc = "incr", ![k].saw = v]
  <2>1. Stage(k)'
    BY <1>1, <1>4, FoundFields, KeepsAfter DEF Stage, Keeps
  <2>. QED
    BY <1>1, <1>4, <2>1, FoundFields, StagesStep DEF Keeps
<1>5. ASSUME v # Absent, req[k].op \notin {"resolve", "delete_as"},
             NEW patched \in PatchedBy(req[k].op, v),
             req' = [req EXCEPT ![k].pc = "update", ![k].put = patched]
      PROVE  Stages'
  <2>1. v \in Records
    BY <1>1, <1>5 DEF Values
  <2>2. req[k].op \in Editing
    BY <1>1, <1>5 DEF RequestOK, Managing, Editing
  <2>3. req[k].op = "disable_as" => patched.disabled
    BY <1>5, <2>1, DisablingPatch
  <2>4. /\ Keeps(k) /\ req'[k].pc = "update" /\ req'[k].answer = req[k].answer
        /\ req'[k].put = patched
    BY <1>5, CarriesFields
  <2>5. Stage(k)'
    BY <1>1, <2>2, <2>3, <2>4, KeepsAfter DEF Stage, Keeps
  <2>. QED
    BY <1>1, <2>4, <2>5, StagesStep DEF Keeps
<1>. QED
  BY <1>2, <1>3, <1>4, <1>5 DEF GetToResolve, GetToManage, Removers

LEMMA CreateStage ==
    ASSUME LinkInv, Stages, NEW k \in Requests, Create(k)
    PROVE  Stages'
<1>1. req[k].pc = "create" /\ Stage(k)
  BY DEF Create, Stages
<1>2. ASSUME NEW a, Finish(k, a) PROVE Stages'
  <2>1. Stage(k)'
    BY <1>1, <1>2, FinishFields, KeepsAfter DEF Stage
  <2>. QED
    BY <1>1, <1>2, <2>1, FinishFields, StagesStep DEF Keeps
<1>3. CASE Backend = "s3" /\ Goto(k, "point")
  <2>1. Stage(k)'
    BY <1>1, <1>3, GotoFields, KeepsAfter DEF Stage, Keeps
  <2>. QED
    BY <1>1, <1>3, <2>1, GotoFields, StagesStep DEF Keeps
<1>4. ASSUME NEW d \in Codes,
             req' = [req EXCEPT ![k].code = d, ![k].left = @ - 1, ![k].since = Len(log[d])]
      PROVE  Stages'
  <2>1. /\ \A j \in Requests \ {k} : req'[j] = req[j]
        /\ req'[k].op = req[k].op /\ req'[k].pc = req[k].pc /\ req'[k].after = req[k].after
        /\ req'[k].answer = req[k].answer
    BY <1>4, RedrawFields
  <2>2. \A i \in req'[k].after : req'[i].pc = "done"
    <3>1. req[k].after \subseteq Requests
      BY RequestType DEF RequestStates
    <3>. QED
      BY <1>1, <2>1, <3>1 DEF Stage
  <2>3. Stage(k)'
    BY <1>1, <2>1, <2>2 DEF Stage
  <2>. QED
    BY <1>1, <2>1, <2>3, StagesStep
<1>. QED
  BY <1>2, <1>3, <1>4 DEF Create, Created

\* Requests that end, and those that go on to the next request to S3.
LEMMA StoreStage ==
    ASSUME LinkInv, Stages, NEW k \in Requests,
           \/ MemoryDelete(k) \/ MemoryUpdate(k) \/ MemoryIncrVisit(k)
           \/ Point(k) \/ HeadObject(k) \/ PutUpdate(k) \/ FindOwner(k) \/ Remove(k)
           \/ Unpoint(k) \/ ReadVisit(k) \/ PutVisit(k) \/ Fail(k)
    PROVE  Stages'
<1>1. req[k].pc \notin {"new", "done"} /\ Stage(k)
  BY DEF MemoryDelete, MemoryUpdate, MemoryIncrVisit, Point, HeadObject, PutUpdate, FindOwner,
         Remove, Unpoint, ReadVisit, PutVisit, Fail, Stages
<1>2. ASSUME Keeps(k), req'[k].pc = "done" PROVE Stages'
  <2>1. Stage(k)'
    BY <1>1, <1>2, KeepsAfter DEF Stage
  <2>. QED
    BY <1>1, <1>2, <2>1, StagesStep DEF Keeps
<1>3. ASSUME NEW a, Finish(k, a) \/ Deleted(k, a) PROVE Stages'
  BY <1>2, <1>3, FinishFields, DeletedFields
<1>4. ASSUME NEW v, Redirect(k, v) PROVE Stages'
  BY <1>2, <1>4, RedirectFields
<1>5. ASSUME Backend = "s3", NEW pc, Goto(k, pc),
             \/ pc = "put" /\ req[k].pc = "update"
             \/ pc = "find_owner" /\ req[k].pc = "delete"
             \/ pc = "unpoint" /\ req[k].pc = "remove"
      PROVE  Stages'
  <2>1. Stage(k)'
    BY <1>1, <1>5, GotoFields, KeepsAfter DEF Stage, Keeps
  <2>. QED
    BY <1>1, <1>5, <2>1, GotoFields, StagesStep DEF Keeps
<1>6. ASSUME NEW v, NEW pc, req' = [req EXCEPT ![k].pc = pc, ![k].put = v],
             \/ pc = "remove" /\ req[k].pc = "find_owner"
             \/ pc = "incr_put" /\ req[k].pc = "incr" /\ Backend = "s3"
      PROVE  Stages'
  <2>1. Keeps(k) /\ req'[k].pc = pc /\ req'[k].answer = req[k].answer
    BY <1>6, CarriesFields
  <2>2. \A i \in req'[k].after : req'[i].pc = "done"
    BY <1>1, <2>1, KeepsAfter
  <2>3. req'[k].op = req[k].op
    BY <2>1 DEF Keeps
  <2>4. CASE pc = "remove" /\ req[k].pc = "find_owner"
    <3>1. Backend # "memory" /\ req[k].op \in Removers /\ req[k].answer = "none"
      BY <1>1, <2>4 DEF Stage
    <3>. QED
      BY <1>1, <2>1, <2>2, <2>3, <2>4, <3>1, StagesStep DEF Stage, Keeps
  <2>5. CASE pc = "incr_put" /\ req[k].pc = "incr" /\ Backend = "s3"
    <3>1. req[k].op = "resolve" /\ req[k].answer = "none"
      BY <1>1, <2>5 DEF Stage
    <3>. QED
      BY <1>1, <2>1, <2>2, <2>3, <2>5, <3>1, StagesStep DEF Stage, Keeps
  <2>. QED
    BY <1>6, <2>4, <2>5
<1>7. CASE MemoryDelete(k) \/ MemoryUpdate(k) \/ MemoryIncrVisit(k) \/ Point(k) \/ PutUpdate(k)
           \/ Unpoint(k) \/ PutVisit(k)
  BY <1>3, <1>4, <1>7
     DEF MemoryDelete, MemoryUpdate, MemoryIncrVisit, Point, PutUpdate, Unpoint, PutVisit
<1>8. CASE HeadObject(k)
  BY <1>3, <1>5, <1>8 DEF HeadObject
<1>9. CASE FindOwner(k)
  BY <1>6, <1>9 DEF FindOwner
<1>10. CASE Remove(k)
  <2>1. Backend = "s3"
    BY <1>1, <1>10, SettingsAssumption DEF Stage, Remove
  <2>. QED
    BY <1>3, <1>5, <1>10, <2>1 DEF Remove
<1>11. CASE ReadVisit(k)
  BY <1>4, <1>6, <1>11 DEF ReadVisit
<1>12. CASE Fail(k)
  <2>1. CASE req' = [req EXCEPT ![k].pc = "remove", ![k].put = Absent] /\ req[k].pc = "find_owner"
    BY <1>6, <2>1
  <2>. QED
    BY <1>3, <1>4, <1>12, <2>1 DEF Fail
<1>. QED
  BY <1>7, <1>8, <1>9, <1>10, <1>11, <1>12

LEMMA StagesInv == LinkInv /\ Stages /\ [Next]_vars => Stages'
<1> SUFFICES ASSUME LinkInv, Stages, [Next]_vars PROVE Stages'
  OBVIOUS
<1>1. CASE UNCHANGED req
  BY <1>1 DEF Stages, Stage
<1>2. ASSUME NEW k \in Requests, RequestStep(k) PROVE Stages'
  BY <1>1, <1>2, BeginStage, GetStage, CreateStage, StoreStage DEF RequestStep, Resend
<1>. QED
  BY <1>1, <1>2 DEF Next, Tick, vars

LEMMA StagesInit == Init => Stages
<1> SUFFICES ASSUME Init, NEW k \in Requests PROVE Stage(k)
  BY DEF Stages
<1>. QED
  BY DEF Init, NewRequest, Stage

-------------------------------------------------------------------------------
(* Codes are given out once                                                *)

\* Requests that have created their link, whether or not the client knows.
Creator(k) == req[k].op \in Shortening /\ (req[k].pc = "point" \/ Answered(k, "ok"))

Removed(c) == \E k \in Requests : MayHaveRemoved(k) /\ req[k].code = c

\* As long as no link of the code was removed: a creator found none, is the only one,
\* and its link is there.
Unique(c) ==
    \/ Removed(c)
    \/ /\ Latest(c) = Absent => log[c][1] = Absent
       /\ \A j \in Requests : Creator(j) /\ req[j].code = c =>
            /\ log[c][1] = Absent /\ Latest(c) # Absent
            /\ \A k \in Requests \ {j} : Creator(k) => req[k].code # c

UniqueInv == \A c \in Codes : Unique(c)

\* Failures are not forgotten.
Remembered == failures > 0 => failures' > 0

\* The step of k leaves removals alone.
RemovalsStay(k) ==
    /\ Remembered
    /\ \A j \in Requests \ {k} : req'[j] = req[j]
    /\ MayHaveRemoved(k) => MayHaveRemoved(k)' /\ req'[k].code = req[k].code

LEMMA RemovedStays ==
    ASSUME NEW k \in Requests, RemovalsStay(k), NEW c \in Codes, Removed(c)
    PROVE  Removed(c)'
BY DEF RemovalsStay, Removed, MayHaveRemoved, Remembered

LEMMA FirstStays ==
    ASSUME LinkInv, LogStep
    PROVE  \A c \in Codes : log'[c][1] = log[c][1]
<1>1. \A c \in Codes :
        /\ Len(log[c]) \in Nat /\ Len(log[c]) >= 1
        /\ \A i \in 1 .. Len(log[c]) : log'[c][i] = log[c][i]
  BY LogGrows DEF LinkInv
<1>. QED
  BY <1>1

\* No write, and no creation.
LEMMA UniqueQuiet ==
    ASSUME UniqueInv, NEW k \in Requests, RemovalsStay(k), UNCHANGED log,
           Creator(k)' => Creator(k) /\ req'[k].code = req[k].code
    PROVE  UniqueInv'
<1>1. \A c \in Codes : Latest(c)' = Latest(c)
  BY DEF Latest
<1>2. \A j \in Requests : Creator(j)' => Creator(j) /\ req'[j].code = req[j].code
  BY DEF RemovalsStay, Creator, Answered
<1>3. \A c \in Codes : Removed(c) => Removed(c)'
  BY RemovedStays
<1>. QED
  BY <1>1, <1>2, <1>3 DEF UniqueInv, Unique

\* A link is written over another, or where there was none.
LEMMA UniqueWrite ==
    ASSUME LinkInv, UniqueInv, NEW k \in Requests, RemovalsStay(k),
           NEW v \in Values, v # Absent, WriteObject(req[k].code, v),
           req'[k].code = req[k].code,
           Creator(k)' => Latest(req[k].code) = Absent
    PROVE  UniqueInv'
<1> DEFINE c == req[k].code
<1>0. c \in Codes
  BY RequestType
<1>1. Latest(c)' = v /\ \A d \in Codes \ {c} : Latest(d)' = Latest(d)
  BY <1>0, LatestWritten DEF LinkInv
<1>2. \A d \in Codes : log'[d][1] = log[d][1]
  BY <1>0, FirstStays DEF LogStep
<1>3. /\ \A j \in Requests \ {k} : (Creator(j)' <=> Creator(j)) /\ req'[j].code = req[j].code
      /\ req'[k].code = c
  BY DEF RemovalsStay, Creator, Answered
<1>4. \A d \in Codes : Removed(d) => Removed(d)'
  BY RemovedStays
<1>5. ASSUME NEW d \in Codes, d # c PROVE Unique(d)'
  BY <1>1, <1>2, <1>3, <1>4, <1>5 DEF UniqueInv, Unique
<1>6. Unique(c)'
  <2>1. CASE Removed(c)
    BY <1>0, <1>4, <2>1 DEF Unique
  <2>2. CASE ~Removed(c) /\ Latest(c) = Absent
    <3>1. log[c][1] = Absent /\ \A j \in Requests : Creator(j) => req[j].code # c
      BY <1>0, <2>2 DEF UniqueInv, Unique
    <3>. QED
      BY <1>0, <1>1, <1>2, <1>3, <3>1 DEF Unique
  <2>3. CASE ~Removed(c) /\ Latest(c) # Absent
    BY <1>0, <1>1, <1>2, <1>3, <2>3 DEF UniqueInv, Unique
  <2>. QED
    BY <2>1, <2>2, <2>3
<1>. QED
  BY <1>5, <1>6 DEF UniqueInv

\* A link goes, and its remover is known from then on.
LEMMA UniqueRemove ==
    ASSUME LinkInv, UniqueInv, NEW k \in Requests, RemovalsStay(k),
           WriteObject(req[k].code, Absent),
           req'[k].code = req[k].code, MayHaveRemoved(k)'
    PROVE  UniqueInv'
<1> DEFINE c == req[k].code
<1>0. c \in Codes /\ Absent \in Values
  BY RequestType DEF Values
<1>1. \A d \in Codes \ {c} : Latest(d)' = Latest(d)
  BY <1>0, LatestWritten DEF LinkInv
<1>2. \A d \in Codes : log'[d][1] = log[d][1]
  BY <1>0, FirstStays DEF LogStep
<1>3. \A j \in Requests \ {k} : (Creator(j)' <=> Creator(j)) /\ req'[j].code = req[j].code
  BY DEF RemovalsStay, Creator, Answered
<1>4. \A d \in Codes : Removed(d) => Removed(d)'
  BY RemovedStays
<1>5. ASSUME NEW d \in Codes, d # c PROVE Unique(d)'
  BY <1>1, <1>2, <1>3, <1>4, <1>5 DEF UniqueInv, Unique
<1>6. Removed(c)'
  BY DEF Removed
<1>. QED
  BY <1>5, <1>6 DEF UniqueInv, Unique

LEMMA CreateUnique ==
    ASSUME LinkInv, UniqueInv, Remembered, NEW k \in Requests, Create(k)
    PROVE  UniqueInv'
<1>1. req[k].pc = "create" /\ req[k].op \in Shortening /\ now \in Int /\ req[k].by \in Callers
  <2>1. req[k].pc = "create"
    BY DEF Create
  <2>2. RequestOK(k) /\ req[k].by \in Callers
    BY RequestType
  <2>3. now \in Int
    BY DEF LinkInv, TypeOK
  <2>. QED
    BY <2>1, <2>2, <2>3 DEF RequestOK
<1>2. ~MayHaveRemoved(k) /\ ~Creator(k)
  BY <1>1 DEF MayHaveRemoved, Creator, Answered
<1>3. ASSUME NEW link \in NewLinks(req[k].by), Created(k, link), Latest(req[k].code) = Absent
      PROVE  UniqueInv'
  <2>1. link \in Values /\ link # Absent /\ WriteObject(req[k].code, link)
    BY <1>1, <1>3, NewLinksType DEF Created
  <2>2. Keeps(k)
    BY <1>3, GotoFields, FinishFields DEF Created
  <2>. QED
    BY <1>2, <1>3, <2>1, <2>2, UniqueWrite DEF Keeps, RemovalsStay
<1>4. ASSUME NEW d \in Codes, UNCHANGED log,
             req' = [req EXCEPT ![k].code = d, ![k].left = @ - 1, ![k].since = Len(log[d])]
      PROVE  UniqueInv'
  <2>1. req'[k].pc = "create" /\ \A j \in Requests \ {k} : req'[j] = req[j]
    BY <1>1, <1>4, RedrawFields
  <2>. QED
    BY <1>2, <1>4, <2>1, UniqueQuiet DEF RemovalsStay, Creator, Answered
<1>5. CASE UNCHANGED log /\ Finish(k, IF req[k].op = "shorten" THEN "conflict" ELSE "error")
  <2>1. Keeps(k) /\ req'[k].pc = "done" /\ req'[k].answer # "ok"
    BY <1>5, FinishFields
  <2>. QED
    BY <1>2, <1>5, <2>1, UniqueQuiet DEF RemovalsStay, Creator, Answered, Keeps
<1>6. CASE Latest(req[k].code) = Absent
  BY <1>3, <1>6 DEF Create
<1>7. CASE Latest(req[k].code) # Absent /\ req[k].left > 1
  BY <1>4, <1>5, <1>7 DEF Create
<1>8. CASE Latest(req[k].code) # Absent /\ ~(req[k].left > 1)
  BY <1>5, <1>8 DEF Create
<1>. QED
  BY <1>6, <1>7, <1>8

\* What becomes of a request that creates nothing.
LEMMA OtherUnique ==
    ASSUME LinkInv, Stages, UniqueInv, Remembered, NEW k \in Requests, Keeps(k),
           req[k].pc \notin {"new", "done", "create"}, req'[k].pc # "point",
           req[k].pc \in {"remove", "unpoint"} => req'[k].pc \in {"unpoint", "done"},
           req[k].pc # "point" /\ req[k].op \in Shortening => req'[k].answer # "ok",
           \/ UNCHANGED log
           \/ \E v \in Values : v # Absent /\ WriteObject(req[k].code, v) /\ req[k].pc # "point"
           \/ /\ WriteObject(req[k].code, Absent)
              /\ req[k].pc \in {"delete", "remove"} /\ req'[k].pc \in {"unpoint", "done"}
    PROVE  UniqueInv'
<1>1. Stage(k) /\ RequestOK(k)
  BY RequestType DEF Stages
<1>2. RemovalsStay(k) /\ req'[k].code = req[k].code /\ req'[k].op = req[k].op
  BY DEF RemovalsStay, Keeps, MayHaveRemoved
<1>3. Creator(k)' => Creator(k) /\ req[k].pc = "point"
  BY <1>2 DEF Creator, Answered, RequestOK
<1>4. CASE UNCHANGED log
  BY <1>2, <1>3, <1>4, UniqueQuiet
<1>5. ASSUME NEW v \in Values, v # Absent, WriteObject(req[k].code, v), req[k].pc # "point"
      PROVE  UniqueInv'
  BY <1>2, <1>3, <1>5, UniqueWrite
<1>6. CASE /\ WriteObject(req[k].code, Absent)
           /\ req[k].pc \in {"delete", "remove"} /\ req'[k].pc \in {"unpoint", "done"}
  BY <1>1, <1>2, <1>6, UniqueRemove DEF MayHaveRemoved, Stage, Removers
<1>. QED
  BY <1>4, <1>5, <1>6

LEMMA GetUnique ==
    ASSUME LinkInv, Stages, UniqueInv, Remembered, NEW k \in Requests,
           GetToResolve(k) \/ GetToManage(k)
    PROVE  UniqueInv'
<1>1. req[k].pc = "get" /\ UNCHANGED log /\ req[k].op \notin Shortening
  BY RequestType DEF GetToResolve, GetToManage, RequestOK, Managing, Shortening
<1>2. Keeps(k) /\ req'[k].pc # "point"
  BY FinishFields, GotoFields, FoundFields, CarriesFields DEF GetToResolve, GetToManage
<1>. QED
  BY <1>1, <1>2, OtherUnique

\* Requests over the stores do not shorten, but for those at "point".
LEMMA StoreOps ==
    ASSUME LinkInv, Stages, NEW k \in Requests,
           req[k].pc \in {"delete", "find_owner", "remove", "unpoint", "update", "put", "incr",
                         "incr_put"}
    PROVE  req[k].op \notin Shortening
BY DEF Stages, Stage, Shortening, Removers, Editing

LEMMA MemoryUnique ==
    ASSUME LinkInv, Stages, UniqueInv, Remembered, NEW k \in Requests,
           MemoryDelete(k) \/ MemoryUpdate(k) \/ MemoryIncrVisit(k)
    PROVE  UniqueInv'
<1>1. /\ req[k].code \in Codes /\ req[k].put \in Values /\ RequestOK(k)
      /\ req[k].pc \in {"delete", "update", "incr"}
  BY RequestType DEF MemoryDelete, MemoryUpdate, MemoryIncrVisit
<1>2. req[k].op \notin Shortening
  BY <1>1, StoreOps
<1>3. Keeps(k) /\ req'[k].pc = "done"
  BY DeletedFields, FinishFields, RedirectFields DEF MemoryDelete, MemoryUpdate, MemoryIncrVisit
<1>4. CASE MemoryDelete(k)
  BY <1>1, <1>2, <1>3, <1>4, OtherUnique DEF MemoryDelete
<1>5. CASE MemoryUpdate(k)
  BY <1>1, <1>2, <1>3, <1>5, OtherUnique DEF MemoryUpdate, RequestOK
<1>6. CASE MemoryIncrVisit(k)
  BY <1>1, <1>2, <1>3, <1>6, CountedType, OtherUnique DEF MemoryIncrVisit
<1>. QED
  BY <1>4, <1>5, <1>6

LEMMA S3Unique ==
    ASSUME LinkInv, Stages, UniqueInv, Remembered, NEW k \in Requests,
           \/ Point(k) \/ HeadObject(k) \/ PutUpdate(k) \/ FindOwner(k) \/ Remove(k)
           \/ Unpoint(k) \/ ReadVisit(k) \/ PutVisit(k)
    PROVE  UniqueInv'
<1>1. /\ req[k].code \in Codes /\ req[k].put \in Values /\ RequestOK(k)
      /\ req[k].pc \in {"point", "delete", "update", "put", "find_owner", "remove", "unpoint",
                        "incr", "incr_put"}
  BY RequestType DEF Point, HeadObject, PutUpdate, FindOwner, Remove, Unpoint, ReadVisit, PutVisit
<1>2. req[k].pc # "point" => req[k].op \notin Shortening
  BY <1>1, StoreOps
<1>3. Keeps(k) /\ req'[k].pc # "point"
  BY DeletedFields, FinishFields, RedirectFields, GotoFields, CarriesFields
     DEF Point, HeadObject, PutUpdate, FindOwner, Remove, Unpoint, ReadVisit, PutVisit
<1>4. CASE Point(k)
  BY <1>1, <1>2, <1>3, <1>4, FinishFields, OtherUnique DEF Point
<1>5. CASE HeadObject(k) \/ FindOwner(k) \/ ReadVisit(k)
  BY <1>1, <1>2, <1>3, <1>5, OtherUnique DEF HeadObject, FindOwner, ReadVisit
<1>6. CASE PutUpdate(k) \/ PutVisit(k)
  BY <1>1, <1>2, <1>3, <1>6, OtherUnique DEF PutUpdate, PutVisit, RequestOK
<1>7. CASE Remove(k)
  <2>1. req'[k].pc \in {"unpoint", "done"}
    BY <1>7, GotoFields, DeletedFields DEF Remove
  <2>. QED
    BY <1>1, <1>2, <1>3, <1>7, <2>1, OtherUnique DEF Remove
<1>8. CASE Unpoint(k)
  BY <1>1, <1>2, <1>3, <1>8, DeletedFields, OtherUnique DEF Unpoint
<1>. QED
  BY <1>4, <1>5, <1>6, <1>7, <1>8

LEMMA FailUnique ==
    ASSUME LinkInv, Stages, UniqueInv, Remembered, NEW k \in Requests, Fail(k)
    PROVE  UniqueInv'
<1>1. /\ req[k].pc \notin {"new", "done"} /\ Interrupted(k) /\ now \in Int
      /\ req[k].code \in Codes /\ req[k].put \in Values /\ req[k].by \in Callers
      /\ Absent \in Values /\ RequestOK(k) /\ req[k] \in RequestStates
  BY RequestType DEF Fail, Values, LinkInv, TypeOK
<1>2. Keeps(k) /\ req'[k].pc \in {"remove", "done"}
  BY DeletedFields, FinishFields, RedirectFields, CarriesFields DEF Fail
<1>3. CASE req[k].pc = "create"
  <2>1. req[k].op \in Shortening /\ req'[k].pc = "done" /\ req'[k].answer = "error"
    BY <1>1, <1>3, DeletedFields DEF Fail, RequestOK, Shortening
  <2>2. ~MayHaveRemoved(k) /\ ~Creator(k) /\ ~Creator(k)'
    BY <1>3, <2>1 DEF MayHaveRemoved, Creator, Answered
  <2>3. CASE UNCHANGED log
    BY <1>2, <2>2, <2>3, UniqueQuiet DEF RemovalsStay, Keeps
  <2>4. ASSUME NEW link \in NewLinks(req[k].by), WriteObject(req[k].code, link)
        PROVE  UniqueInv'
    <3>1. link \in Values /\ link # Absent
      BY <1>1, <2>4, NewLinksType
    <3>. QED
      BY <1>2, <2>2, <2>4, <3>1, UniqueWrite DEF RemovalsStay, Keeps
  <2>. QED
    BY <1>1, <1>3, <2>3, <2>4 DEF Interrupted
<1>4. CASE req[k].pc \in {"get", "point"}
  <2>1. UNCHANGED log /\ req'[k].pc = "done"
    BY <1>1, <1>4, FinishFields, DeletedFields DEF Interrupted, Fail
  <2>2. req[k].pc = "get" => req'[k].answer # "ok"
    BY <1>4, FinishFields DEF Fail
  <2>. QED
    BY <1>1, <1>2, <1>4, <2>1, <2>2, OtherUnique
<1>5. CASE req[k].pc \notin {"create", "get", "point"}
  <2>1. req[k].op \notin Shortening /\ (req[k].pc # "find_owner" => req'[k].pc = "done")
    <3>1. req[k].pc \in {"delete", "find_owner", "remove", "unpoint", "update", "put", "incr",
                         "incr_put"}
      BY <1>1, <1>5 DEF RequestStates
    <3>2. req[k].pc # "find_owner" => req'[k].pc = "done"
      BY <1>5, DeletedFields, FinishFields, RedirectFields DEF Fail
    <3>. QED
      BY <3>1, <3>2, StoreOps
  <2>2. CASE UNCHANGED log
    BY <1>1, <1>2, <1>5, <2>1, <2>2, OtherUnique
  <2>3. CASE req[k].pc \in {"put", "incr_put"} /\ WriteObject(req[k].code, req[k].put)
    BY <1>1, <1>2, <1>5, <2>1, <2>3, OtherUnique DEF RequestOK
  <2>4. CASE req[k].pc = "remove" /\ WriteObject(req[k].code, Absent)
    BY <1>1, <1>2, <1>5, <2>1, <2>4, OtherUnique
  <2>. QED
    BY <1>1, <1>5, <2>2, <2>3, <2>4 DEF Interrupted
<1>. QED
  BY <1>3, <1>4, <1>5

LEMMA ResendUnique ==
    ASSUME LinkInv, Stages, UniqueInv, Remembered, NEW k \in Requests, Resend(k)
    PROVE  UniqueInv'
<1>1. /\ UNCHANGED req /\ Interrupted(k) /\ log' # log /\ now \in Int /\ failures' > 0
      /\ req[k].put \in Values /\ req[k].by \in Callers /\ RequestOK(k) /\ Stage(k)
  BY RequestType DEF Resend, Stages, LinkInv, TypeOK
<1>2. RemovalsStay(k) /\ req'[k].code = req[k].code
  BY <1>1 DEF RemovalsStay, MayHaveRemoved, Remembered
<1>3. req[k].pc # "point" /\ req[k].pc # "done" => ~Creator(k)'
  BY <1>1 DEF Creator, Answered
<1>4. CASE req[k].pc \in {"put", "incr_put"} /\ WriteObject(req[k].code, req[k].put)
  BY <1>1, <1>2, <1>3, <1>4, UniqueWrite DEF RequestOK
<1>5. ASSUME req[k].pc = "create", NEW link \in NewLinks(req[k].by),
             WriteObject(req[k].code, link)
      PROVE  UniqueInv'
  <2>1. link \in Values /\ link # Absent
    BY <1>1, <1>5, NewLinksType
  <2>. QED
    BY <1>2, <1>3, <1>5, <2>1, UniqueWrite
<1>6. CASE req[k].pc = "remove" /\ WriteObject(req[k].code, Absent)
  <2>1. MayHaveRemoved(k)'
    BY <1>1, <1>6 DEF MayHaveRemoved, Stage, Removers
  <2>. QED
    BY <1>2, <1>6, <2>1, UniqueRemove
<1>. QED
  BY <1>1, <1>4, <1>5, <1>6 DEF Interrupted

LEMMA UniqueStep == LinkInv /\ Stages /\ UniqueInv /\ [Next]_vars => UniqueInv'
<1> SUFFICES ASSUME LinkInv, Stages, UniqueInv, [Next]_vars PROVE UniqueInv'
  OBVIOUS
<1>0. Remembered
  <2>1. failures \in Nat
    BY DEF LinkInv, TypeOK
  <2>2. failures' = failures \/ failures' = failures + 1
    BY DEF Next, Tick, vars, RequestStep, Begin, GetToResolve, GetToManage, Create,
           MemoryDelete, MemoryUpdate, MemoryIncrVisit, Point, HeadObject, PutUpdate,
           FindOwner, Remove, Unpoint, ReadVisit, PutVisit, Fail, Resend
  <2>. QED
    BY <2>1, <2>2 DEF Remembered
<1>1. CASE UNCHANGED <<log, req, failures>>
  BY <1>1 DEF UniqueInv, Unique, Removed, MayHaveRemoved, Creator, Answered, Latest
<1>2. ASSUME NEW k \in Requests, Begin(k) PROVE UniqueInv'
  <2>1. /\ req[k].pc = "new" /\ UNCHANGED log /\ \A j \in Requests \ {k} : req'[j] = req[j]
        /\ req'[k].pc \in {"create", "delete", "get"}
    BY <1>2, BeginFields DEF Begin
  <2>. QED
    BY <1>0, <2>1, UniqueQuiet DEF RemovalsStay, MayHaveRemoved, Creator, Answered
<1>3. ASSUME NEW k \in Requests, RequestStep(k), ~Begin(k) PROVE UniqueInv'
  BY <1>0, <1>3, GetUnique, CreateUnique, MemoryUnique, S3Unique, FailUnique, ResendUnique
     DEF RequestStep
<1>. QED
  BY <1>1, <1>2, <1>3 DEF Next, Tick, vars

LEMMA UniqueInit == Init => UniqueInv
<1> SUFFICES ASSUME Init, NEW c \in Codes PROVE Unique(c)
  BY DEF UniqueInv
<1>1. PICK v \in InitObjects : log[c] = <<v>>
  BY DEF Init
<1>2. \A k \in Requests : ~Creator(k)
  BY DEF Init, NewRequest, Creator, Answered
<1>. QED
  BY <1>1, <1>2 DEF Unique, Latest

\* A code is given out once, by either store and whatever fails, unless its link was
\* removed in between.
THEOREM CodesGivenOutOnce == Spec => []CodesAreUnique
<1>1. UniqueInv /\ LinkInv => CodesAreUnique
  <2> SUFFICES ASSUME UniqueInv, LinkInv, NEW j \in Requests,
                      req[j].op \in Shortening, Answered(j, "ok"), ~Removed(req[j].code)
               PROVE  /\ log[req[j].code][1] = Absent
                      /\ \A k \in Requests \ {j} : Creator(k) => req[k].code # req[j].code
    BY DEF CodesAreUnique, Removed, Creator
  <2>. QED
    BY RequestType DEF UniqueInv, Unique, Creator
<1>. QED
  BY <1>1, LinkInvariant, InitInv, StagesInit, StagesInv, UniqueInit, UniqueStep, PTL DEF Spec

-------------------------------------------------------------------------------
(* What is acknowledged over the memory store                              *)

\* Since j nothing was acknowledged, or is under way, that may enable its link.
Undisturbed(j) ==
    \A e \in Requests : req[e].code = req[j].code =>
        /\ req[e].op # "enable_as"
        /\ req[e].op \in Shortening => req[e].pc # "done"
        /\ req[e].op = "update_as" => j \in req[e].after

\* What j disabled is disabled or gone, in the store and in what requests carry.
StaysDisabled(j) ==
    req[j].op = "disable_as" /\ Answered(j, "ok") /\ Undisturbed(j) =>
        /\ Latest(req[j].code) # Absent => Latest(req[j].code).disabled
        /\ \A k \in Requests : req[k].code = req[j].code =>
             /\ req[k].pc = "update" => req[k].put.disabled
             /\ req[k].op = "resolve" /\ j \in req[k].after =>
                  req[k].pc # "incr" /\ ~Answered(k, "found")

\* What k deleted is gone, or was created again.
StaysGone(k) ==
    req[k].op \in {"delete_as", "delete"} /\ Answered(k, "ok") =>
        \/ Latest(req[k].code) = Absent
        \/ \E j \in Requests : /\ req[j].op \in Shortening /\ req[j].pc = "done"
                               /\ req[j].code = req[k].code

AcknowledgedInv == \A k \in Requests : StaysDisabled(k) /\ StaysGone(k)

\* The step of k before which it had neither ended nor begun to do anything else.
Moves(k) ==
    /\ req[k].pc # "done"
    /\ \A j \in Requests \ {k} : req'[j] = req[j]
    /\ \/ req[k].op = "resolve"
       \/ req'[k].op = req[k].op /\ req'[k].after = req[k].after
          /\ (req'[k].code = req[k].code \/ req[k].op \in Shortening)

LEMMA UndisturbedBefore ==
    ASSUME NEW k \in Requests, Moves(k), NEW j \in Requests \ {k}, Undisturbed(j)'
    PROVE  Undisturbed(j)
BY DEF Moves, Undisturbed, Shortening

\* Nobody remembers a request that has not ended.
LEMMA NotRemembered ==
    ASSUME Stages, NEW k \in Requests, req[k].pc # "done"
    PROVE  \A e \in Requests : k \notin req[e].after
BY DEF Stages, Stage

\* The request moves on and leaves the store alone.
LEMMA QuietAcknowledged ==
    ASSUME AcknowledgedInv, NEW k \in Requests, Moves(k), UNCHANGED log,
           req'[k].op \in Editing \cup {"delete_as", "delete"} => ~Answered(k, "ok")',
           ~Answered(k, "found")',
           \A j \in Requests \ {k} :
              req[j].op = "disable_as" /\ Answered(j, "ok") /\ Undisturbed(j)
                /\ req'[k].code = req[j].code /\ Undisturbed(j)' =>
                   /\ req'[k].pc = "update" => req'[k].put.disabled
                   /\ req'[k].pc # "incr"
    PROVE  AcknowledgedInv'
<1>1. \A c \in Codes : Latest(c)' = Latest(c)
  BY DEF Latest
<1>2. ASSUME NEW j \in Requests, j # k PROVE StaysDisabled(j)'
  <2>1. req'[j] = req[j] /\ StaysDisabled(j)
    BY <1>2 DEF Moves, AcknowledgedInv
  <2>2. Undisturbed(j)' => Undisturbed(j)
    BY <1>2, UndisturbedBefore
  <2>3. \A e \in Requests \ {k} : req'[e] = req[e]
    BY DEF Moves
  <2>. QED
    BY <1>2, <2>1, <2>2, <2>3 DEF StaysDisabled, Answered, Latest
<1>3. StaysDisabled(k)'
  BY DEF StaysDisabled, Editing
<1>4. ASSUME NEW j \in Requests PROVE StaysGone(j)'
  BY <1>4 DEF StaysGone, AcknowledgedInv, Moves, Answered, Latest
<1>. QED
  BY <1>2, <1>3, <1>4 DEF AcknowledgedInv

LEMMA GetAcknowledged ==
    ASSUME LinkInv, Stages, AcknowledgedInv, NEW k \in Requests,
           GetToResolve(k) \/ GetToManage(k)
    PROVE  AcknowledgedInv'
<1> DEFINE v == Latest(req[k].code)
<1>1. req[k].pc = "get" /\ UNCHANGED log /\ v \in Values /\ RequestOK(k)
  BY RequestType DEF GetToResolve, GetToManage
<1>2. ASSUME NEW a \in {"not_found", "denied"}, Finish(k, a) PROVE AcknowledgedInv'
  BY <1>1, <1>2, FinishFields, QuietAcknowledged DEF Moves, Keeps, Answered
<1>3. CASE Goto(k, "delete")
  BY <1>1, <1>3, GotoFields, QuietAcknowledged DEF Moves, Keeps, Answered
<1>4. CASE /\ v # Absent /\ ~v.disabled
           /\ req' = [req EXCEPT ![k].pc = "incr", ![k].saw = v]
  <2>1. Keeps(k) /\ req'[k].pc = "incr"
    BY <1>4, FoundFields
  <2>2. \A j \in Requests \ {k} :
          req[j].op = "disable_as" /\ Answered(j, "ok") /\ Undisturbed(j)
            => req[k].code # req[j].code
    BY <1>4 DEF AcknowledgedInv, StaysDisabled
  <2>. QED
    BY <1>1, <2>1, <2>2, QuietAcknowledged DEF Moves, Keeps, Answered
<1>5. ASSUME v # Absent, req[k].op \notin {"resolve", "delete_as"},
             NEW patched \in PatchedBy(req[k].op, v),
             req' = [req EXCEPT ![k].pc = "update", ![k].put = patched]
      PROVE  AcknowledgedInv'
  <2>1. Keeps(k) /\ req'[k].pc = "update" /\ req'[k].put = patched
    BY <1>5, CarriesFields
  <2>2. v \in Records /\ req[k].op \in Editing
    BY <1>1, <1>5 DEF Values, RequestOK, Managing, Editing
  <2>3. req[k].op = "disable_as" => patched.disabled
    BY <1>5, <2>2, DisablingPatch
  <2>4. req[k].op = "update_as" => patched.disabled = v.disabled
    BY <1>5 DEF PatchedBy
  <2>5. ASSUME NEW j \in Requests \ {k}, req[j].op = "disable_as", Answered(j, "ok"),
               Undisturbed(j), req[k].code = req[j].code
        PROVE  patched.disabled
    BY <1>5, <2>2, <2>3, <2>4, <2>5 DEF AcknowledgedInv, StaysDisabled, Undisturbed, Editing
  <2>. QED
    BY <1>1, <2>1, <2>5, QuietAcknowledged DEF Moves, Keeps, Answered
<1>. QED
  BY <1>2, <1>3, <1>4, <1>5 DEF GetToResolve, GetToManage

\* A write that disturbs nothing: what was disabled or gone is so afterwards, or
\* somebody created the link again.
LEMMA WriteAcknowledged ==
    ASSUME LinkInv, Stages, AcknowledgedInv, NEW k \in Requests, Moves(k), Keeps(k),
           req'[k].pc = "done", NEW v \in Values, WriteObject(req[k].code, v),
           req[k].op \in {"delete_as", "delete"} => v = Absent,
           v # Absent => Latest(req[k].code) # Absent \/ req[k].op \in Shortening,
           \A j \in Requests : req'[j].op = "disable_as" /\ Answered(j, "ok")' /\ Undisturbed(j)' =>
              /\ req[k].code = req'[j].code =>
                   /\ v # Absent => v.disabled
                   /\ ~(j \in req[k].after /\ req'[k].answer = "found")
              /\ j = k => \A e \in Requests \ {k} :
                   req[e].code = req[k].code /\ req[e].pc = "update" => req[e].put.disabled
    PROVE  AcknowledgedInv'
<1> DEFINE c == req[k].code
<1>0. c \in Codes /\ (\A j \in Requests : req[j].code \in Codes) /\ req'[k].code = c
  BY RequestType DEF Keeps
<1>1. Latest(c)' = v /\ \A d \in Codes \ {c} : Latest(d)' = Latest(d)
  BY <1>0, LatestWritten DEF LinkInv
<1>2. ASSUME NEW j \in Requests, j # k PROVE StaysDisabled(j)'
  <2>1. req'[j] = req[j] /\ StaysDisabled(j)
    BY <1>2 DEF Keeps, AcknowledgedInv
  <2>2. Undisturbed(j)' => Undisturbed(j)
    BY <1>2, UndisturbedBefore
  <2>3. \A e \in Requests \ {k} : req'[e] = req[e]
    BY DEF Keeps
  <2>4. req'[j].op = "disable_as" /\ Answered(j, "ok")' /\ Undisturbed(j)' =>
          (Latest(req[j].code)' # Absent => Latest(req[j].code)'.disabled)
    <3>1. CASE req[j].code = c
      BY <1>0, <1>1, <2>1, <3>1
    <3>2. CASE req[j].code # c
      <4>1. Latest(req[j].code)' = Latest(req[j].code)
        BY <1>0, <1>1, <2>1, <3>2
      <4>. QED
        BY <2>1, <2>2, <4>1 DEF StaysDisabled, Answered
    <3>. QED
      BY <3>1, <3>2
  <2>5. ASSUME NEW e \in Requests, req'[j].op = "disable_as", Answered(j, "ok")', Undisturbed(j)',
               req'[e].code = req'[j].code
        PROVE  /\ req'[e].pc = "update" => req'[e].put.disabled
               /\ req'[e].op = "resolve" /\ j \in req'[e].after =>
                    req'[e].pc # "incr" /\ ~Answered(e, "found")'
    <3>1. CASE e = k
      BY <2>1, <2>2, <2>5, <3>1 DEF Answered, Keeps
    <3>2. CASE e # k
      BY <2>1, <2>2, <2>3, <2>5, <3>2 DEF StaysDisabled, Answered
    <3>. QED
      BY <3>1, <3>2
  <2>. QED
    BY <2>1, <2>4, <2>5 DEF StaysDisabled
<1>3. StaysDisabled(k)'
  <2>1. \A e \in Requests : k \notin req[e].after
    BY NotRemembered DEF Moves
  <2>. QED
    BY <1>1, <2>1 DEF StaysDisabled, Keeps, Answered
<1>4. ASSUME NEW j \in Requests PROVE StaysGone(j)'
  <2>1. CASE j = k
    BY <1>1, <2>1 DEF StaysGone, Keeps
  <2>2. CASE j # k
    BY <1>0, <1>1, <2>2 DEF StaysGone, AcknowledgedInv, Keeps, Answered
  <2>. QED
    BY <2>1, <2>2
<1>. QED
  BY <1>2, <1>3, <1>4 DEF AcknowledgedInv

LEMMA CreateAcknowledged ==
    ASSUME Backend = "memory", LinkInv, Stages, AcknowledgedInv, NEW k \in Requests, Create(k)
    PROVE  AcknowledgedInv'
<1> DEFINE c == req[k].code
<1>1. req[k].pc = "create" /\ req[k].op \in Shortening /\ now \in Int /\ req[k].by \in Callers
  <2>1. req[k].pc = "create"
    BY DEF Create
  <2>2. RequestOK(k) /\ req[k].by \in Callers
    BY RequestType
  <2>3. now \in Int
    BY DEF LinkInv, TypeOK
  <2>. QED
    BY <2>1, <2>2, <2>3 DEF RequestOK
<1>2. ASSUME NEW link \in NewLinks(req[k].by), WriteObject(c, link), Finish(k, "ok")
      PROVE  AcknowledgedInv'
  <2>1. link \in Values
    BY <1>1, <1>2, NewLinksType
  <2>2. Keeps(k) /\ req'[k].pc = "done" /\ req'[k].answer = "ok"
    BY <1>2, FinishFields
  <2>3. Moves(k)
    BY <1>1, <2>2 DEF Moves, Keeps
  <2>4. \A j \in Requests : req'[j].op = "disable_as" /\ Undisturbed(j)' =>
          req[k].code # req'[j].code
    BY <1>1, <2>2 DEF Undisturbed, Keeps
  <2>5. req'[k].op # "disable_as" /\ req[k].op \notin {"delete_as", "delete"}
    BY <1>1, <2>2 DEF Keeps, Shortening
  <2>. QED
    BY <1>1, <1>2, <2>1, <2>2, <2>3, <2>4, <2>5, WriteAcknowledged
<1>3. ASSUME NEW d \in Codes, UNCHANGED log,
             req' = [req EXCEPT ![k].code = d, ![k].left = @ - 1, ![k].since = Len(log[d])]
      PROVE  AcknowledgedInv'
  <2>1. /\ \A j \in Requests \ {k} : req'[j] = req[j]
        /\ req'[k].op = req[k].op /\ req'[k].pc = "create" /\ req'[k].after = req[k].after
    BY <1>1, <1>3, RedrawFields
  <2>. QED
    BY <1>1, <1>3, <2>1, QuietAcknowledged DEF Moves, Answered
<1>4. ASSUME UNCHANGED log, NEW a, Finish(k, a), a \notin {"ok", "found"}
      PROVE  AcknowledgedInv'
  BY <1>1, <1>4, FinishFields, QuietAcknowledged DEF Moves, Keeps, Answered
<1>6. CASE Latest(c) = Absent
  <2>1. PICK link \in NewLinks(req[k].by) : Created(k, link)
    BY <1>6 DEF Create
  <2>2. WriteObject(c, link) /\ Finish(k, "ok")
    BY <2>1 DEF Created
  <2>. QED
    BY <1>2, <2>2
<1>7. CASE UNCHANGED log /\ Finish(k, IF req[k].op = "shorten" THEN "conflict" ELSE "error")
  <2>1. req[k].op = "shorten" \/ req[k].op # "shorten"
    OBVIOUS
  <2>. QED
    BY <1>4, <1>7, <2>1
<1>. QED
  BY <1>3, <1>6, <1>7, Zenon DEF Create

LEMMA MemoryAcknowledged ==
    ASSUME LinkInv, Stages, AcknowledgedInv, NEW k \in Requests,
           MemoryDelete(k) \/ MemoryUpdate(k) \/ MemoryIncrVisit(k)
    PROVE  AcknowledgedInv'
<1> DEFINE c == req[k].code
<1>1. /\ c \in Codes /\ req[k].put \in Values /\ RequestOK(k) /\ Stage(k)
      /\ Absent \in Values /\ Latest(c) \in Values
      /\ req[k].pc \in {"delete", "update", "incr"}
  BY RequestType DEF MemoryDelete, MemoryUpdate, MemoryIncrVisit, Stages, Values
<1>2. Keeps(k) /\ req'[k].pc = "done"
  BY DeletedFields, FinishFields, RedirectFields DEF MemoryDelete, MemoryUpdate, MemoryIncrVisit
<1>3. Moves(k)
  BY <1>1, <1>2 DEF Moves, Keeps
<1>4. CASE MemoryDelete(k)
  <2>1. req[k].op \in Removers
    BY <1>4 DEF MemoryDelete, Stages, Stage
  <2>2. CASE Latest(c) = Absent
    <3>1. req'[k].answer = "not_found" /\ UNCHANGED log
      BY <1>4, <2>2, DeletedFields DEF MemoryDelete
    <3>. QED
      BY <1>2, <1>3, <3>1, QuietAcknowledged DEF Answered
  <2>3. CASE Latest(c) # Absent
    <3>1. WriteObject(c, Absent) /\ req'[k].answer \in {"ok", "not_found"}
      BY <1>4, <2>3, DeletedFields DEF MemoryDelete
    <3>2. req'[k].op # "disable_as"
      BY <1>2, <2>1 DEF Keeps, Removers
    <3>. QED
      BY <1>1, <1>2, <1>3, <3>1, <3>2, WriteAcknowledged
  <2>. QED
    BY <2>2, <2>3
<1>5. CASE MemoryUpdate(k)
  <2>1. req[k].op \in Editing /\ req[k].pc = "update"
    BY <1>5 DEF MemoryUpdate, Stages, Stage
  <2>2. CASE Latest(c) = Absent
    <3>1. req'[k].answer = "not_found" /\ UNCHANGED log
      BY <1>5, <2>2, FinishFields DEF MemoryUpdate
    <3>. QED
      BY <1>2, <1>3, <3>1, QuietAcknowledged DEF Answered
  <2>3. CASE Latest(c) # Absent
    <3>1. WriteObject(c, req[k].put) /\ req'[k].answer = "ok"
      BY <1>5, <2>3, FinishFields DEF MemoryUpdate
    <3>2. ASSUME NEW j \in Requests, req'[j].op = "disable_as", Answered(j, "ok")',
                 Undisturbed(j)'
          PROVE  /\ c = req'[j].code => req[k].put.disabled
                 /\ j = k => \A e \in Requests \ {k} :
                      req[e].code = c /\ req[e].pc = "update" => req[e].put.disabled
      <4>1. CASE j # k
        <5>1. req'[j] = req[j] /\ Undisturbed(j)
          BY <1>2, <1>3, <4>1, <3>2, UndisturbedBefore DEF Keeps
        <5>. QED
          BY <2>1, <3>2, <4>1, <5>1 DEF AcknowledgedInv, StaysDisabled, Answered
      <4>2. CASE j = k
        <5>1. req[k].put.disabled
          BY <1>1, <1>2, <2>1, <3>2, <4>2 DEF Stage, Keeps
        <5>2. ASSUME NEW e \in Requests \ {k}, req[e].code = c, req[e].pc = "update"
              PROVE  req[e].put.disabled
          <6>1. req'[e] = req[e] /\ req'[k].code = c
            BY <1>2 DEF Keeps
          <6>2. k \notin req[e].after
            BY <2>1, NotRemembered
          <6>3. req[e].op = "disable_as"
            BY <3>2, <4>2, <5>2, <6>1, <6>2 DEF Undisturbed, Stages, Stage, Editing
          <6>. QED
            BY <5>2, <6>3 DEF Stages, Stage
        <5>. QED
          BY <4>2, <5>1, <5>2
      <4>. QED
        BY <4>1, <4>2
    <3>. QED
      BY <1>1, <1>2, <1>3, <2>1, <2>3, <3>1, <3>2, WriteAcknowledged DEF Editing
  <2>. QED
    BY <2>2, <2>3
<1>6. CASE MemoryIncrVisit(k)
  <2> DEFINE counted == [Latest(c) EXCEPT !.visits = @ + 1]
  <2>1. req[k].op = "resolve" /\ req[k].pc = "incr" /\ req'[k].answer = "found"
    BY <1>6, RedirectFields DEF MemoryIncrVisit, Stages, Stage
  <2>2. ASSUME NEW j \in Requests, req'[j].op = "disable_as", Answered(j, "ok")',
               Undisturbed(j)', c = req'[j].code
        PROVE  /\ Latest(c) # Absent => Latest(c).disabled
               /\ j \notin req[k].after
    <3>1. j # k
      BY <1>2, <2>1, <2>2 DEF Keeps
    <3>2. req'[j] = req[j] /\ Undisturbed(j)
      BY <1>2, <1>3, <2>2, <3>1, UndisturbedBefore DEF Keeps
    <3>. QED
      BY <2>1, <2>2, <3>1, <3>2 DEF AcknowledgedInv, StaysDisabled, Answered
  <2>3. CASE UNCHANGED log
    <3>1. StaysDisabled(k)' /\ \A j \in Requests : StaysGone(j)'
      BY <1>2, <1>3, <2>1, <2>3 DEF StaysDisabled, StaysGone, AcknowledgedInv, Keeps, Answered,
                                   Latest
    <3>2. ASSUME NEW j \in Requests, j # k PROVE StaysDisabled(j)'
      <4>1. req'[j] = req[j] /\ (Undisturbed(j)' => Undisturbed(j))
        BY <1>2, <1>3, <3>2, UndisturbedBefore DEF Keeps
      <4>2. \A e \in Requests \ {k} : req'[e] = req[e]
        BY <1>2 DEF Keeps
      <4>3. StaysDisabled(j)
        BY DEF AcknowledgedInv
      <4>4. Latest(req[j].code)' = Latest(req[j].code)
        BY <2>3, <4>1 DEF Latest
      <4>. QED
        BY <1>2, <2>2, <4>1, <4>2, <4>3, <4>4 DEF StaysDisabled, Answered, Keeps
    <3>. QED
      BY <3>1, <3>2 DEF AcknowledgedInv
  <2>4. CASE Latest(c) # Absent /\ WriteObject(c, counted)
    <3>1. counted \in Values /\ counted # Absent /\ counted.disabled = Latest(c).disabled
      <4>1. Latest(c) \in Records
        BY <1>1, <2>4 DEF Values
      <4>. QED
        BY <1>1, <2>4, <4>1, CountedType DEF Records
    <3>2. req'[k].op # "disable_as"
      BY <1>2, <2>1 DEF Keeps
    <3> HIDE DEF counted
    <3>. QED
      BY <1>1, <1>2, <1>3, <2>1, <2>2, <2>4, <3>1, <3>2, WriteAcknowledged
  <2>. QED
    BY <1>6, <2>3, <2>4 DEF MemoryIncrVisit
<1>. QED
  BY <1>4, <1>5, <1>6

LEMMA AcknowledgedStep ==
    ASSUME Backend = "memory", LinkInv, Stages, AcknowledgedInv, [Next]_vars
    PROVE  AcknowledgedInv'
<1>1. CASE UNCHANGED <<log, req>>
  BY <1>1 DEF AcknowledgedInv, StaysDisabled, StaysGone, Undisturbed, Answered, Latest
<1>2. ASSUME NEW k \in Requests, Begin(k) PROVE AcknowledgedInv'
  <2>1. /\ req[k].pc = "new" /\ UNCHANGED log /\ \A j \in Requests \ {k} : req'[j] = req[j]
        /\ req'[k].pc \in {"create", "delete", "get"}
    BY <1>2, BeginFields DEF Begin
  <2>2. req[k].op = "resolve"
    BY <2>1 DEF Stages, Stage
  <2>. QED
    BY <2>1, <2>2, QuietAcknowledged DEF Moves, Answered
<1>3. ASSUME NEW k \in Requests, RequestStep(k), ~Begin(k) PROVE AcknowledgedInv'
  <2>1. req[k].pc \in {"new", "get", "create", "update", "delete", "incr", "done"}
    BY DEF Stages, Stage
  <2>2. ~(\/ Point(k) \/ HeadObject(k) \/ PutUpdate(k) \/ FindOwner(k) \/ Remove(k)
          \/ Unpoint(k) \/ ReadVisit(k) \/ PutVisit(k) \/ Fail(k) \/ Resend(k))
    BY <2>1 DEF Point, HeadObject, PutUpdate, FindOwner, Remove, Unpoint, ReadVisit, PutVisit,
                Fail, Resend
  <2>. QED
    BY <1>3, <2>2, GetAcknowledged, CreateAcknowledged, MemoryAcknowledged DEF RequestStep
<1>. QED
  BY <1>1, <1>2, <1>3 DEF Next, Tick, vars

LEMMA AcknowledgedInit == Init => AcknowledgedInv
BY DEF Init, NewRequest, AcknowledgedInv, StaysDisabled, StaysGone, Answered

\* What the memory store acknowledges, it keeps to.
LEMMA AcknowledgedInvariant ==
    ASSUME Backend = "memory"
    PROVE  Spec => [](Stages /\ AcknowledgedInv)
<1>1. LinkInv /\ Stages /\ AcknowledgedInv /\ [Next]_vars => AcknowledgedInv'
  BY AcknowledgedStep
<1>. QED
  BY <1>1, LinkInvariant, InitInv, StagesInit, StagesInv, AcknowledgedInit, PTL DEF Spec

\* docs/api/urls.md:162, "Disabled links resolve as `404`", over the memory store: the
\* disabling of a link that nobody enables or recreates, and that no older edit of the
\* whole record undoes, holds for every later request.
THEOREM MemoryKeepsDisabled ==
    ASSUME Backend = "memory"
    PROVE  Spec => []DisabledLinksResolve404
<1>1. Stages /\ AcknowledgedInv => DisabledLinksResolve404
  <2> SUFFICES ASSUME Stages, AcknowledgedInv, NEW j \in Requests, NEW k \in Requests,
                      req[j].op = "disable_as", Answered(j, "ok"),
                      req[k].op = "resolve", req[k].code = req[j].code, j \in req[k].after,
                      NoneBegan({"enable_as", "shorten", "shorten_random"}, req[j].code),
                      \A e \in Requests : req[e].op = "update_as" /\ req[e].code = req[j].code
                         => j \in req[e].after,
                      Answered(k, "found")
               PROVE  FALSE
    BY DEF DisabledLinksResolve404
  <2>. QED
    BY DEF AcknowledgedInv, StaysDisabled, Undisturbed, NoneBegan, Shortening, Stages, Stage
<1>. QED
  BY <1>1, AcknowledgedInvariant, PTL

\* docs/api/urls.md:232, "Remove a short link", over the memory store: a link whose
\* deletion was acknowledged is gone until somebody creates it again.
THEOREM MemoryKeepsDeleted ==
    ASSUME Backend = "memory"
    PROVE  Spec => []DeletedLinksStayDeleted
<1>1. AcknowledgedInv => DeletedLinksStayDeleted
  BY DEF AcknowledgedInv, StaysGone, DeletedLinksStayDeleted, NoneBegan, Answered
<1>. QED
  BY <1>1, AcknowledgedInvariant, PTL

-------------------------------------------------------------------------------
(* What is answered                                                        *)

\* What the link was since the request began.
Was(k) == {log[req[k].code][i] : i \in req[k].since .. Len(log[req[k].code])}

Held(k) == Was(k) \ {Absent}

\* The answer of k, and what it is about to answer, was right at some moment of k: who
\* is redirected goes where the link led, who created a link found none, what was
\* edited or deleted was there, and is as edited, or gone.
Truthful(k) ==
    LET r == req[k] IN
    /\ r.pc \in {"incr", "incr_put"} \/ Answered(k, "found") =>
         r.op = "resolve" /\ r.saw \in Held(k) /\ \E v \in Held(k) : ~v.disabled
    /\ r.pc \in {"put", "find_owner", "remove", "unpoint"} => Held(k) # {}
    /\ r.pc = "point" \/ (Answered(k, "ok") /\ r.op \in Shortening) =>
         Absent \in Was(k) /\ \E v \in Held(k) : v.owner = r.by
    /\ r.pc = "unpoint" \/ (Answered(k, "ok") /\ r.op \in Removers) => Absent \in Was(k)
    /\ Answered(k, "ok") /\ r.op \in Editing => r.put \in Held(k)
    /\ Answered(k, "ok") => r.op # "resolve" /\ Held(k) # {}
    /\ Answered(k, "denied") => \E v \in Held(k) : ~MayManage(v, r.by)
    /\ Answered(k, "conflict") => Held(k) # {}
    /\ Answered(k, "not_found") =>
         \E v \in Was(k) : v = Absent \/ (r.op = "resolve" /\ (v.disabled \/ Expired(v)))
    /\ Answered(k, "error") => r.op = "shorten_random" \/ (Backend = "s3" /\ failures > 0)
    /\ r.pc = "done" => r.answer # "none"

Truth == \A k \in Requests : Truthful(k)

\* What the link was it has been, whatever is written and however time passes.
LEMMA WasGrows ==
    ASSUME LinkInv, LogStep, now' \in Nat, now' >= now, NEW k \in Requests, req[k].pc # "new",
           req'[k].code = req[k].code, req'[k].since = req[k].since
    PROVE  /\ Was(k) \subseteq Was(k)' /\ Was(k) \subseteq Values
           /\ Latest(req[k].code) \in Was(k) /\ Latest(req[k].code)' \in Was(k)'
           /\ \A v \in Was(k) : v # Absent /\ Expired(v) => Expired(v)'
<1> DEFINE c == req[k].code
<1>1. c \in Codes /\ req[k].since \in 1 .. Len(log[c])
  BY RequestType DEF RequestOK
<1>2. /\ log \in [Codes -> Seq(Values)] /\ Len(log[c]) \in Nat /\ Len(log'[c]) \in Nat
      /\ Len(log'[c]) >= Len(log[c]) /\ \A i \in 1 .. Len(log[c]) : log'[c][i] = log[c][i]
  BY <1>1, LogGrows DEF LinkInv, TypeOK
<1>3. Was(k) \subseteq Values
  BY <1>1, <1>2 DEF Was
<1>4. \A v \in Was(k) : v # Absent /\ Expired(v) => Expired(v)'
  <2>1. now \in Int
    BY DEF LinkInv, TypeOK
  <2>. QED
    BY <1>3, <2>1 DEF Expired, Values, Records
<1>8. c' = c
  OBVIOUS
<1> HIDE DEF c
<1>5. Was(k) = {log[c][i] : i \in req[k].since .. Len(log[c])}
      /\ Was(k)' = {log'[c][i] : i \in req[k].since .. Len(log'[c])}
  BY DEF Was, c
<1>6. Was(k) \subseteq Was(k)'
  BY <1>1, <1>2, <1>5
<1>7. Latest(c) \in Was(k) /\ Latest(c)' \in Was(k)'
  BY <1>1, <1>2, <1>5, <1>8 DEF Latest
<1>. QED
  BY <1>3, <1>4, <1>6, <1>7 DEF c

\* What is written the link has been.
LEMMA WrittenWas ==
    ASSUME LinkInv, now' \in Nat, now' >= now, NEW k \in Requests, req[k].pc # "new",
           req'[k].code = req[k].code, req'[k].since = req[k].since,
           NEW v \in Values, WriteObject(req[k].code, v)
    PROVE  v \in Was(k)'
<1>1. LogStep /\ req[k].code \in Codes
  BY RequestType DEF LogStep
<1>2. \A d \in Codes : d = req[k].code => log'[d][Len(log'[d])] = v
  BY <1>1, LatestWritten DEF LinkInv, Latest
<1>. QED
  BY <1>1, <1>2, WasGrows DEF Latest

\* A request whose state does not change.
LEMMA StaysTruthful ==
    ASSUME LinkInv, Truth, Stages, LogStep, now' \in Nat, now' >= now,
           failures' \in Nat, failures' >= failures, NEW k \in Requests, req'[k] = req[k]
    PROVE  Truthful(k)'
<1>1. CASE req[k].pc = "new"
  BY <1>1 DEF Truthful, Answered
<1>2. CASE req[k].pc # "new"
  <2>1. /\ Was(k) \subseteq Was(k)' /\ Was(k) \subseteq Values
        /\ \A v \in Was(k) : v # Absent /\ Expired(v) => Expired(v)'
    BY <1>2, WasGrows
  <2>2. Truthful(k) /\ failures \in Nat
    BY DEF Truth, LinkInv, TypeOK
  <2>3. Held(k) \subseteq Held(k)' /\ Held(k) \subseteq Was(k)
    BY <2>1 DEF Held
  <2> HIDE DEF Held
  <2>. QED
    BY <2>1, <2>2, <2>3 DEF Truthful, Answered, MayManage
<1>. QED
  BY <1>1, <1>2

LEMMA GetTruth ==
    ASSUME LinkInv, Truth, Stages, NEW k \in Requests, GetToResolve(k) \/ GetToManage(k)
    PROVE  Truthful(k)'
<1> DEFINE v == Latest(req[k].code)
<1>1. req[k].pc = "get" /\ UNCHANGED <<log, now>> /\ RequestOK(k) /\ Stage(k) /\ now \in Nat
  BY RequestType DEF GetToResolve, GetToManage, Stages, LinkInv, TypeOK
<1>2. ASSUME Keeps(k) PROVE v \in Was(k)'
  BY <1>1, <1>2, WasGrows DEF LogStep, Keeps
<1>3. \A r : Expired(r)' <=> Expired(r)
  BY <1>1 DEF Expired
<1>4. ASSUME Keeps(k), req'[k].pc \in {"delete", "update"} PROVE Truthful(k)'
  BY <1>4 DEF Truthful, Answered, Held
<1>5. CASE \E pc \in {"delete"} : Goto(k, pc)
  BY <1>4, <1>5, GotoFields
<1>6. CASE Finish(k, "not_found") /\ (v = Absent \/ (req[k].op = "resolve" /\ v.disabled))
  <2>1. Keeps(k) /\ req'[k].pc = "done" /\ req'[k].answer = "not_found"
    BY <1>6, FinishFields
  <2>2. v \in Was(k)' /\ req'[k].op = req[k].op
    BY <1>2, <2>1 DEF Keeps
  <2> HIDE DEF v
  <2>. QED
    BY <1>6, <2>1, <2>2 DEF Truthful, Answered, Held
<1>7. CASE Finish(k, "denied") /\ v # Absent /\ ~MayManage(v, req[k].by)
  <2>1. Keeps(k) /\ req'[k].pc = "done" /\ req'[k].answer = "denied"
    BY <1>7, FinishFields
  <2>2. v \in Was(k)' /\ req'[k].by = req[k].by
    BY <1>2, <2>1 DEF Keeps
  <2> HIDE DEF v
  <2>. QED
    BY <1>7, <2>1, <2>2 DEF Truthful, Answered, Held, MayManage
<1>8. CASE /\ v # Absent /\ ~v.disabled /\ req[k].op = "resolve"
           /\ req' = [req EXCEPT ![k].pc = "incr", ![k].saw = v]
  <2>1. Keeps(k) /\ req'[k].pc = "incr" /\ req'[k].saw = v
    BY <1>8, FoundFields
  <2>2. v \in Was(k)' /\ req'[k].op = req[k].op
    BY <1>2, <2>1 DEF Keeps
  <2> HIDE DEF v
  <2>. QED
    BY <1>8, <2>1, <2>2 DEF Truthful, Answered, Held
<1>9. ASSUME NEW p, req' = [req EXCEPT ![k].pc = "update", ![k].put = p] PROVE Truthful(k)'
  BY <1>4, <1>9, CarriesFields
<1>. QED
  BY <1>5, <1>6, <1>7, <1>8, <1>9 DEF GetToResolve, GetToManage

LEMMA CreateTruth ==
    ASSUME LinkInv, Truth, Stages, NEW k \in Requests, Create(k)
    PROVE  Truthful(k)'
<1> DEFINE c == req[k].code
<1>0. now \in Nat
  BY DEF LinkInv, TypeOK
<1>1. /\ req[k].pc = "create" /\ UNCHANGED now /\ req[k].op \in Shortening /\ now \in Nat
      /\ c \in Codes /\ req[k].by \in Callers
  BY <1>0, RequestType DEF Create, RequestOK
<1>2. CASE Latest(c) = Absent /\ \E link \in NewLinks(req[k].by) : Created(k, link)
  <2>1. PICK link \in NewLinks(req[k].by) : Created(k, link)
    BY <1>2
  <2>2. link \in Values /\ link # Absent /\ link.owner = req[k].by
    BY <1>1, <2>1, NewLinksType
  <2>3. WriteObject(c, link) /\ (Goto(k, "point") \/ Finish(k, "ok"))
    BY <2>1 DEF Created
  <2>4. Keeps(k) /\ (req'[k].pc = "point" \/ (req'[k].pc = "done" /\ req'[k].answer = "ok"))
    BY <2>3, FinishFields, GotoFields
  <2>5. Latest(c)' = link
    <3>1. \A d \in Codes : d = c => log'[d][Len(log'[d])] = link
      BY <1>1, <2>2, <2>3, LatestWritten DEF LinkInv, Latest
    <3>. QED
      BY <1>1, <2>4, <3>1 DEF Latest, Keeps
  <2>6. LogStep
    BY <1>1, <2>2, <2>3 DEF LogStep
  <2>7. Absent \in Was(k)' /\ link \in Was(k)'
    BY <1>1, <1>2, <2>4, <2>5, <2>6, WasGrows DEF Keeps
  <2>8. req'[k].op \in Shortening /\ req'[k].by = req[k].by
    BY <1>1, <2>4 DEF Keeps
  <2>. QED
    BY <2>2, <2>4, <2>7, <2>8 DEF Truthful, Answered, Held, Shortening, Editing, Removers
<1>3. ASSUME NEW d \in Codes,
             req' = [req EXCEPT ![k].code = d, ![k].left = @ - 1, ![k].since = Len(log[d])]
      PROVE  Truthful(k)'
  BY <1>1, <1>3, RedrawFields DEF Truthful, Answered
<1>4. CASE /\ Latest(c) # Absent /\ UNCHANGED log
           /\ Finish(k, IF req[k].op = "shorten" THEN "conflict" ELSE "error")
  <2>1. /\ Keeps(k) /\ req'[k].pc = "done"
        /\ req'[k].answer = (IF req[k].op = "shorten" THEN "conflict" ELSE "error")
    BY <1>4, FinishFields
  <2>2. Latest(c) \in Was(k)' /\ req'[k].op = req[k].op
    BY <1>1, <1>4, <2>1, WasGrows DEF Keeps, LogStep
  <2>. QED
    BY <1>1, <1>4, <2>1, <2>2 DEF Truthful, Answered, Held, Shortening
<1>. QED
  BY <1>2, <1>3, <1>4 DEF Create

LEMMA MemoryTruth ==
    ASSUME LinkInv, Truth, Stages, NEW k \in Requests,
           MemoryDelete(k) \/ MemoryUpdate(k) \/ MemoryIncrVisit(k), LogStep
    PROVE  Truthful(k)'
<1> DEFINE c == req[k].code
<1>1. /\ req[k].pc \in {"delete", "update", "incr"} /\ UNCHANGED now /\ now \in Nat
      /\ Stage(k) /\ Truthful(k) /\ (BeyondCheck(k) => Authorised(k))
      /\ c \in Codes /\ req[k].since \in 1 .. Len(log[c]) /\ Len(log[c]) \in Nat
      /\ UNCHANGED now
  BY RequestType DEF MemoryDelete, MemoryUpdate, MemoryIncrVisit, LinkInv, TypeOK, Stages, Truth,
                     RequestOK
<1>2. Keeps(k) /\ req'[k].pc = "done"
  BY DeletedFields, FinishFields, RedirectFields DEF MemoryDelete, MemoryUpdate, MemoryIncrVisit
<1>3. /\ Was(k) \subseteq Was(k)' /\ Latest(c) \in Was(k)'
      /\ \A v \in Was(k) : v # Absent /\ Expired(v) => Expired(v)'
      /\ req'[k].op = req[k].op
  BY <1>1, <1>2, WasGrows DEF Keeps
<1>7. ASSUME NEW v \in Values, WriteObject(c, v) PROVE v \in Was(k)'
  <2>1. /\ now' \in Nat /\ now' >= now /\ req[k].pc # "new"
        /\ req'[k].code = req[k].code /\ req'[k].since = req[k].since
    BY <1>1, <1>2 DEF Keeps
  <2>. QED
    BY <1>7, <2>1, WrittenWas
<1>4. CASE MemoryDelete(k)
  <2>1. req[k].op \in Removers /\ req[k].pc = "delete"
    BY <1>1, <1>4 DEF MemoryDelete, Stage
  <2>2. CASE req[k].op = "resolve"
    <3>1. \E v \in Was(k) : v # Absent /\ Expired(v)
      BY <1>1, <2>1, <2>2 DEF BeyondCheck, Authorised, Permits, Was
    <3>2. req'[k].answer = "not_found"
      BY <1>4, <2>2, DeletedFields DEF MemoryDelete
    <3>. QED
      BY <1>2, <1>3, <2>2, <3>1, <3>2 DEF Truthful, Answered
  <2>3. CASE req[k].op # "resolve"
    <3>1. \/ Latest(c) = Absent /\ req'[k].answer = "not_found"
          \/ Latest(c) # Absent /\ req'[k].answer = "ok" /\ Absent \in Was(k)'
      BY <1>4, <1>7, <2>3, DeletedFields DEF MemoryDelete, Values
    <3>. QED
      BY <1>2, <1>3, <2>1, <2>3, <3>1 DEF Truthful, Answered, Held, Removers, Editing, Shortening
  <2>. QED
    BY <2>2, <2>3
<1>5. CASE MemoryUpdate(k)
  <2>1. req[k].op \in Editing
    BY <1>1, <1>5 DEF MemoryUpdate, Stage
  <2>2. req[k].put \in Values /\ req[k].put # Absent /\ req'[k].put = req[k].put
    BY <1>5, RequestType, FinishFields DEF MemoryUpdate, RequestOK
  <2>3. \/ Latest(c) = Absent /\ req'[k].answer = "not_found"
        \/ req'[k].answer = "ok" /\ req[k].put \in Was(k)'
    BY <1>5, <1>7, <2>2, FinishFields DEF MemoryUpdate
  <2>. QED
    BY <1>2, <1>3, <2>1, <2>2, <2>3 DEF Truthful, Answered, Held, Editing, Shortening, Removers
<1>6. CASE MemoryIncrVisit(k)
  <2>1. req'[k].answer = "found"
    BY <1>6, RedirectFields DEF MemoryIncrVisit
  <2>2. req[k].op = "resolve" /\ req[k].saw \in Held(k) /\ \E v \in Held(k) : ~v.disabled
    BY <1>1, <1>6 DEF MemoryIncrVisit, Truthful
  <2>3. req'[k].saw \in Held(k)'
    <3>1. CASE Redirect(k, req[k].saw)
      BY <1>3, <2>2, <3>1, RedirectFields DEF Held
    <3>2. ASSUME NEW v, Redirect(k, v), WriteObject(c, v), v = [Latest(c) EXCEPT !.visits = @ + 1],
                 Latest(c) # Absent
          PROVE  req'[k].saw \in Held(k)'
      BY <1>1, <1>7, <3>2, CountedType, RedirectFields DEF Held
    <3>. QED
      BY <1>6, <3>1, <3>2 DEF MemoryIncrVisit
  <2>4. Held(k) \subseteq Held(k)'
    BY <1>3 DEF Held
  <2> HIDE DEF Held
  <2>. QED
    BY <1>2, <1>3, <2>1, <2>2, <2>3, <2>4 DEF Truthful, Answered
<1>. QED
  BY <1>4, <1>5, <1>6

LEMMA S3Truth ==
    ASSUME LinkInv, Truth, Stages, LogStep, failures' \in Nat, failures' >= failures,
           NEW k \in Requests,
           \/ Point(k) \/ HeadObject(k) \/ PutUpdate(k) \/ FindOwner(k) \/ Remove(k)
           \/ Unpoint(k) \/ ReadVisit(k) \/ PutVisit(k)
    PROVE  Truthful(k)'
<1> DEFINE c == req[k].code
<1>1. /\ req[k].pc \in {"point", "delete", "update", "put", "find_owner", "remove", "unpoint",
                        "incr", "incr_put"}
      /\ now' = now /\ now \in Nat /\ Stage(k) /\ Truthful(k) /\ c \in Codes
      /\ req[k].put \in Values /\ RequestOK(k) /\ (BeyondCheck(k) => Authorised(k))
  <2>1. now' = now
        /\ req[k].pc \in {"point", "delete", "update", "put", "find_owner", "remove", "unpoint",
                          "incr", "incr_put"}
    BY DEF Point, HeadObject, PutUpdate, FindOwner, Remove, Unpoint, ReadVisit, PutVisit
  <2>2. now \in Nat /\ Stage(k) /\ Truthful(k) /\ (BeyondCheck(k) => Authorised(k))
    BY DEF LinkInv, TypeOK, Stages, Truth
  <2>. QED
    BY <2>1, <2>2, RequestType
<1>2. Keeps(k)
  BY DeletedFields, FinishFields, RedirectFields, GotoFields, CarriesFields
     DEF Point, HeadObject, PutUpdate, FindOwner, Remove, Unpoint, ReadVisit, PutVisit
<1>3. /\ Was(k) \subseteq Was(k)' /\ Latest(c) \in Was(k) /\ Latest(c)' \in Was(k)'
      /\ \A v \in Was(k) : v # Absent /\ Expired(v) => Expired(v)'
      /\ req'[k].op = req[k].op /\ req'[k].by = req[k].by /\ req'[k].code = c
      /\ now' \in Nat /\ now' >= now /\ req[k].pc # "new" /\ req'[k].since = req[k].since
  BY <1>1, <1>2, WasGrows DEF Keeps
<1>4. ASSUME NEW v \in Values, WriteObject(c, v) PROVE v \in Was(k)'
  BY <1>3, <1>4, WrittenWas
<1>5. Held(k) \subseteq Held(k)' /\ (Latest(c) # Absent => Held(k) # {})
  BY <1>3 DEF Held
<1>6. Latest(c) = Absent => Absent \in Was(k)'
  BY <1>3
<1>7. CASE Point(k)
  <2>1. req'[k].pc = "done" /\ req'[k].answer = "ok" /\ req[k].pc = "point"
        /\ req[k].op \in Shortening
    BY <1>1, <1>7, FinishFields DEF Point, RequestOK
  <2>2. Absent \in Was(k) /\ \E v \in Held(k) : v.owner = req[k].by
    BY <1>1, <2>1 DEF Truthful
  <2> HIDE DEF c
  <2>. QED
    BY <1>3, <1>5, <2>1, <2>2 DEF Truthful, Answered, Shortening, Removers, Editing
<1>8. CASE HeadObject(k)
  <2>1. req[k].pc \in {"update", "delete"} /\ req[k].op \notin Shortening
    BY <1>1, <1>8, StoreOps DEF HeadObject
  <2>2. CASE Latest(c) = Absent
    <3>1. req'[k].pc = "done" /\ req'[k].answer = "not_found"
      BY <1>8, <2>2, DeletedFields DEF HeadObject
    <3>. QED
      BY <1>3, <1>6, <2>2, <3>1 DEF Truthful, Answered
  <2>3. CASE Latest(c) # Absent
    <3>1. req'[k].pc \in {"put", "find_owner"}
      BY <1>8, <2>3, GotoFields DEF HeadObject
    <3>. QED
      BY <1>5, <2>3, <3>1 DEF Truthful, Answered
  <2>. QED
    BY <2>2, <2>3
<1>9. CASE PutUpdate(k)
  <2>1. req'[k].pc = "done" /\ req'[k].answer = "ok" /\ req'[k].put = req[k].put
        /\ req[k].pc = "put" /\ req[k].put # Absent
    BY <1>1, <1>9, FinishFields DEF PutUpdate, RequestOK
  <2>2. req[k].op \in Editing
    BY <1>1, <2>1 DEF Stage
  <2>3. req[k].put \in Held(k)'
    BY <1>1, <1>4, <1>9, <2>1 DEF PutUpdate, Held
  <2> HIDE DEF c
  <2>. QED
    BY <1>3, <2>1, <2>2, <2>3 DEF Truthful, Answered, Shortening, Removers, Editing
<1>10. CASE FindOwner(k)
  <2>1. req'[k].pc = "remove" /\ req[k].pc = "find_owner"
    BY <1>10, CarriesFields DEF FindOwner
  <2>. QED
    BY <1>1, <1>5, <2>1 DEF Truthful, Answered
<1>11. CASE Remove(k)
  <2>1. Absent \in Was(k)'
    BY <1>3, <1>4, <1>6, <1>11 DEF Remove, Values
  <2>2. Held(k)' # {} /\ req[k].op \in Removers
    BY <1>1, <1>5, <1>11 DEF Remove, Truthful, Stage
  <2>3. CASE Goto(k, "unpoint")
    BY <2>1, <2>2, <2>3, GotoFields DEF Truthful, Answered
  <2>4. CASE Deleted(k, "ok")
    <3>1. req'[k].pc = "done"
          /\ req'[k].answer = (IF req[k].op = "resolve" THEN "not_found" ELSE "ok")
      BY <2>4, DeletedFields
    <3>. QED
      BY <1>3, <2>1, <2>2, <3>1
         DEF Truthful, Answered, Shortening, Removers, Editing
  <2>. QED
    BY <1>11, <2>3, <2>4 DEF Remove
<1>12. CASE Unpoint(k)
  <2>1. Absent \in Was(k)' /\ Held(k)' # {} /\ req[k].op \in Removers
    BY <1>1, <1>3, <1>5, <1>12 DEF Unpoint, Truthful, Stage
  <2>2. req'[k].pc = "done"
        /\ req'[k].answer = (IF req[k].op = "resolve" THEN "not_found" ELSE "ok")
    BY <1>12, DeletedFields DEF Unpoint
  <2>. QED
    BY <1>3, <2>1, <2>2 DEF Truthful, Answered, Shortening, Removers, Editing
<1>13. CASE ReadVisit(k)
  <2>1. /\ req[k].op = "resolve" /\ req[k].saw \in Held(k) /\ req'[k].saw = req[k].saw
        /\ \E v \in Held(k) : ~v.disabled
    <3>1. req[k].pc \in {"incr", "incr_put"}
      BY <1>13 DEF ReadVisit
    <3>2. req[k].op = "resolve" /\ req[k].saw \in Held(k) /\ \E v \in Held(k) : ~v.disabled
      BY <1>1, <3>1 DEF Truthful
    <3>3. CASE Redirect(k, req[k].saw)
      BY <3>2, <3>3, RedirectFields
    <3>4. ASSUME NEW p, req' = [req EXCEPT ![k].pc = "incr_put", ![k].put = p]
          PROVE  req'[k].saw = req[k].saw
      BY <3>4, CarriesSaw
    <3>. QED
      BY <1>13, <3>2, <3>3, <3>4 DEF ReadVisit
  <2>2. req'[k].pc = "incr_put" \/ (req'[k].pc = "done" /\ req'[k].answer = "found")
    <3>1. CASE Redirect(k, req[k].saw)
      BY <3>1, RedirectFields
    <3>2. ASSUME NEW p, req' = [req EXCEPT ![k].pc = "incr_put", ![k].put = p]
          PROVE  req'[k].pc = "incr_put"
      BY <3>2, CarriesSaw
    <3>. QED
      BY <1>13, <3>1, <3>2 DEF ReadVisit
  <2>. QED
    BY <1>3, <1>5, <2>1, <2>2 DEF Truthful, Answered
<1>14. CASE PutVisit(k)
  <2>1. req[k].op = "resolve" /\ (\E v \in Held(k) : ~v.disabled) /\ req[k].put # Absent
        /\ req[k].pc = "incr_put"
    BY <1>1, <1>14 DEF PutVisit, Truthful, RequestOK
  <2>2. req'[k].pc = "done" /\ req'[k].answer = "found" /\ req'[k].saw = req[k].put
    BY <1>14, RedirectFields DEF PutVisit
  <2>3. req[k].put \in Held(k)'
    BY <1>1, <1>4, <1>14, <2>1 DEF PutVisit, Held
  <2>. QED
    BY <1>3, <1>5, <2>1, <2>2, <2>3 DEF Truthful, Answered
<1>. QED
  BY <1>7, <1>8, <1>9, <1>10, <1>11, <1>12, <1>13, <1>14

LEMMA FailTruth ==
    ASSUME LinkInv, Truth, Stages, LogStep, NEW k \in Requests, Fail(k)
    PROVE  Truthful(k)'
<1> DEFINE c == req[k].code
<1>1. /\ req[k].pc \notin {"new", "done"} /\ req[k] \in RequestStates
      /\ now' = now /\ now \in Nat /\ Stage(k) /\ Truthful(k) /\ c \in Codes
      /\ RequestOK(k) /\ (BeyondCheck(k) => Authorised(k))
      /\ Backend = "s3" /\ failures \in Nat /\ failures' = failures + 1
  BY RequestType DEF Fail, LinkInv, TypeOK, Stages, Truth
<1>2. failures' > 0
  BY <1>1
<1>3. Keeps(k) /\ req'[k].pc \in {"remove", "done"}
  BY DeletedFields, FinishFields, RedirectFields, CarriesFields DEF Fail
<1>4. /\ Was(k) \subseteq Was(k)' /\ \A v \in Was(k) : v # Absent /\ Expired(v) => Expired(v)'
      /\ req'[k].op = req[k].op /\ req'[k].by = req[k].by
  BY <1>1, <1>3, WasGrows DEF Keeps
<1>5. Held(k) \subseteq Held(k)'
  BY <1>4 DEF Held
<1>6. CASE req[k].pc = "find_owner"
  <2>1. req'[k].pc = "remove"
    BY <1>6, CarriesFields DEF Fail
  <2>. QED
    BY <1>1, <1>5, <1>6, <2>1 DEF Truthful, Answered
<1>7. CASE req[k].pc = "point"
  <2>1. req'[k].pc = "done" /\ req'[k].answer = "ok" /\ req[k].op \in Shortening
    BY <1>1, <1>7, DeletedFields DEF Fail, RequestOK, Shortening
  <2>2. Absent \in Was(k) /\ \E v \in Held(k) : v.owner = req[k].by
    BY <1>1, <1>7 DEF Truthful
  <2>. QED
    BY <1>4, <1>5, <2>1, <2>2 DEF Truthful, Answered, Shortening, Removers, Editing
<1>8. CASE req[k].pc = "unpoint"
  <2>1. Absent \in Was(k)' /\ Held(k)' # {} /\ req[k].op \in Removers
    BY <1>1, <1>4, <1>5, <1>8 DEF Truthful, Stage
  <2>2. req'[k].pc = "done"
        /\ req'[k].answer = (IF req[k].op = "resolve" THEN "not_found" ELSE "ok")
    BY <1>8, DeletedFields DEF Fail
  <2>. QED
    BY <1>4, <2>1, <2>2 DEF Truthful, Answered, Shortening, Removers, Editing
<1>9. CASE req[k].pc \in {"incr", "incr_put"}
  <2>1. req'[k].pc = "done" /\ req'[k].answer = "found" /\ req'[k].saw = req[k].saw
    BY <1>9, RedirectFields DEF Fail
  <2>2. req[k].op = "resolve" /\ req[k].saw \in Held(k) /\ \E v \in Held(k) : ~v.disabled
    BY <1>1, <1>9 DEF Truthful
  <2>. QED
    BY <1>4, <1>5, <2>1, <2>2 DEF Truthful, Answered
<1>10. ASSUME req'[k].pc = "done", req'[k].answer = "error" PROVE Truthful(k)'
  BY <1>1, <1>2, <1>10 DEF Truthful, Answered
<1>11. CASE req[k].pc = "get"
  BY <1>10, <1>11, FinishFields DEF Fail
<1>12. CASE req[k].pc \in {"create", "update", "put", "delete", "remove"}
  <2>1. req'[k].pc = "done"
        /\ req'[k].answer = (IF req[k].op = "resolve" THEN "not_found" ELSE "error")
    BY <1>12, DeletedFields DEF Fail
  <2>2. ASSUME req[k].op = "resolve"
        PROVE  \E v \in Was(k) : v # Absent /\ Expired(v)
    <3>1. req[k].pc \in {"delete", "remove"}
      BY <1>1, <1>12, <2>2 DEF Stage, RequestOK, Shortening, Editing
    <3>2. Authorised(k)
      BY <1>1, <2>2, <3>1 DEF BeyondCheck
    <3>. QED
      BY <2>2, <3>2 DEF Authorised, Permits, Was
  <2>. QED
    BY <1>4, <1>10, <2>1, <2>2 DEF Truthful, Answered
<1>. QED
  BY <1>1, <1>6, <1>7, <1>8, <1>9, <1>11, <1>12 DEF Fail

\* A step over either store: time goes on or one request does, and what the link
\* objects were stays known.
LEMMA RequestWrites ==
    ASSUME LinkInv, NEW k \in Requests, RequestStep(k)
    PROVE  LogStep
<1>1. /\ req[k].code \in Codes /\ req[k].put \in Values /\ Absent \in Values
      /\ req[k].by \in Callers /\ now \in Int
  BY RequestType DEF LinkInv, TypeOK, Values
<1>2. CASE MemoryIncrVisit(k)
  BY <1>1, <1>2, CountedType DEF MemoryIncrVisit, LogStep
<1>3. CASE Create(k)
  BY <1>1, <1>3, NewLinksType DEF Create, Created, LogStep
<1>4. CASE Fail(k) \/ Resend(k)
  BY <1>1, <1>4, NewLinksType DEF Fail, Resend, Interrupted, LogStep
<1>5. CASE \/ Begin(k) \/ GetToResolve(k) \/ GetToManage(k) \/ MemoryDelete(k)
           \/ MemoryUpdate(k)
  BY <1>1, <1>5 DEF Begin, GetToResolve, GetToManage, MemoryDelete, MemoryUpdate, LogStep
<1>6. CASE \/ Point(k) \/ HeadObject(k) \/ PutUpdate(k) \/ FindOwner(k) \/ Remove(k)
           \/ Unpoint(k) \/ ReadVisit(k) \/ PutVisit(k)
  BY <1>1, <1>6 DEF Point, HeadObject, PutUpdate, FindOwner, Remove, Unpoint, ReadVisit,
                    PutVisit, LogStep
<1>. QED
  BY <1>2, <1>3, <1>4, <1>5, <1>6 DEF RequestStep

LEMMA OthersStay ==
    ASSUME LinkInv, NEW k \in Requests, RequestStep(k)
    PROVE  \A j \in Requests \ {k} : req'[j] = req[j]
<1>1. ASSUME NEW a, Finish(k, a) \/ Deleted(k, a) \/ Goto(k, a) \/ Redirect(k, a)
      PROVE  \A j \in Requests \ {k} : req'[j] = req[j]
  BY <1>1, FinishFields, DeletedFields, GotoFields, RedirectFields DEF Keeps
<1>2. CASE Begin(k)
  BY <1>2, BeginFields
<1>3. CASE GetToResolve(k) \/ GetToManage(k)
  BY <1>1, <1>3, FoundFields, CarriesFields DEF GetToResolve, GetToManage, Keeps
<1>4. CASE Create(k)
  BY <1>1, <1>4, RedrawFields DEF Create, Created
<1>5. CASE MemoryDelete(k) \/ MemoryUpdate(k) \/ MemoryIncrVisit(k)
  BY <1>1, <1>5 DEF MemoryDelete, MemoryUpdate, MemoryIncrVisit
<1>6. CASE \/ Point(k) \/ HeadObject(k) \/ PutUpdate(k) \/ FindOwner(k) \/ Remove(k)
           \/ Unpoint(k) \/ ReadVisit(k) \/ PutVisit(k)
  <2>1. Keeps(k)
    BY <1>6, DeletedFields, FinishFields, RedirectFields, GotoFields, CarriesFields
       DEF Point, HeadObject, PutUpdate, FindOwner, Remove, Unpoint, ReadVisit, PutVisit
  <2>. QED
    BY <2>1 DEF Keeps
<1>7. CASE Fail(k)
  BY <1>1, <1>7, CarriesFields DEF Fail, Keeps
<1>. QED
  BY <1>2, <1>3, <1>4, <1>5, <1>6, <1>7 DEF RequestStep, Resend

LEMMA AnyStep ==
    ASSUME LinkInv, [Next]_vars
    PROVE  /\ now \in Nat /\ now' \in Nat /\ now' >= now /\ LogStep
           /\ failures' \in Nat /\ failures' >= failures
           /\ \A k \in Requests : RequestStep(k) => \A j \in Requests \ {k} : req'[j] = req[j]
<1>1. now \in Nat /\ now' \in Nat /\ failures \in Nat /\ failures' \in Nat
  <2>1. LinkInv'
    BY NextInv
  <2>. QED
    BY <2>1 DEF LinkInv, TypeOK
<1>2. (now' = now \/ now' = now + 1) /\ (failures' = failures \/ failures' = failures + 1)
  BY DEF Next, Tick, vars, RequestStep, Begin, GetToResolve, GetToManage, Create,
         MemoryDelete, MemoryUpdate, MemoryIncrVisit, Point, HeadObject, PutUpdate,
         FindOwner, Remove, Unpoint, ReadVisit, PutVisit, Fail, Resend
<1>3. CASE UNCHANGED log
  BY <1>1, <1>2, <1>3, OthersStay DEF LogStep
<1>4. CASE \E k \in Requests : RequestStep(k)
  BY <1>1, <1>2, <1>4, OthersStay, RequestWrites
<1>. QED
  BY <1>3, <1>4 DEF Next, Tick, vars

\* Over the memory store it is one of seven actions.
LEMMA MemoryStep ==
    ASSUME Backend = "memory", LinkInv, Stages, [Next]_vars
    PROVE  /\ now \in Nat /\ now' \in Nat /\ now' >= now /\ LogStep
           /\ \A k \in Requests : RequestStep(k) =>
                /\ \A j \in Requests \ {k} : req'[j] = req[j]
                /\ \/ Begin(k) \/ GetToResolve(k) \/ GetToManage(k) \/ Create(k)
                   \/ MemoryDelete(k) \/ MemoryUpdate(k) \/ MemoryIncrVisit(k)
<1>1. ASSUME NEW k \in Requests, RequestStep(k)
      PROVE  \/ Begin(k) \/ GetToResolve(k) \/ GetToManage(k) \/ Create(k)
             \/ MemoryDelete(k) \/ MemoryUpdate(k) \/ MemoryIncrVisit(k)
  <2>1. req[k].pc \in {"new", "get", "create", "update", "delete", "incr", "done"}
    BY DEF Stages, Stage
  <2>. QED
    BY <1>1, <2>1 DEF RequestStep, Point, HeadObject, PutUpdate, FindOwner, Remove, Unpoint,
                      ReadVisit, PutVisit, Fail, Resend
<1>. QED
  BY <1>1, AnyStep

\* A request under way that draws no code again stays the request that it is.
LEMMA MemoryKeeps ==
    ASSUME Backend = "memory", LinkInv, Stages, NEW k \in Requests, RequestStep(k),
           req[k].pc # "new", req[k].left = 1
    PROVE  Keeps(k) /\ req'[k].pc # "new"
<1>1. \/ Begin(k) \/ GetToResolve(k) \/ GetToManage(k) \/ Create(k)
      \/ MemoryDelete(k) \/ MemoryUpdate(k) \/ MemoryIncrVisit(k)
  BY MemoryStep DEF Next
<1>2. CASE GetToResolve(k) \/ GetToManage(k)
  BY <1>2, FinishFields, GotoFields, FoundFields, CarriesFields DEF GetToResolve, GetToManage
<1>3. CASE Create(k)
  BY <1>3, FinishFields DEF Create, Created
<1>4. CASE MemoryDelete(k) \/ MemoryUpdate(k) \/ MemoryIncrVisit(k)
  BY <1>4, FinishFields, DeletedFields, RedirectFields
     DEF MemoryDelete, MemoryUpdate, MemoryIncrVisit
<1>. QED
  BY <1>1, <1>2, <1>3, <1>4 DEF Begin

LEMMA TruthStep ==
    ASSUME LinkInv, Stages, Truth, [Next]_vars
    PROVE  Truth'
<1>1. /\ now \in Nat /\ now' \in Nat /\ now' >= now /\ LogStep
      /\ failures' \in Nat /\ failures' >= failures
  BY AnyStep
<1>2. CASE UNCHANGED req
  BY <1>1, <1>2, StaysTruthful DEF Truth
<1>3. ASSUME NEW k \in Requests, RequestStep(k) PROVE Truth'
  <2>1. \A j \in Requests \ {k} : req'[j] = req[j]
    BY <1>3, AnyStep
  <2>2. Truthful(k)'
    <3>1. CASE Begin(k)
      BY <3>1, BeginFields DEF Truthful, Answered, Stages, Stage, Begin
    <3>. QED
      BY <1>1, <1>3, <3>1, GetTruth, CreateTruth, MemoryTruth, S3Truth, FailTruth,
         StaysTruthful DEF RequestStep, Resend
  <2>. QED
    BY <1>1, <2>1, <2>2, StaysTruthful DEF Truth
<1>. QED
  BY <1>2, <1>3 DEF Next, Tick, vars

LEMMA TruthInit == Init => Truth
BY DEF Init, NewRequest, Truth, Truthful, Answered

\* Every answer over either store was right at some moment of its request, whatever
\* others do to the link between the accesses and whatever fails.
THEOREM AnswersAreTruthful == Spec => []Truth
<1>1. LinkInv /\ Stages /\ Truth /\ [Next]_vars => Truth'
  BY TruthStep
<1>. QED
  BY <1>1, LinkInvariant, InitInv, StagesInit, StagesInv, TruthInit, PTL DEF Spec

\* All that is proved of the memory store together.
LEMMA MemoryInvariant ==
    ASSUME Backend = "memory"
    PROVE  Spec => [](LinkInv /\ Stages /\ Truth)
BY LinkInvariant, AcknowledgedInvariant, AnswersAreTruthful, PTL

-------------------------------------------------------------------------------
(* Who owns a link                                                         *)

\* Links of the code, once there, were never removed.
NeverRemoved(c) == \A i \in 2 .. Len(log[c]) : log[c][i] # Absent

\* What a request is about to put back has the owner of what is there.
PutOwner(k) ==
    LET c == req[k].code IN
    req[k].pc \in {"update", "put", "incr_put"} /\ NeverRemoved(c) =>
        Latest(c) # Absent /\ req[k].put.owner = Latest(c).owner

OwnerInv == OwnersStay /\ \A k \in Requests : PutOwner(k)

\* The step of k writes nothing, or something with the owner of what is there.
OwnWrite(k) ==
    LET c == req[k].code IN
    \/ UNCHANGED log
    \/ \E v \in Values :
         /\ WriteObject(c, v)
         /\ v # Absent /\ Latest(c) # Absent /\ NeverRemoved(c) => v.owner = Latest(c).owner

LEMMA PatchKeepsOwner ==
    ASSUME NEW r \in Records, NEW op \in Editing, NEW p \in PatchedBy(op, r)
    PROVE  p.owner = r.owner
<1>1. CASE op = "update_as"
  BY <1>1 DEF PatchedBy
<1>2. CASE op # "update_as"
  BY <1>2 DEF PatchedBy, Records
<1>. QED
  BY <1>1, <1>2

LEMMA OwnerWritten ==
    ASSUME LinkInv, OwnersStay, NEW c \in Codes, NEW v \in Values, WriteObject(c, v),
           v # Absent /\ Latest(c) # Absent /\ NeverRemoved(c) => v.owner = Latest(c).owner
    PROVE  /\ OwnersStay'
           /\ \A d \in Codes : NeverRemoved(d)' => NeverRemoved(d) /\ (d = c => v # Absent)
<1>1. /\ log \in [Codes -> Seq(Values)] /\ \A d \in Codes : Len(log[d]) \in Nat /\ Len(log[d]) >= 1
      /\ log' = [log EXCEPT ![c] = Append(log[c], v)]
  BY DEF LinkInv, TypeOK, WriteObject
<1>2. /\ Len(log'[c]) = Len(log[c]) + 1 /\ log'[c][Len(log[c]) + 1] = v
      /\ \A i \in 1 .. Len(log[c]) : log'[c][i] = log[c][i]
      /\ \A d \in Codes \ {c} : log'[d] = log[d]
  BY <1>1
<1>3. ASSUME NEW d \in Codes, NeverRemoved(d)'
      PROVE  NeverRemoved(d) /\ (d = c => v # Absent)
  BY <1>1, <1>2, <1>3 DEF NeverRemoved
<1>4. ASSUME NEW d \in Codes, NeverRemoved(d)',
             NEW i \in 1 .. Len(log'[d]), NEW j \in 1 .. Len(log'[d]),
             log'[d][i] # Absent, log'[d][j] # Absent
      PROVE  log'[d][i].owner = log'[d][j].owner
  <2>1. NeverRemoved(d) /\ (d = c => v # Absent)
    BY <1>3, <1>4
  <2>2. \A m, n \in 1 .. Len(log[d]) :
          log[d][m] # Absent /\ log[d][n] # Absent => log[d][m].owner = log[d][n].owner
    BY <2>1 DEF OwnersStay, NeverRemoved
  <2>3. CASE d # c
    BY <1>2, <1>4, <2>2, <2>3
  <2>4. CASE d = c
    <3>1. ASSUME NEW m \in 1 .. Len(log[c]), log[c][m] # Absent
          PROVE  v.owner = log[c][m].owner
      <4>1. Len(log[c]) \in 1 .. Len(log[c])
        BY <1>1
      <4>2. Latest(c) # Absent
        <5>1. CASE Len(log[c]) = 1
          BY <1>1, <3>1, <5>1 DEF Latest
        <5>2. CASE Len(log[c]) # 1
          <6>1. Len(log[c]) \in 2 .. Len(log[c])
            <7>1. \A n \in Nat : n >= 1 /\ n # 1 => n \in 2 .. n
              OBVIOUS
            <7>2. Len(log[c]) \in Nat /\ Len(log[c]) >= 1
              BY <1>1
            <7>. QED
              BY <5>2, <7>1, <7>2
          <6>. QED
            BY <2>1, <2>4, <6>1 DEF NeverRemoved, Latest
        <5>. QED
          BY <5>1, <5>2
      <4>3. v.owner = Latest(c).owner
        BY <2>1, <2>4, <4>2
      <4>. QED
        BY <2>2, <2>4, <3>1, <4>1, <4>2, <4>3 DEF Latest
    <3>2. \A m \in 1 .. Len(log'[c]) : m \in 1 .. Len(log[c]) \/ m = Len(log[c]) + 1
      BY <1>1, <1>2
    <3>3. ASSUME NEW m \in 1 .. Len(log'[c]), log'[c][m] # Absent
          PROVE  \/ m \in 1 .. Len(log[c]) /\ log'[c][m] = log[c][m] /\ log[c][m] # Absent
                 \/ log'[c][m] = v
      BY <1>2, <3>2, <3>3
    <3>4. /\ i \in 1 .. Len(log'[c]) /\ j \in 1 .. Len(log'[c])
          /\ log'[c][i] # Absent /\ log'[c][j] # Absent
      BY <1>4, <2>4
    <3>5. CASE log'[c][i] = v
      BY <2>4, <3>1, <3>3, <3>4, <3>5
    <3>6. CASE log'[c][j] = v
      BY <2>4, <3>1, <3>3, <3>4, <3>6
    <3>7. CASE log'[c][i] # v /\ log'[c][j] # v
      BY <2>2, <2>4, <3>3, <3>4, <3>7
    <3>. QED
      BY <3>5, <3>6, <3>7
  <2>. QED
    BY <2>3, <2>4
<1>5. OwnersStay'
  BY <1>4 DEF OwnersStay, NeverRemoved
<1>. QED
  BY <1>3, <1>5

\* A step of k, for the requests that it leaves as they are.
LEMMA OwnersKept ==
    ASSUME LinkInv, OwnerInv, NEW k \in Requests, OwnWrite(k)
    PROVE  OwnersStay' /\ \A j \in Requests : req'[j] = req[j] => PutOwner(j)'
<1>1. req[k].code \in Codes /\ OwnersStay
  BY RequestType DEF OwnerInv
<1>2. CASE UNCHANGED log
  BY <1>1, <1>2 DEF OwnerInv, OwnersStay, PutOwner, NeverRemoved, Latest
<1>3. ASSUME NEW v \in Values, WriteObject(req[k].code, v),
             v # Absent /\ Latest(req[k].code) # Absent /\ NeverRemoved(req[k].code)
               => v.owner = Latest(req[k].code).owner
      PROVE  OwnersStay' /\ \A j \in Requests : req'[j] = req[j] => PutOwner(j)'
  <2> DEFINE c == req[k].code
  <2>1. /\ OwnersStay'
        /\ \A d \in Codes : NeverRemoved(d)' => NeverRemoved(d) /\ (d = c => v # Absent)
    BY <1>1, <1>3, OwnerWritten
  <2>2. \A d \in Codes : /\ d = c => log'[d][Len(log'[d])] = v
                         /\ d # c => log'[d][Len(log'[d])] = Latest(d)
    BY <1>1, <1>3, LatestWritten DEF LinkInv, Latest
  <2>3. ASSUME NEW j \in Requests, req'[j] = req[j], req[j].pc \in {"update", "put", "incr_put"},
               NEW d \in Codes, d = req[j].code, NeverRemoved(d)'
        PROVE  log'[d][Len(log'[d])] # Absent /\ req[j].put.owner = log'[d][Len(log'[d])].owner
    <3>1. NeverRemoved(d) /\ (d = c => v # Absent)
      BY <2>1, <2>3
    <3>2. Latest(d) # Absent /\ req[j].put.owner = Latest(d).owner
      BY <2>3, <3>1 DEF OwnerInv, PutOwner
    <3>. QED
      BY <1>3, <2>2, <3>1, <3>2
  <2>4. ASSUME NEW j \in Requests, req'[j] = req[j] PROVE PutOwner(j)'
    <3>1. req[j].code \in Codes
      BY RequestType
    <3>. QED
      BY <2>3, <2>4, <3>1 DEF PutOwner, NeverRemoved, Latest
  <2>. QED
    BY <2>1, <2>4
<1>. QED
  BY <1>2, <1>3 DEF OwnWrite

\* A request that is not about to put anything back.
LEMMA PutsNothing ==
    ASSUME NEW k \in Requests, req'[k].pc \notin {"update", "put", "incr_put"}
    PROVE  PutOwner(k)'
BY DEF PutOwner

LEMMA ReadsOwner ==
    ASSUME LinkInv, NEW k \in Requests, UNCHANGED log, Latest(req[k].code) # Absent,
           NEW pc, NEW v, req' = [req EXCEPT ![k].pc = pc, ![k].put = v],
           v.owner = Latest(req[k].code).owner
    PROVE  PutOwner(k)'
<1>1. Keeps(k) /\ req'[k].put = v
  <2>1. req \in [Requests -> RequestStates] /\ req[k] \in RequestStates
    BY RequestType
  <2>2. req' = [req EXCEPT ![k] = [req[k] EXCEPT !.pc = pc, !.put = v]]
    BY <2>1
  <2>. QED
    BY <2>1, <2>2 DEF Keeps, RequestStates
<1>. QED
  BY <1>1 DEF Keeps, PutOwner, Latest

LEMMA InterruptedOwn ==
    ASSUME LinkInv, OwnerInv, NEW k \in Requests, Interrupted(k)
    PROVE  OwnWrite(k)
<1>1. /\ PutOwner(k) /\ req[k].put \in Values /\ req[k].by \in Callers /\ now \in Int
      /\ Absent \in Values
  BY RequestType DEF OwnerInv, LinkInv, TypeOK, Values
<1>2. CASE req[k].pc \in {"put", "incr_put"} /\ WriteObject(req[k].code, req[k].put)
  BY <1>1, <1>2 DEF OwnWrite, PutOwner
<1>3. ASSUME Latest(req[k].code) = Absent, NEW link \in NewLinks(req[k].by),
             WriteObject(req[k].code, link)
      PROVE  OwnWrite(k)
  BY <1>1, <1>3, NewLinksType DEF OwnWrite
<1>4. CASE UNCHANGED log \/ WriteObject(req[k].code, Absent)
  BY <1>1, <1>4 DEF OwnWrite
<1>. QED
  BY <1>2, <1>3, <1>4 DEF Interrupted

LEMMA GetOwner ==
    ASSUME LinkInv, NEW k \in Requests, GetToResolve(k) \/ GetToManage(k)
    PROVE  PutOwner(k)' /\ OwnWrite(k)
<1> DEFINE r == Latest(req[k].code)
<1>1. r \in Values /\ RequestOK(k) /\ UNCHANGED log /\ req[k].pc = "get"
  BY RequestType DEF GetToResolve, GetToManage
<1>2. ASSUME NEW a, Finish(k, a) PROVE PutOwner(k)'
  BY <1>2, FinishFields, PutsNothing
<1>3. ASSUME Goto(k, "delete") PROVE PutOwner(k)'
  <2>1. req'[k].pc = "delete"
    BY <1>3, GotoFields
  <2>. QED
    BY <2>1, PutsNothing
<1>4. ASSUME req' = [req EXCEPT ![k].pc = "incr", ![k].saw = r] PROVE PutOwner(k)'
  <2>1. req'[k].pc = "incr"
    BY <1>4, FoundFields
  <2>. QED
    BY <2>1, PutsNothing
<1>5. ASSUME r # Absent, req[k].op \notin {"resolve", "delete_as"},
             NEW patched \in PatchedBy(req[k].op, r),
             req' = [req EXCEPT ![k].pc = "update", ![k].put = patched]
      PROVE  PutOwner(k)'
  <2>1. r \in Records /\ req[k].op \in Editing
    BY <1>1, <1>5 DEF Values, RequestOK, Managing, Editing
  <2>2. patched.owner = r.owner
    BY <1>5, <2>1, PatchKeepsOwner
  <2>. QED
    BY <1>1, <1>5, <2>2, ReadsOwner
<1>. QED
  BY <1>1, <1>2, <1>3, <1>4, <1>5 DEF GetToResolve, GetToManage, OwnWrite

LEMMA OwnerStep ==
    ASSUME LinkInv, OwnerInv, NEW k \in Requests, RequestStep(k)
    PROVE  OwnWrite(k) /\ (req'[k] = req[k] \/ PutOwner(k)')
<1>1. /\ PutOwner(k) /\ req[k].put \in Values /\ req[k].by \in Callers /\ now \in Int
      /\ req[k].code \in Codes /\ Latest(req[k].code) \in Values /\ Absent \in Values
  BY RequestType DEF OwnerInv, LinkInv, TypeOK, Values
<1>2. ASSUME NEW a, Finish(k, a) \/ Deleted(k, a) \/ Redirect(k, a) PROVE PutOwner(k)'
  BY <1>2, FinishFields, DeletedFields, RedirectFields, PutsNothing
<1>3. CASE Begin(k)
  <2>1. req'[k].pc \in {"create", "delete", "get"}
    BY <1>3, BeginFields
  <2>. QED
    BY <1>3, <2>1, PutsNothing DEF Begin, OwnWrite
<1>4. CASE GetToResolve(k) \/ GetToManage(k)
  BY <1>4, GetOwner
<1>5. CASE Create(k)
  <2>1. OwnWrite(k)
    BY <1>1, <1>5, NewLinksType DEF Create, Created, OwnWrite
  <2>2. CASE Goto(k, "point")
    BY <2>1, <2>2, GotoFields, PutsNothing
  <2>3. ASSUME NEW d \in Codes,
               req' = [req EXCEPT ![k].code = d, ![k].left = @ - 1, ![k].since = Len(log[d])]
        PROVE  PutOwner(k)'
    BY <1>5, <2>3, RedrawFields, PutsNothing DEF Create
  <2>. QED
    BY <1>2, <1>5, <2>1, <2>2, <2>3 DEF Create, Created
<1>6. CASE MemoryDelete(k) \/ MemoryUpdate(k)
  BY <1>1, <1>2, <1>6 DEF MemoryDelete, MemoryUpdate, OwnWrite, PutOwner
<1>7. ASSUME Latest(req[k].code) # Absent,
             NEW counted, counted = [Latest(req[k].code) EXCEPT !.visits = @ + 1]
      PROVE  counted \in Values /\ counted.owner = Latest(req[k].code).owner
  BY <1>1, <1>7, CountedType DEF Values, Records
<1>8. CASE MemoryIncrVisit(k)
  BY <1>2, <1>7, <1>8 DEF MemoryIncrVisit, OwnWrite
<1>9. CASE PutUpdate(k) \/ PutVisit(k)
  BY <1>1, <1>2, <1>9 DEF PutUpdate, PutVisit, OwnWrite, PutOwner
<1>10. CASE Point(k) \/ Unpoint(k)
  BY <1>2, <1>10 DEF Point, Unpoint, OwnWrite
<1>11. CASE HeadObject(k)
  <2>1. CASE Goto(k, "find_owner")
    BY <1>11, <2>1, GotoFields, PutsNothing DEF HeadObject, OwnWrite
  <2>2. CASE Goto(k, "put") /\ req[k].pc = "update"
    <3>1. req'[k].code = req[k].code /\ req'[k].put = req[k].put
      BY <2>2, GotoFields DEF Keeps
    <3>. QED
      BY <1>1, <1>11, <2>2, <3>1 DEF HeadObject, OwnWrite, PutOwner, NeverRemoved, Latest
  <2>. QED
    BY <1>2, <1>11, <2>1, <2>2 DEF HeadObject, OwnWrite
<1>12. CASE FindOwner(k)
  <2>1. req'[k].pc = "remove"
    <3>1. req' = [req EXCEPT ![k].pc = "remove", ![k].put = Latest(req[k].code)]
      BY <1>12 DEF FindOwner
    <3>2. req \in [Requests -> RequestStates] /\ req[k] \in RequestStates
      BY RequestType
    <3>. QED
      BY <3>1, <3>2 DEF RequestStates
  <2>. QED
    BY <1>12, <2>1, PutsNothing DEF FindOwner, OwnWrite
<1>13. CASE Remove(k)
  <2>1. OwnWrite(k)
    BY <1>1, <1>13 DEF Remove, OwnWrite
  <2>2. CASE Goto(k, "unpoint")
    BY <2>1, <2>2, GotoFields, PutsNothing
  <2>. QED
    BY <1>2, <1>13, <2>1, <2>2 DEF Remove
<1>14. CASE ReadVisit(k)
  <2>1. OwnWrite(k)
    BY <1>14 DEF ReadVisit, OwnWrite
  <2>2. ASSUME Latest(req[k].code) # Absent,
               NEW p, p = [Latest(req[k].code) EXCEPT !.visits = @ + 1],
               req' = [req EXCEPT ![k].pc = "incr_put", ![k].put = p]
        PROVE  PutOwner(k)'
    BY <1>7, <1>14, <2>2, ReadsOwner DEF ReadVisit
  <2>. QED
    BY <1>2, <1>14, <2>1, <2>2 DEF ReadVisit
<1>15. CASE Fail(k)
  <2>1. OwnWrite(k)
    BY <1>15, InterruptedOwn DEF Fail
  <2>2. ASSUME req' = [req EXCEPT ![k].pc = "remove", ![k].put = Absent]
        PROVE  PutOwner(k)'
    <3>1. req'[k].pc = "remove"
      BY <2>2, CarriesFields
    <3>. QED
      BY <3>1, PutsNothing
  <2>. QED
    BY <1>2, <1>15, <2>1, <2>2 DEF Fail
<1>16. CASE Resend(k)
  BY <1>16, InterruptedOwn DEF Resend
<1>. QED
  BY <1>3, <1>4, <1>5, <1>6, <1>8, <1>9, <1>10, <1>11, <1>12, <1>13, <1>14, <1>15, <1>16
     DEF RequestStep

LEMMA OwnerNext == LinkInv /\ OwnerInv /\ [Next]_vars => OwnerInv'
<1> SUFFICES ASSUME LinkInv, OwnerInv, [Next]_vars PROVE OwnerInv'
  OBVIOUS
<1>1. CASE UNCHANGED <<log, req>>
  BY <1>1 DEF OwnerInv, OwnersStay, PutOwner, NeverRemoved, Latest
<1>2. ASSUME NEW k \in Requests, RequestStep(k) PROVE OwnerInv'
  BY <1>2, AnyStep, OwnerStep, OwnersKept DEF OwnerInv
<1>. QED
  BY <1>1, <1>2 DEF Next, Tick, vars

LEMMA OwnerInit == Init => OwnerInv
<1> SUFFICES ASSUME Init PROVE OwnerInv
  OBVIOUS
<1>1. \A c \in Codes : Len(log[c]) = 1
  BY DEF Init
<1>2. OwnersStay
  BY <1>1 DEF OwnersStay
<1>. QED
  BY <1>2 DEF Init, NewRequest, OwnerInv, PutOwner

\* A link changes hands only through its removal, over either store and whatever is
\* written back late.
THEOREM OwnersAreKept == Spec => []OwnersStay
<1>1. OwnerInv => OwnersStay
  BY DEF OwnerInv
<1>. QED
  BY <1>1, LinkInvariant, InitInv, OwnerInit, OwnerNext, PTL DEF Spec

\* Edits, deletions and clean-ups are done by those who are entitled to them.
THEOREM OnlyEntitled == Spec => OnlyTheEntitledChange
BY Authorisation, RemovalsJustified, OwnersAreKept DEF OnlyTheEntitledChange

-------------------------------------------------------------------------------
(* The owner pointers of the S3 store                                      *)

\* No two requests were under way at the same time.
Serial ==
    \A j, k \in Requests :
        j # k /\ req[j].pc # "new" /\ req[k].pc # "new" => ~Overlapped(j, k)

\* One request after another, none failing, keeps a pointer for every owned link, or
\* is about to write it; what it puts back has the owner of what it read.
ListedInv ==
    failures = 0 /\ Serial =>
        /\ \A c \in Codes, u \in Users : Latest(c) # Absent /\ Latest(c).owner = u =>
             \/ <<u, c>> \in ptr
             \/ \E k \in Requests : req[k].pc = "point" /\ req[k].code = c /\ req[k].by = u
        /\ \A k \in Requests :
             /\ req[k].pc \in {"update", "put", "incr_put"} =>
                  Latest(req[k].code) # Absent /\ req[k].put.owner = Latest(req[k].code).owner
             /\ req[k].pc = "unpoint" => Latest(req[k].code) = Absent

\* Then all the others wait while k is under way.
LEMMA Alone ==
    ASSUME Stages, Serial, NEW k \in Requests, req[k].pc \notin {"new", "done"}
    PROVE  \A j \in Requests \ {k} : req[j].pc \in {"new", "done"}
BY DEF Serial, Overlapped, Stages, Stage

LEMMA SerialBefore ==
    ASSUME NEW k \in Requests, \A j \in Requests \ {k} : req'[j] = req[j],
           req[k].pc = "new" \/ (req'[k].after = req[k].after /\ req'[k].pc # "new"), Serial'
    PROVE  Serial
BY DEF Serial, Overlapped

\* What holds of every code while k is under way.
LEMMA ListedBefore ==
    ASSUME Stages, ListedInv, failures = 0, Serial,
           NEW k \in Requests, req[k].pc \notin {"new", "done"}
    PROVE  /\ \A c \in Codes, u \in Users : Latest(c) # Absent /\ Latest(c).owner = u =>
                <<u, c>> \in ptr \/ (req[k].pc = "point" /\ req[k].code = c /\ req[k].by = u)
           /\ req[k].pc \in {"update", "put", "incr_put"} =>
                Latest(req[k].code) # Absent /\ req[k].put.owner = Latest(req[k].code).owner
           /\ req[k].pc = "unpoint" => Latest(req[k].code) = Absent
BY Alone DEF ListedInv

LEMMA ListedAfter ==
    ASSUME Stages, Serial, NEW k \in Requests, req[k].pc \notin {"new", "done"},
           \A j \in Requests \ {k} : req'[j] = req[j],
           \A c \in Codes, u \in Users : Latest(c)' # Absent /\ Latest(c)'.owner = u =>
              <<u, c>> \in ptr' \/ (req'[k].pc = "point" /\ req'[k].code = c /\ req'[k].by = u),
           req'[k].pc \in {"update", "put", "incr_put"} =>
              Latest(req[k].code)' # Absent /\ req'[k].put.owner = Latest(req[k].code)'.owner,
           req'[k].pc = "unpoint" => Latest(req[k].code)' = Absent
    PROVE  ListedInv'
<1>1. \A j \in Requests \ {k} : req'[j].pc \in {"new", "done"}
  BY Alone
<1>2. ASSUME NEW c \in Codes, NEW u \in Users, Latest(c)' # Absent, Latest(c)'.owner = u
      PROVE  \/ <<u, c>> \in ptr'
             \/ \E j \in Requests : req'[j].pc = "point" /\ req'[j].code = c /\ req'[j].by = u
  BY <1>2
<1>3. ASSUME NEW j \in Requests
      PROVE  /\ req'[j].pc \in {"update", "put", "incr_put"} =>
                  Latest(req[j].code)' # Absent /\ req'[j].put.owner = Latest(req[j].code)'.owner
             /\ req'[j].pc = "unpoint" => Latest(req[j].code)' = Absent
  <2>1. CASE j = k
    BY <2>1
  <2>2. CASE j # k
    BY <1>1, <2>2
  <2>. QED
    BY <2>1, <2>2
<1>. QED
  BY <1>2, <1>3 DEF ListedInv

\* A patch keeps the owner.
\* Steps that leave the store alone.
LEMMA QuietListed ==
    ASSUME Stages, ListedInv, failures = 0, Serial,
           NEW k \in Requests, req[k].pc \notin {"new", "done", "point"},
           \A j \in Requests \ {k} : req'[j] = req[j], UNCHANGED <<log, ptr>>,
           req'[k].pc \notin {"point"},
           req'[k].pc \in {"update", "put", "incr_put"} =>
              /\ Latest(req[k].code) # Absent /\ req'[k].put.owner = Latest(req[k].code).owner
              /\ req'[k].code = req[k].code,
           req'[k].pc # "unpoint"
    PROVE  ListedInv'
<1>1. \A c \in Codes : Latest(c)' = Latest(c)
  BY DEF Latest
<1>2. \A c \in Codes, u \in Users : Latest(c) # Absent /\ Latest(c).owner = u => <<u, c>> \in ptr
  BY ListedBefore
<1>3. req'[k].code = req[k].code => Latest(req[k].code)' = Latest(req[k].code)
  BY DEF Latest
<1>. QED
  BY <1>1, <1>2, <1>3, ListedAfter

\* Writes that keep the owner of a link, or take the link away.
LEMMA WriteListed ==
    ASSUME LinkInv, Stages, ListedInv, failures = 0, Serial,
           NEW k \in Requests, req[k].pc \notin {"new", "done", "point"}, Keeps(k),
           NEW v \in Values, WriteObject(req[k].code, v), UNCHANGED ptr,
           v # Absent => Latest(req[k].code) # Absent /\ v.owner = Latest(req[k].code).owner,
           req'[k].pc \in {"done", "unpoint"}, req'[k].pc = "unpoint" => v = Absent
    PROVE  ListedInv'
<1>1. /\ req[k].code \in Codes /\ req'[k].code = req[k].code
      /\ \A j \in Requests \ {k} : req'[j] = req[j]
  BY RequestType DEF Keeps
<1>2. Latest(req[k].code)' = v /\ \A d \in Codes \ {req[k].code} : Latest(d)' = Latest(d)
  BY <1>1, LatestWritten DEF LinkInv
<1>3. \A c \in Codes, u \in Users : Latest(c) # Absent /\ Latest(c).owner = u => <<u, c>> \in ptr
  BY ListedBefore
<1>4. \A c \in Codes, u \in Users : Latest(c)' # Absent /\ Latest(c)'.owner = u => <<u, c>> \in ptr'
  BY <1>1, <1>2, <1>3
<1>. QED
  BY <1>1, <1>2, <1>4, ListedAfter

LEMMA GetListed ==
    ASSUME LinkInv, Stages, ListedInv, failures = 0, Serial, NEW k \in Requests,
           GetToResolve(k) \/ GetToManage(k)
    PROVE  ListedInv'
<1> DEFINE v == Latest(req[k].code)
<1>1. req[k].pc = "get" /\ UNCHANGED <<log, ptr>> /\ v \in Values /\ RequestOK(k)
  BY RequestType DEF GetToResolve, GetToManage
<1>2. ASSUME NEW a, Finish(k, a) PROVE ListedInv'
  BY <1>1, <1>2, FinishFields, QuietListed DEF Keeps
<1>3. CASE Goto(k, "delete")
  BY <1>1, <1>3, GotoFields, QuietListed DEF Keeps
<1>4. CASE req' = [req EXCEPT ![k].pc = "incr", ![k].saw = v]
  BY <1>1, <1>4, FoundFields, QuietListed DEF Keeps
<1>5. ASSUME v # Absent, req[k].op \notin {"resolve", "delete_as"},
             NEW patched \in PatchedBy(req[k].op, v),
             req' = [req EXCEPT ![k].pc = "update", ![k].put = patched]
      PROVE  ListedInv'
  <2>1. Keeps(k) /\ req'[k].pc = "update" /\ req'[k].put = patched
    BY <1>5, CarriesFields
  <2>2. v \in Records /\ req[k].op \in Editing
    BY <1>1, <1>5 DEF Values, RequestOK, Managing, Editing
  <2>3. patched.owner = v.owner
    BY <1>5, <2>2, PatchKeepsOwner
  <2>. QED
    BY <1>1, <1>5, <2>1, <2>3, QuietListed DEF Keeps
<1>. QED
  BY <1>2, <1>3, <1>4, <1>5 DEF GetToResolve, GetToManage

LEMMA CreateListed ==
    ASSUME Backend = "s3", LinkInv, Stages, ListedInv, failures = 0, Serial, NEW k \in Requests,
           Create(k)
    PROVE  ListedInv'
<1> DEFINE c == req[k].code
<1>1. /\ req[k].pc = "create" /\ now \in Int /\ req[k].by \in Callers /\ UNCHANGED ptr
      /\ c \in Codes
  <2>1. req[k].pc = "create" /\ UNCHANGED ptr
    BY DEF Create
  <2>2. req[k].by \in Callers /\ c \in Codes
    BY RequestType
  <2>3. now \in Int
    BY DEF LinkInv, TypeOK
  <2>. QED
    BY <2>1, <2>2, <2>3
<1>2. ASSUME NEW link \in NewLinks(req[k].by), Created(k, link) PROVE ListedInv'
  <2>1. link \in Values /\ link # Absent /\ link.owner = req[k].by /\ WriteObject(c, link)
    BY <1>1, <1>2, NewLinksType DEF Created
  <2>2. Keeps(k) /\ req'[k].pc \in {"point", "done"}
        /\ (req'[k].pc # "point" => req[k].by = NoOwner)
    BY <1>2, <2>1, GotoFields, FinishFields DEF Created, HasPointer
  <2>3. req'[k].code = c /\ req'[k].by = req[k].by /\ \A j \in Requests \ {k} : req'[j] = req[j]
    BY <2>2 DEF Keeps
  <2>4. Latest(c)' = link /\ \A d \in Codes \ {c} : Latest(d)' = Latest(d)
    BY <1>1, <2>1, <2>3, LatestWritten DEF LinkInv
  <2>5. \A d \in Codes, u \in Users : Latest(d) # Absent /\ Latest(d).owner = u => <<u, d>> \in ptr
    BY <1>1, ListedBefore
  <2>6. ASSUME NEW d \in Codes, NEW u \in Users, Latest(d)' # Absent, Latest(d)'.owner = u
        PROVE  <<u, d>> \in ptr' \/ (req'[k].pc = "point" /\ req'[k].code = d /\ req'[k].by = u)
    <3>1. CASE d = c
      BY <2>1, <2>2, <2>3, <2>4, <2>6, <3>1, LinksAssumption
    <3>2. CASE d # c
      BY <1>1, <2>4, <2>5, <2>6, <3>2
    <3>. QED
      BY <3>1, <3>2
  <2>. QED
    BY <1>1, <2>2, <2>3, <2>6, ListedAfter
<1>3. ASSUME NEW d \in Codes, UNCHANGED log,
             req' = [req EXCEPT ![k].code = d, ![k].left = @ - 1, ![k].since = Len(log[d])]
      PROVE  ListedInv'
  <2>1. req'[k].pc = "create" /\ \A j \in Requests \ {k} : req'[j] = req[j]
    BY <1>1, <1>3, RedrawFields
  <2>. QED
    BY <1>1, <1>3, <2>1, QuietListed
<1>4. ASSUME UNCHANGED log, NEW a, Finish(k, a) PROVE ListedInv'
  BY <1>1, <1>4, FinishFields, QuietListed DEF Keeps
<1>. QED
  BY <1>2, <1>3, <1>4, Zenon DEF Create

LEMMA S3Listed ==
    ASSUME LinkInv, Stages, ListedInv, failures = 0, Serial, NEW k \in Requests,
           \/ Point(k) \/ HeadObject(k) \/ PutUpdate(k) \/ FindOwner(k) \/ Remove(k)
           \/ Unpoint(k) \/ ReadVisit(k) \/ PutVisit(k)
    PROVE  ListedInv'
<1> DEFINE c == req[k].code
<1>1. /\ c \in Codes /\ req[k].put \in Values /\ RequestOK(k) /\ Latest(c) \in Values
      /\ Absent \in Values
      /\ req[k].pc \in {"point", "delete", "update", "put", "find_owner", "remove", "unpoint",
                        "incr", "incr_put"}
  BY RequestType
     DEF Values, Point, HeadObject, PutUpdate, FindOwner, Remove, Unpoint, ReadVisit, PutVisit
<1>2. Keeps(k)
  BY DeletedFields, FinishFields, RedirectFields, GotoFields, CarriesFields
     DEF Point, HeadObject, PutUpdate, FindOwner, Remove, Unpoint, ReadVisit, PutVisit
<1>3. /\ \A j \in Requests \ {k} : req'[j] = req[j]
      /\ req'[k].code = c /\ req'[k].by = req[k].by
  BY <1>2 DEF Keeps
<1>4. /\ \A d \in Codes, u \in Users : Latest(d) # Absent /\ Latest(d).owner = u =>
            <<u, d>> \in ptr \/ (req[k].pc = "point" /\ c = d /\ req[k].by = u)
      /\ req[k].pc \in {"update", "put", "incr_put"} =>
            Latest(c) # Absent /\ req[k].put.owner = Latest(c).owner
      /\ req[k].pc = "unpoint" => Latest(c) = Absent
  BY <1>1, ListedBefore
<1>5. CASE Point(k)
  <2>1. /\ ptr' = ptr \cup {<<req[k].by, c>>} /\ UNCHANGED log /\ req'[k].pc = "done"
    BY <1>5, FinishFields DEF Point
  <2>2. \A d \in Codes : Latest(d)' = Latest(d)
    BY <2>1 DEF Latest
  <2>3. \A d \in Codes, u \in Users : Latest(d)' # Absent /\ Latest(d)'.owner = u => <<u, d>> \in ptr'
    BY <1>4, <2>1, <2>2
  <2>. QED
    BY <1>1, <1>3, <1>5, <2>1, <2>3, ListedAfter DEF Point
<1>6. CASE HeadObject(k)
  <2>1. UNCHANGED <<log, ptr>> /\ req[k].pc \in {"update", "delete"}
    BY <1>6 DEF HeadObject
  <2>2. \/ req'[k].pc \in {"done", "find_owner"}
        \/ req'[k].pc = "put" /\ req[k].pc = "update" /\ req'[k].put = req[k].put
    BY <1>6, DeletedFields, GotoFields DEF HeadObject
  <2>. QED
    BY <1>3, <1>4, <2>1, <2>2, QuietListed
<1>7. CASE PutUpdate(k) \/ PutVisit(k)
  <2>1. /\ req'[k].pc = "done" /\ WriteObject(c, req[k].put) /\ UNCHANGED ptr
        /\ req[k].pc \in {"put", "incr_put"}
    BY <1>7, FinishFields, RedirectFields DEF PutUpdate, PutVisit
  <2>. QED
    BY <1>1, <1>2, <1>4, <2>1, WriteListed
<1>8. CASE FindOwner(k)
  <2>1. UNCHANGED <<log, ptr>> /\ req[k].pc = "find_owner" /\ req'[k].pc = "remove"
    BY <1>8, CarriesFields DEF FindOwner
  <2>. QED
    BY <1>3, <2>1, QuietListed
<1>9. CASE Remove(k)
  <2>1. req[k].pc = "remove" /\ req'[k].pc \in {"unpoint", "done"} /\ UNCHANGED ptr
    BY <1>9, DeletedFields, GotoFields DEF Remove
  <2>2. CASE UNCHANGED log /\ Latest(c) = Absent
    <3>1. \A d \in Codes : Latest(d)' = Latest(d)
      BY <2>2 DEF Latest
    <3>2. \A d \in Codes, u \in Users : Latest(d)' # Absent /\ Latest(d)'.owner = u =>
             <<u, d>> \in ptr'
      BY <1>4, <2>1, <3>1
    <3>3. Latest(c)' = Absent
      BY <1>1, <1>3, <2>2, <3>1
    <3>. QED
      BY <1>3, <2>1, <3>2, <3>3, ListedAfter
  <2>3. CASE WriteObject(c, Absent)
    BY <1>1, <1>2, <2>1, <2>3, WriteListed
  <2>. QED
    BY <1>9, <2>2, <2>3 DEF Remove
<1>10. CASE Unpoint(k)
  <2>1. /\ req[k].pc = "unpoint" /\ req'[k].pc = "done" /\ UNCHANGED log
        /\ ptr' = ptr \ {<<req[k].put.owner, c>>}
    BY <1>10, DeletedFields DEF Unpoint
  <2>2. \A d \in Codes : Latest(d)' = Latest(d)
    BY <2>1 DEF Latest
  <2>3. \A d \in Codes, u \in Users : Latest(d)' # Absent /\ Latest(d)'.owner = u => <<u, d>> \in ptr'
    BY <1>4, <2>1, <2>2
  <2>. QED
    BY <1>3, <2>1, <2>3, ListedAfter
<1>11. CASE ReadVisit(k)
  <2> DEFINE counted == [Latest(c) EXCEPT !.visits = @ + 1]
  <2>1. UNCHANGED <<log, ptr>> /\ req[k].pc = "incr"
    BY <1>11 DEF ReadVisit
  <2>2. CASE Redirect(k, req[k].saw)
    BY <1>3, <2>1, <2>2, RedirectFields, QuietListed
  <2>3. CASE Latest(c) # Absent /\ req' = [req EXCEPT ![k].pc = "incr_put", ![k].put = counted]
    <3>1. Latest(c) \in Records
      BY <1>1, <2>3 DEF Values
    <3>2. counted.owner = Latest(c).owner
      BY <3>1 DEF Records
    <3> HIDE DEF counted
    <3>3. req'[k].pc = "incr_put" /\ req'[k].put = counted
      BY <2>3, CarriesFields
    <3>. QED
      BY <1>3, <2>1, <2>3, <3>2, <3>3, QuietListed
  <2>. QED
    BY <1>11, <2>2, <2>3 DEF ReadVisit
<1>. QED
  BY <1>5, <1>6, <1>7, <1>8, <1>9, <1>10, <1>11

LEMMA ListedStep ==
    ASSUME Backend = "s3", LinkInv, Stages, ListedInv, [Next]_vars
    PROVE  ListedInv'
<1>1. CASE UNCHANGED <<log, ptr, req, failures>>
  BY <1>1 DEF ListedInv, Serial, Overlapped, Latest
<1>2. ASSUME NEW k \in Requests, Begin(k) PROVE ListedInv'
  <2>1. /\ req[k].pc = "new" /\ UNCHANGED <<log, ptr, failures>>
        /\ \A j \in Requests \ {k} : req'[j] = req[j]
        /\ req'[k].pc \in {"create", "delete", "get"}
    BY <1>2, BeginFields DEF Begin
  <2>2. Serial' => Serial
    BY <2>1, SerialBefore
  <2>3. \A c \in Codes : Latest(c)' = Latest(c)
    BY <2>1 DEF Latest
  <2>4. \A j \in Requests : req[j].pc # "new" => req'[j] = req[j] /\ Latest(req[j].code)' = Latest(req[j].code)
    BY <2>1 DEF Latest
  <2>. QED
    BY <2>1, <2>2, <2>3, <2>4 DEF ListedInv
<1>3. ASSUME NEW k \in Requests, RequestStep(k), ~Begin(k) PROVE ListedInv'
  <2> SUFFICES ASSUME failures' = 0, Serial' PROVE ListedInv'
    BY DEF ListedInv
  <2>1. ~Fail(k) /\ ~Resend(k) /\ failures = 0
    <3>1. failures \in Nat
      BY DEF LinkInv, TypeOK
    <3>2. ~Fail(k) /\ ~Resend(k)
      BY <3>1 DEF Fail, Resend
    <3>. QED
      BY <1>3, <3>2 DEF RequestStep, GetToResolve, GetToManage, Create, MemoryDelete, MemoryUpdate,
           MemoryIncrVisit, Point, HeadObject, PutUpdate, FindOwner, Remove, Unpoint, ReadVisit, PutVisit
  <2>2. ~(MemoryDelete(k) \/ MemoryUpdate(k) \/ MemoryIncrVisit(k))
    BY DEF MemoryDelete, MemoryUpdate, MemoryIncrVisit
  <2>3. CASE GetToResolve(k) \/ GetToManage(k)
    <3>1. Keeps(k) /\ req'[k].pc # "new"
      BY <2>3, FinishFields, GotoFields, FoundFields, CarriesFields DEF GetToResolve, GetToManage
    <3>. QED
      BY <2>1, <2>3, <3>1, SerialBefore, GetListed DEF Keeps
  <2>4. CASE Create(k)
    <3>1. CASE Keeps(k) /\ req'[k].pc # "new"
      BY <2>1, <2>4, <3>1, SerialBefore, CreateListed DEF Keeps
    <3>2. ASSUME NEW d \in Codes,
                 req' = [req EXCEPT ![k].code = d, ![k].left = @ - 1, ![k].since = Len(log[d])]
          PROVE  ListedInv'
      <4>1. /\ req'[k].pc = "create" /\ req'[k].after = req[k].after
            /\ \A j \in Requests \ {k} : req'[j] = req[j]
        BY <2>4, <3>2, RedrawFields DEF Create
      <4>. QED
        BY <2>1, <2>4, <4>1, SerialBefore, CreateListed
    <3>3. ASSUME NEW link, Created(k, link) PROVE ListedInv'
      BY <3>1, <3>3, GotoFields, FinishFields DEF Created
    <3>4. ASSUME NEW a, Finish(k, a) PROVE ListedInv'
      BY <3>1, <3>4, FinishFields
    <3>. QED
      BY <2>4, <3>2, <3>3, <3>4, Zenon DEF Create
  <2>5. CASE Point(k) \/ HeadObject(k) \/ PutUpdate(k) \/ FindOwner(k) \/ Remove(k)
             \/ Unpoint(k) \/ ReadVisit(k) \/ PutVisit(k)
    <3>1. Keeps(k) /\ req'[k].pc # "new"
      BY <2>5, DeletedFields, FinishFields, RedirectFields, GotoFields, CarriesFields
         DEF Point, HeadObject, PutUpdate, FindOwner, Remove, Unpoint, ReadVisit, PutVisit
    <3>. QED
      BY <2>1, <2>5, <3>1, SerialBefore, S3Listed DEF Keeps
  <2>. QED
    BY <1>3, <2>1, <2>2, <2>3, <2>4, <2>5 DEF RequestStep
<1>. QED
  BY <1>1, <1>2, <1>3 DEF Next, Tick, vars

LEMMA ListedInit == Init => ListedInv
<1> SUFFICES ASSUME Init PROVE ListedInv
  OBVIOUS
<1>1. \A k \in Requests : req[k].pc = "new"
  BY DEF Init, NewRequest
<1>2. \A c \in Codes, u \in Users : Latest(c) # Absent /\ Latest(c).owner = u => <<u, c>> \in ptr
  BY DEF Init
<1>. QED
  BY <1>1, <1>2 DEF ListedInv

\* Theorem S3ListsOwnedLinks: over the S3 store a user's list has all the links the
\* user owns whenever requests came one after another and none failed, whatever they
\* were: every owned link has its pointer once the request that made it has ended.
THEOREM S3ListsOwnedLinks ==
    ASSUME Backend = "s3" PROVE Spec => []OwnedLinksListed
<1>1. Init => LinkInv /\ Stages /\ ListedInv
  BY InitInv, StagesInit, ListedInit
<1>2. LinkInv /\ Stages /\ ListedInv /\ [Next]_vars => (LinkInv /\ Stages /\ ListedInv)'
  BY NextInv, StagesInv, ListedStep
<1>3. Stages /\ ListedInv => OwnedLinksListed
  <2> SUFFICES ASSUME Stages, ListedInv, failures = 0,
                      \A k \in Requests : req[k].pc \in {"new", "done"},
                      \A j, k \in Requests : j # k /\ req[j].pc = "done" /\ req[k].pc = "done"
                                                => ~Overlapped(j, k),
                      NEW c \in Codes, NEW u \in Users, Latest(c) # Absent, Latest(c).owner = u
               PROVE  c \in ListByOwner(u)
    BY DEF OwnedLinksListed
  <2>1. Serial
    BY DEF Serial
  <2>2. <<u, c>> \in ptr
    BY <2>1 DEF ListedInv
  <2>. QED
    BY <2>2 DEF ListByOwner
<1>. QED
  BY <1>1, <1>2, <1>3, PTL DEF Spec

-------------------------------------------------------------------------------
(* What a request over the memory store found, in order                    *)

\* The places in the history of its link that a request may have seen.
Span(k) == req[k].since .. Len(log[req[k].code])

\* A link that could be resolved by a request that began at time t.
Servable(v, t) == v # Absent /\ ~v.disabled /\ (v.expires = Never \/ t <= v.expires)

Manageable(v, u) == v # Absent /\ MayManage(v, u)

\* A request that began at time t found a link that could be resolved before what it
\* shows, writes what its caller may manage, and removed what its caller could.
Path(k, t) ==
    LET r == req[k]
        h == log[r.code]
    IN
    /\ r.pc = "incr" => \E i \in Span(k) : Servable(h[i], t) /\ r.saw = h[i]
    /\ Answered(k, "found") => \E i, j \in Span(k) :
         i <= j /\ Servable(h[i], t) /\ h[j] # Absent /\ r.saw = h[j]
    /\ r.pc = "update" \/ (Answered(k, "ok") /\ r.op \in Editing) => Manageable(r.put, r.by)
    /\ Answered(k, "ok") /\ r.op = "delete_as" => \E i, j \in Span(k) :
         i < j /\ Manageable(h[i], r.by) /\ h[j] = Absent

LEMMA SpanGrows ==
    ASSUME LinkInv, LogStep, NEW k \in Requests, req[k].pc # "new",
           req'[k].code = req[k].code, req'[k].since = req[k].since, NEW c, c = req[k].code
    PROVE  /\ Span(k) \subseteq Span(k)' /\ Span(k) \subseteq Nat /\ Span(k)' \subseteq Nat
           /\ Len(log[c]) \in Span(k) /\ Len(log'[c]) \in Span(k)'
           /\ \A i \in Span(k) : i <= Len(log[c]) /\ log'[c][i] = log[c][i]
<1>1. c \in Codes /\ req[k].since \in 1 .. Len(log[c])
  BY RequestType DEF RequestOK
<1>2. /\ Len(log[c]) \in Nat /\ Len(log'[c]) \in Nat
      /\ Len(log'[c]) >= Len(log[c]) /\ \A i \in 1 .. Len(log[c]) : log'[c][i] = log[c][i]
  BY <1>1, LogGrows DEF LinkInv
<1>3. Span(k) = req[k].since .. Len(log[c]) /\ Span(k)' = req[k].since .. Len(log'[c])
  BY DEF Span
<1>. QED
  BY <1>1, <1>2, <1>3

\* A request whose state does not change.
LEMMA PathStays ==
    ASSUME LinkInv, LogStep, NEW k \in Requests, req[k].pc # "new", req'[k] = req[k],
           NEW t, Path(k, t)
    PROVE  Path(k, t)'
<1>1. Span(k) \subseteq Span(k)' /\ \A i \in Span(k) : log'[req[k].code][i] = log[req[k].code][i]
  BY SpanGrows
<1>. QED
  BY <1>1 DEF Path, Answered

\* One that goes on.
LEMMA PathStep ==
    ASSUME Backend = "memory", LinkInv, Stages, NEW k \in Requests, RequestStep(k), LogStep,
           req[k].pc # "new", req[k].left = 1, NEW t \in Nat, t <= now, Path(k, t)
    PROVE  Path(k, t)'
<1> DEFINE c == req[k].code
           h == log[c]
           new == log'[c]
           v == Latest(c)
           n == Len(h)
<1>0. /\ Keeps(k) /\ now \in Nat /\ v \in Values /\ c \in Codes /\ RequestOK(k)
      /\ (BeyondCheck(k) => Authorised(k))
  BY MemoryKeeps, RequestType DEF LinkInv, TypeOK
<1>1. /\ Span(k) \subseteq Span(k)' /\ n \in Span(k) /\ Len(new) \in Span(k)'
      /\ Span(k) \subseteq Nat /\ Span(k)' \subseteq Nat
      /\ \A i \in Span(k) : i <= n /\ new[i] = h[i]
      /\ h[n] = v
  BY <1>0, SpanGrows DEF Keeps, Latest
<1>2. req'[k].code = c /\ req'[k].op = req[k].op /\ req'[k].by = req[k].by
  BY <1>0 DEF Keeps
<1>3. ASSUME NEW x \in Values, WriteObject(c, x)
      PROVE  Len(new) = n + 1 /\ new[Len(new)] = x
  <2>1. log' = [log EXCEPT ![c] = Append(log[c], x)] /\ log \in [Codes -> Seq(Values)]
    BY <1>3 DEF WriteObject, LinkInv, TypeOK
  <2>2. new = Append(h, x) /\ h \in Seq(Values)
    BY <1>0, <2>1
  <2>. QED
    BY <2>2
<1>12. /\ new = log'[req'[k].code] /\ h = log[req[k].code] /\ c = req[k].code
       /\ v = Latest(c)
  BY <1>2
<1> HIDE DEF c, n, v, h, new
<1>4. ASSUME req'[k].pc \notin {"incr", "update"},
             ~(req'[k].pc = "done" /\ req'[k].answer \in {"ok", "found"})
      PROVE  Path(k, t)'
  BY <1>4 DEF Path, Answered
<1>5. ASSUME NEW a, a \notin {"ok", "found"}, Finish(k, a) \/ Deleted(k, a) PROVE Path(k, t)'
  BY <1>4, <1>5, FinishFields, DeletedFields
<1>6. ASSUME Goto(k, "delete") PROVE Path(k, t)'
  BY <1>4, <1>6, GotoFields
<1>7. CASE GetToResolve(k)
  <2>1. ASSUME v # Absent, ~Expired(v), ~v.disabled,
               req' = [req EXCEPT ![k].pc = "incr", ![k].saw = v]
        PROVE  Path(k, t)'
    <3>1. req'[k].pc = "incr" /\ req'[k].saw = v
      BY <2>1, FoundFields
    <3>2. Servable(v, t)
      <4>1. v.expires \in Int
        BY <1>0, <2>1 DEF Values, Records
      <4>. QED
        BY <1>0, <2>1, <4>1 DEF Servable, Expired
    <3>3. n \in Span(k)' /\ new[n] = v
      BY <1>1
    <3>. QED
      BY <1>12, <3>1, <3>2, <3>3 DEF Path, Answered
  <2>. QED
    BY <1>5, <1>6, <1>7, <1>12, <2>1 DEF GetToResolve
<1>8. CASE GetToManage(k)
  <2>1. ASSUME v # Absent, MayManage(v, req[k].by), req[k].op # "delete_as",
               NEW p \in PatchedBy(req[k].op, v),
               req' = [req EXCEPT ![k].pc = "update", ![k].put = p]
        PROVE  Path(k, t)'
    <3>6. req' = [req EXCEPT ![k].pc = "update", ![k].put = p]
      BY <2>1
    <3>7. req \in [Requests -> RequestStates]
      BY RequestType
    <3>1. req'[k].pc = "update" /\ req'[k].put = p
      BY <3>6, <3>7 DEF RequestStates
    <3>2. req[k].op \in Editing /\ v \in Records
      BY <1>0, <1>8, <2>1 DEF GetToManage, RequestOK, Managing, Editing, Values
    <3>3. p.owner = v.owner
      BY <2>1, <3>2, PatchKeepsOwner
    <3>4. p # Absent
      <4>1. p \in Records
        BY <1>0, <2>1, <3>2, PatchedByKeeps DEF Managing, Editing
      <4>. QED
        BY <4>1, LinksAssumption
    <3>5. Manageable(p, req'[k].by)
      BY <1>2, <2>1, <3>3, <3>4 DEF Manageable, MayManage
    <3>. QED
      BY <3>1, <3>5 DEF Path, Answered
  <2>. QED
    BY <1>5, <1>6, <1>8, <1>12, <2>1 DEF GetToManage
<1>9. CASE Create(k)
  <2>1. req[k].op \in Shortening
    BY <1>0, <1>9 DEF Create, RequestOK
  <2>2. req'[k].op \notin Editing \cup {"delete_as"}
    BY <1>2, <2>1 DEF Shortening, Editing
  <2>3. req'[k].pc = "done" /\ req'[k].answer # "found"
    BY <1>9, FinishFields DEF Create, Created
  <2>. QED
    BY <2>2, <2>3 DEF Path, Answered
<1>10. CASE MemoryDelete(k)
  <2>1. req[k].pc = "delete" /\ req[k].op \in Removers
    BY <1>10 DEF MemoryDelete, Stages, Stage
  <2>2. CASE Deleted(k, "not_found")
    BY <1>5, <2>2
  <2>3. CASE Deleted(k, "ok") /\ WriteObject(c, Absent)
    <3>1. req'[k].pc = "done" /\ req'[k].answer \in {"ok", "not_found"}
      BY <2>3, DeletedFields
    <3>2. CASE req[k].op # "delete_as"
      BY <1>2, <2>1, <3>1, <3>2 DEF Path, Answered, Removers, Editing
    <3>3. CASE req[k].op = "delete_as"
      <4>1. Authorised(k)
        BY <1>0, <2>1, <3>3 DEF BeyondCheck, Managing
      <4>2. PICK i \in Span(k) : Permits(k, log[c][i])
        BY <1>12, <4>1 DEF Authorised, Span
      <4>3. Manageable(h[i], req'[k].by)
        BY <1>2, <3>3, <4>2 DEF Permits, Manageable, h
      <4>4. Len(new) = n + 1 /\ new[Len(new)] = Absent
        BY <1>3, <2>3 DEF Values
      <4>5. i \in Span(k)' /\ Len(new) \in Span(k)' /\ i < Len(new) /\ new[i] = h[i]
        BY <1>1, <4>4
      <4>. QED
        BY <1>2, <1>12, <3>1, <3>3, <4>3, <4>4, <4>5 DEF Path, Answered, Editing
    <3>. QED
      BY <3>2, <3>3
  <2>. QED
    BY <1>10, <1>12, <2>2, <2>3 DEF MemoryDelete
<1>11. CASE MemoryUpdate(k)
  <2>1. CASE Finish(k, "not_found")
    BY <1>5, <2>1
  <2>2. CASE Finish(k, "ok")
    <3>1. req'[k].pc = "done" /\ req'[k].answer = "ok" /\ req'[k].put = req[k].put
      BY <2>2, FinishFields
    <3>2. req[k].op \in Editing /\ Manageable(req[k].put, req[k].by)
      BY <1>11 DEF MemoryUpdate, Stages, Stage, Path
    <3>. QED
      BY <1>2, <3>1, <3>2 DEF Path, Answered, Editing
  <2>. QED
    BY <1>11, <2>1, <2>2 DEF MemoryUpdate
<1>13. CASE MemoryIncrVisit(k)
  <2>1. PICK i \in Span(k) : Servable(h[i], t) /\ req[k].saw = h[i]
    BY <1>12, <1>13 DEF MemoryIncrVisit, Path
  <2>2. i \in Span(k)' /\ new[i] = h[i] /\ i <= n /\ i \in Nat /\ n \in Nat
    BY <1>1
  <2>3. CASE Redirect(k, req[k].saw)
    <3>1. req'[k].pc = "done" /\ req'[k].answer = "found" /\ req'[k].saw = h[i]
      BY <2>1, <2>3, RedirectFields
    <3>2. h[i] # Absent /\ i <= i
      BY <2>1, <2>2 DEF Servable
    <3>. QED
      BY <1>12, <2>1, <2>2, <3>1, <3>2 DEF Path, Answered
  <2>4. ASSUME NEW x \in Values, x # Absent, WriteObject(c, x), Redirect(k, x)
        PROVE  Path(k, t)'
    <3>1. req'[k].pc = "done" /\ req'[k].answer = "found" /\ req'[k].saw = x
      BY <2>4, RedirectFields
    <3>2. Len(new) = n + 1 /\ new[Len(new)] = x
      BY <1>3, <2>4
    <3>3. Len(new) \in Span(k)' /\ i <= Len(new)
      BY <1>1, <2>2, <3>2
    <3>. QED
      BY <1>12, <2>1, <2>2, <2>4, <3>1, <3>2, <3>3 DEF Path, Answered
  <2>. QED
    BY <1>0, <1>12, <1>13, <2>3, <2>4, CountedType DEF MemoryIncrVisit
<1>. QED
  BY <1>7, <1>8, <1>9, <1>10, <1>11, <1>13, MemoryStep DEF Next, Begin

\* One that begins.
LEMMA PathBegins ==
    ASSUME LinkInv, NEW k \in Requests, Begin(k), NEW t
    PROVE  Path(k, t)'
<1>1. req'[k].pc \notin {"incr", "update", "done"}
  BY BeginFields
<1>. QED
  BY <1>1 DEF Path, Answered

===============================================================================
