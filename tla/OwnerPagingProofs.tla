-------------------------- MODULE OwnerPagingProofs --------------------------
(***************************************************************************)
(* Pages neither overlap nor leave gaps, whatever happens to links and     *)
(* rows while a client turns them.                                         *)
(*                                                                         *)
(* A position has a rank in a set of positions: how many of it precede     *)
(* it.  The foremost of a set are those of the least ranks, so that what a *)
(* query leaves out lies behind all it returns.  The invariant follows the *)
(* list in two steps: all that is steady up to the token has been given,   *)
(* and all between the token and the cursor is on the page under way.      *)
(***************************************************************************)
EXTENDS OwnerPaging, TLAPS, FiniteSetTheorems

-------------------------------------------------------------------------------
(* Positions in their order                                                *)

\* Positions, and the cursor before the first page.
Cursors == [born : Int, code : Nat]

LEMMA PositionsAreCursors == Positions \subseteq Cursors /\ Start \in Cursors /\ Start \notin Positions
  BY PagingAssumption DEF Positions, Cursors, Start, Codes

\* Precedes is a strict total order.
LEMMA PrecedesOrders ==
    \A p, q \in Cursors :
        /\ p = q \/ Precedes(p, q) \/ Precedes(q, p)
        /\ ~(Precedes(p, q) /\ Precedes(q, p)) /\ ~Precedes(p, p)
        /\ \A r \in Cursors : Precedes(p, q) /\ Precedes(q, r) => Precedes(p, r)
  BY DEF Precedes, Cursors

\* How many of a set precede p.
Rank(p, S) == Cardinality({q \in S : Precedes(q, p)})

Chain(S) == S \subseteq Positions /\ IsFiniteSet(S)

LEMMA RankType ==
    ASSUME NEW S, Chain(S), NEW p \in S
    PROVE  Rank(p, S) \in Nat /\ Rank(p, S) < Cardinality(S) /\ Cardinality(S) \in Nat
<1> DEFINE B == {q \in S : Precedes(q, p)}
<1>1. B \in SUBSET S /\ B # S
  <2>1. p \notin B
    BY PrecedesOrders, PositionsAreCursors DEF Chain
  <2> QED
    BY <2>1
<1>2. IsFiniteSet(B) /\ Cardinality(B) <= Cardinality(S) /\ Cardinality(B) # Cardinality(S)
  <2>1. IsFiniteSet(S)
    BY DEF Chain
  <2> HIDE DEF B
  <2> QED
    BY <1>1, <2>1, FS_Subset
<1>3. Cardinality(B) \in Nat /\ Cardinality(S) \in Nat
  BY <1>2, FS_CardinalityType DEF Chain
<1> QED
  BY <1>2, <1>3 DEF Rank

LEMMA RankGrows ==
    ASSUME NEW S, Chain(S), NEW p \in S, NEW q \in S
    PROVE  /\ Precedes(p, q) <=> Rank(p, S) < Rank(q, S)
           /\ Rank(p, S) = Rank(q, S) => p = q
<1>1. ASSUME NEW x \in S, NEW y \in S, Precedes(x, y) PROVE Rank(x, S) < Rank(y, S)
  <2> DEFINE B == {z \in S : Precedes(z, x)}
             C == {z \in S : Precedes(z, y)}
  <2>1. B \subseteq C
    BY <1>1, PrecedesOrders, PositionsAreCursors DEF Chain
  <2>2. x \in C /\ x \notin B
    BY <1>1, PrecedesOrders, PositionsAreCursors DEF Chain
  <2>3. IsFiniteSet(C)
    BY FS_Subset DEF Chain
  <2> HIDE DEF B, C
  <2>4. IsFiniteSet(B) /\ Cardinality(B) <= Cardinality(C) /\ Cardinality(B) # Cardinality(C)
    BY <2>1, <2>2, <2>3, FS_Subset
  <2>5. Cardinality(B) \in Nat /\ Cardinality(C) \in Nat
    BY <2>3, <2>4, FS_CardinalityType
  <2> QED
    BY <2>4, <2>5 DEF Rank, B, C
<1>2. p = q \/ Precedes(p, q) \/ Precedes(q, p)
  BY PrecedesOrders, PositionsAreCursors DEF Chain
<1>3. Rank(p, S) \in Nat /\ Rank(q, S) \in Nat
  BY RankType
<1>4. Precedes(p, q) => Rank(p, S) < Rank(q, S)
  BY <1>1
<1>5. Precedes(q, p) => Rank(q, S) < Rank(p, S)
  BY <1>1
<1> DEFINE m == Rank(p, S)
           n == Rank(q, S)
<1>6. p = q => m = n
  OBVIOUS
<1> HIDE DEF m, n
<1>7. m < n => Precedes(p, q)
  BY <1>2, <1>3, <1>5, <1>6 DEF m, n
<1>8. m = n => p = q
  BY <1>2, <1>3, <1>4, <1>5 DEF m, n
<1> QED
  BY <1>4, <1>7, <1>8 DEF m, n

\* Ranks count a set from 0: as many as it has members.
LEMMA RankOnto ==
    ASSUME NEW S, Chain(S), NEW k \in Nat, k < Cardinality(S)
    PROVE  \E p \in S : Rank(p, S) = k
<1> DEFINE n == Cardinality(S)
           T == 0 .. n - 1
           f == [p \in S |-> Rank(p, S)]
<1>1. n \in Nat
  BY FS_CardinalityType DEF Chain
<1> HIDE DEF n
<1>2. IsFiniteSet(T) /\ Cardinality(T) = n
  <2>1. n - 1 \in Int /\ (0 > n - 1 <=> n = 0)
    BY <1>1
  <2>2. IsFiniteSet(T) /\ Cardinality(T) = IF 0 > n - 1 THEN 0 ELSE n - 1 - 0 + 1
    BY <2>1, FS_Interval
  <2> QED
    BY <1>1, <2>1, <2>2
<1>3. f \in Injection(S, T)
  <2>1. \A p \in S : Rank(p, S) \in T
    BY <1>1, RankType DEF n
  <2>2. \A p, q \in S : Rank(p, S) = Rank(q, S) => p = q
    BY RankGrows
  <2> QED
    BY <2>1, <2>2 DEF Injection, IsInjective
<1> HIDE DEF T, f
<1>4. f \in Surjection(S, T)
  BY <1>2, <1>3, FS_Injection DEF n
<1>5. \A t \in T : \E p \in S : f[p] = t
  BY <1>4 DEF Surjection
<1>6. k \in T
  BY <1>1 DEF T, n
<1> QED
  BY <1>5, <1>6 DEF f

\* The n foremost are those of rank below n, and they are as many as there can be.
LEMMA ForemostIs ==
    ASSUME NEW S, Chain(S), NEW n \in Nat
    PROVE  /\ Foremost(n, S) = {p \in S : Rank(p, S) < n} /\ Chain(Foremost(n, S))
           /\ Cardinality(Foremost(n, S)) \in Nat /\ Cardinality(Foremost(n, S)) <= n
           /\ Cardinality(Foremost(n, S)) < n => Foremost(n, S) = S
           /\ n > 0 /\ S # {} => Foremost(n, S) # {}
<1> DEFINE F == Foremost(n, S)
           T == 0 .. n - 1
           f == [p \in F |-> Rank(p, S)]
<1>1. F = {p \in S : Rank(p, S) < n}
  BY DEF Foremost, Rank
<1>2. IsFiniteSet(T) /\ Cardinality(T) = n
  BY FS_Interval
<1> HIDE DEF F
<1>3. f \in Injection(F, T)
  <2>1. \A p \in F : Rank(p, S) \in T
    BY <1>1, RankType
  <2>2. \A p, q \in F : Rank(p, S) = Rank(q, S) => p = q
    BY <1>1, RankGrows
  <2> QED
    BY <2>1, <2>2 DEF Injection, IsInjective
<1>4. /\ IsFiniteSet(F) /\ Cardinality(F) <= n
      /\ Cardinality(F) = n <=> f \in Surjection(F, T)
  <2> HIDE DEF f, T
  <2> QED
    BY <1>2, <1>3, FS_Injection
<1>5. Cardinality(F) \in Nat /\ Chain(F)
  BY <1>1, <1>4, FS_CardinalityType DEF Chain
<1>6. ASSUME Cardinality(F) < n PROVE F = S
  <2> SUFFICES ASSUME F # S PROVE FALSE
    OBVIOUS
  <2>1. PICK p \in S : ~(Rank(p, S) < n)
    BY <1>1
  <2>2. Cardinality(S) \in Nat /\ n < Cardinality(S)
    BY <2>1, RankType
  <2>3. \A t \in T : \E q \in F : f[q] = t
    <3> SUFFICES ASSUME NEW t \in T PROVE \E q \in F : f[q] = t
      OBVIOUS
    <3>1. PICK q \in S : Rank(q, S) = t
      BY <2>2, RankOnto
    <3> QED
      BY <1>1, <3>1
  <2>4. f \in Surjection(F, T)
    <3>1. f \in [F -> T]
      BY <1>3 DEF Injection
    <3> QED
      BY <2>3, <3>1 DEF Surjection
  <2> QED
    BY <1>4, <1>5, <1>6, <2>4
<1>7. ASSUME n > 0, S # {} PROVE F # {}
  <2>1. Cardinality(S) \in Nat /\ Cardinality(S) # 0
    BY <1>7, FS_CardinalityType, FS_EmptySet DEF Chain
  <2>2. PICK p \in S : Rank(p, S) = 0
    BY <2>1, RankOnto
  <2> QED
    BY <1>1, <1>7, <2>2
<1> QED
  BY <1>1, <1>4, <1>5, <1>6, <1>7 DEF F

\* The hindmost of a set follows all others.
LEMMA HindmostIs ==
    ASSUME NEW S, Chain(S), S # {}
    PROVE  Hindmost(S) \in S /\ \A q \in S : q = Hindmost(S) \/ Precedes(q, Hindmost(S))
<1>1. Cardinality(S) \in Nat /\ Cardinality(S) # 0
  BY FS_CardinalityType, FS_EmptySet DEF Chain
<1>2. PICK p \in S : Rank(p, S) = Cardinality(S) - 1
  BY <1>1, RankOnto
<1>3. ASSUME NEW q \in S PROVE q = p \/ Precedes(q, p)
  <2>1. Rank(q, S) \in Nat /\ Rank(q, S) < Cardinality(S)
    BY RankType
  <2>2. Rank(q, S) = Rank(p, S) \/ Rank(q, S) < Rank(p, S)
    BY <1>1, <1>2, <2>1
  <2> QED
    BY <2>2, RankGrows
<1>4. \E x \in S : \A q \in S : q = x \/ Precedes(q, x)
  BY <1>3
<1> QED
  BY <1>4 DEF Hindmost

\* A set in order: each member has its place.
LEMMA OrderedIs ==
    ASSUME NEW S, Chain(S)
    PROVE  /\ Cardinality(S) \in Nat /\ Ordered(S) \in [1 .. Cardinality(S) -> S]
           /\ \A i, j \in 1 .. Cardinality(S) : i < j => Precedes(Ordered(S)[i], Ordered(S)[j])
           /\ \A p \in S : \E i \in 1 .. Cardinality(S) : Ordered(S)[i] = p
<1>0. Cardinality(S) \in Nat
  BY FS_CardinalityType DEF Chain
<1>1. ASSUME NEW i \in 1 .. Cardinality(S)
      PROVE  Ordered(S)[i] \in S /\ Rank(Ordered(S)[i], S) = i - 1
  <2> DEFINE F == Foremost(i, S)
             h == Hindmost(F)
  <2>0. i \in Nat /\ i - 1 \in Nat /\ i - 1 < Cardinality(S)
    BY <1>0
  <2>1. PICK p \in S : Rank(p, S) = i - 1
    BY <2>0, RankOnto
  <2>2. F = {x \in S : Rank(x, S) < i} /\ Chain(F)
    BY <2>0, ForemostIs
  <2>3. p \in F
    BY <2>0, <2>1, <2>2
  <2> HIDE DEF F
  <2>4. h \in F /\ (p = h \/ Precedes(p, h))
    BY <2>2, <2>3, HindmostIs
  <2>5. Ordered(S)[i] = h
    BY DEF Ordered, F
  <2> HIDE DEF h
  <2>6. h \in S /\ Rank(h, S) < i /\ Rank(h, S) \in Nat
    BY <2>2, <2>4, RankType
  <2>7. Rank(h, S) = i - 1
    BY <2>0, <2>1, <2>4, <2>6, RankGrows
  <2> QED
    BY <2>5, <2>6, <2>7
<1>2. Ordered(S) \in [1 .. Cardinality(S) -> S]
  BY <1>1 DEF Ordered
<1>3. ASSUME NEW i \in 1 .. Cardinality(S), NEW j \in 1 .. Cardinality(S), i < j
      PROVE  Precedes(Ordered(S)[i], Ordered(S)[j])
  <2>1. i - 1 < j - 1
    BY <1>0, <1>3
  <2> QED
    BY <1>1, <2>1, RankGrows
<1>4. ASSUME NEW p \in S PROVE \E i \in 1 .. Cardinality(S) : Ordered(S)[i] = p
  <2>1. Rank(p, S) \in Nat /\ Rank(p, S) < Cardinality(S)
    BY RankType
  <2> DEFINE i == Rank(p, S) + 1
  <2>2. i \in 1 .. Cardinality(S) /\ i - 1 = Rank(p, S)
    BY <1>0, <2>1
  <2>3. Ordered(S)[i] \in S /\ Rank(Ordered(S)[i], S) = i - 1
    BY <1>1, <2>2
  <2> HIDE DEF i
  <2>4. Ordered(S)[i] = p
    BY <2>2, <2>3, RankGrows
  <2> QED
    BY <2>2, <2>4
<1> QED
  BY <1>0, <1>2, <1>3, <1>4

-------------------------------------------------------------------------------
(* The inductive invariant                                                 *)

Pos(c) == Position(Latest(c).born, c)

\* A link has been v.
Had(c, v) == \E j \in 1 .. Len(log[c]) : log[c][j] = v

\* Positions increase along a list.
Sorted(s) == \A i, j \in 1 .. Len(s) : i < j => Precedes(s[i].at, s[j].at)

SpaceOf(s) == IF s = "index" THEN LinkSpace ELSE "legacy"

\* Between requests nothing of one is left; a token leads on.
StepInv ==
    /\ step \in {"ask", "done"} =>
           after = Start /\ refs = {} /\ recs = NothingRead /\ page = <<>> /\ scanned = 0
    /\ step = "query" => refs = {} /\ recs = NothingRead
    /\ step = "done" => token = NoToken
    /\ all /\ step = "ask" => token = NoToken
    /\ all /\ source # "index" => token = NoToken
    /\ source # "index" => page = <<>>
    /\ token # NoToken => token.after \in Positions

\* What was listed came from the source of the token, or of the request.
SourceInv ==
    /\ \A i \in 1 .. Len(page) : page[i].source = source
    /\ \A i \in 1 .. Len(got) :
          /\ got[i].source = "memory" <=> source = "memory"
          /\ step = "done" => got[i].source = source
          /\ step # "done" => token # NoToken /\ SpaceOf(got[i].source) = token.space
    /\ step \in {"query", "hydrate"} => token = NoToken \/ token.space = Space

\* What is listed was so.
OwnInv ==
    /\ \A c \in DOMAIN recs : Had(c, recs[c])
    /\ \A i \in 1 .. Len(page) : Live(page[i].link) /\ Had(page[i].at.code, page[i].link)
    /\ OnlyOwnLinks

\* Pages given lie before the token, the page under way between it and the cursor, and
\* the candidates behind that.
CursorInv ==
    /\ step # "done" => \A i \in 1 .. Len(got) : ~Follows(got[i].at, token.after)
    /\ step \in {"query", "hydrate"} /\ token # NoToken =>
           after # Start /\ (after = token.after \/ Precedes(token.after, after))
    /\ \A i \in 1 .. Len(page) :
           Follows(page[i].at, token.after) /\ ~Follows(page[i].at, after)
    /\ Sorted(page)
    /\ EachPositionOnce
    /\ source = "index" => \A p \in refs : Follows(p, after)
    /\ source = "index" => Cardinality(refs) <= Limit
    /\ step = "hydrate" /\ source = "index" => refs # {}
    /\ \A p, q \in refs : p.code = q.code => p = q

\* Links that were there all the time are on the pages given, on the one under way, or
\* still ahead.
SteadyInv ==
    /\ \A c \in steady : Listable(c)
    /\ step = "done" => \A c \in steady : \E i \in 1 .. Len(got) : got[i].at.code = c
    /\ step # "done" => \A c \in steady :
           ~Follows(Pos(c), token.after) => \E i \in 1 .. Len(got) : got[i].at.code = c
    /\ step \in {"query", "hydrate"} => \A c \in steady :
           Follows(Pos(c), token.after) /\ ~Follows(Pos(c), after) =>
               \E i \in 1 .. Len(page) : page[i].at.code = c
    /\ step = "hydrate" => \A c \in steady \cap DOMAIN recs :
           Live(recs[c]) /\ recs[c].born = Latest(c).born
    /\ step = "hydrate" /\ source = "index" => \A c \in steady :
           Follows(Pos(c), after) => \/ Pos(c) \in refs
                                     \/ Cardinality(refs) = Limit /\ \A p \in refs : Precedes(p, Pos(c))
    /\ step = "hydrate" /\ source # "index" => \A c \in steady : \E p \in refs : p.code = c

PagingInv == TypeOK /\ StepInv /\ SourceInv /\ OwnInv /\ CursorInv /\ SteadyInv

LEMMA FollowsFacts ==
    ASSUME NEW p \in Positions, NEW a \in Positions \cup {Start}
    PROVE  /\ Follows(p, Start) /\ p # Start
           /\ \A q \in Positions : ~Follows(p, a) /\ Follows(q, a) => Precedes(p, q)
           /\ \A q \in Positions : Follows(q, a) /\ ~Follows(p, a) => ~Follows(p, q)
           /\ \A q \in Positions : ~Follows(p, q) <=> (p = q \/ Precedes(p, q))
           /\ \A q \in Positions : (q = a \/ Precedes(a, q)) /\ ~Follows(p, a) => ~Follows(p, q)
           /\ \A q \in Positions : (q = a \/ Precedes(a, q)) /\ Follows(p, q) => Follows(p, a)
<1>1. p \in Cursors /\ a \in Cursors /\ Positions \subseteq Cursors /\ p # Start
      /\ Start \notin Positions
  BY PositionsAreCursors
<1> QED
  BY <1>1, PrecedesOrders DEF Follows

\* Lists joined.
LEMMA Joined ==
    ASSUME NEW s \in Seq(Listed), NEW t \in Seq(Listed)
    PROVE  /\ s \o t \in Seq(Listed)
           /\ Len(s) \in Nat /\ Len(t) \in Nat /\ Len(s \o t) = Len(s) + Len(t)
           /\ \A i \in 1 .. Len(s) : i \in 1 .. Len(s \o t) /\ (s \o t)[i] = s[i]
           /\ \A i \in 1 .. Len(t) : Len(s) + i \in 1 .. Len(s \o t) /\ (s \o t)[Len(s) + i] = t[i]
           /\ \A i \in 1 .. Len(s \o t) :
                \/ i \in 1 .. Len(s) /\ (s \o t)[i] = s[i]
                \/ i - Len(s) \in 1 .. Len(t) /\ (s \o t)[i] = t[i - Len(s)] /\ i > Len(s)
  OBVIOUS

LEMMA ListedFields ==
    ASSUME NEW s \in Seq(Listed), NEW i \in 1 .. Len(s)
    PROVE  /\ s[i].at \in Positions /\ s[i].at.code \in Codes /\ s[i].source \in ReadSources
           /\ s[i].link \in Records
<1>1. s[i] \in Listed
  OBVIOUS
<1> QED
  BY <1>1 DEF Listed, Positions

\* Both joined in order.
LEMMA JoinedInOrder ==
    ASSUME NEW s \in Seq(Listed), NEW t \in Seq(Listed), Sorted(s), Sorted(t),
           \A i \in 1 .. Len(s), j \in 1 .. Len(t) : Precedes(s[i].at, t[j].at)
    PROVE  Sorted(s \o t)
<1> SUFFICES ASSUME NEW i \in 1 .. Len(s \o t), NEW j \in 1 .. Len(s \o t), i < j
             PROVE  Precedes((s \o t)[i].at, (s \o t)[j].at)
  BY DEF Sorted
<1>1. CASE i \in 1 .. Len(s) /\ j \in 1 .. Len(s)
  BY <1>1, Joined DEF Sorted
<1>2. CASE i \in 1 .. Len(s) /\ j > Len(s)
  BY <1>2, Joined
<1>3. CASE i > Len(s) /\ j > Len(s)
  <2> DEFINE m == i - Len(s)
             n == j - Len(s)
  <2>1. m \in 1 .. Len(t) /\ n \in 1 .. Len(t) /\ m < n
        /\ (s \o t)[i] = t[m] /\ (s \o t)[j] = t[n]
    BY <1>3, Joined
  <2> HIDE DEF m, n
  <2> QED
    BY <2>1 DEF Sorted
<1> QED
  BY <1>1, <1>2, <1>3, Joined

LEMMA SortedDistinct ==
    ASSUME NEW s \in Seq(Listed), Sorted(s), NEW i \in 1 .. Len(s), NEW j \in 1 .. Len(s), i # j
    PROVE  s[i].at # s[j].at
<1>1. i < j \/ j < i
  OBVIOUS
<1>2. Precedes(s[i].at, s[j].at) \/ Precedes(s[j].at, s[i].at)
  BY <1>1 DEF Sorted
<1>3. s[i].at \in Cursors
  BY ListedFields, PositionsAreCursors
<1> QED
  BY <1>2, <1>3, PrecedesOrders

-------------------------------------------------------------------------------
(* Answers                                                                 *)

\* What a request may answer: links of the source behind the token, all steady ones up
\* to the next.
Answerable(links, next) ==
    /\ links \in Seq(Listed)
    /\ \A i \in 1 .. Len(links) :
          /\ links[i].source = source /\ Follows(links[i].at, token.after)
          /\ Live(links[i].link) /\ Had(links[i].at.code, links[i].link)
    /\ \A i, j \in 1 .. Len(links) : i # j => links[i].at # links[j].at
    /\ (all /\ source # "index") \/ Sorted(links)
    /\ all /\ source # "index" => next = Start
    /\ \/ next = Start
       \/ /\ next \in Positions /\ Follows(next, token.after)
          /\ \A i \in 1 .. Len(links) : ~Follows(links[i].at, next)
    /\ \A c \in steady :
          Follows(Pos(c), token.after) /\ (next = Start \/ ~Follows(Pos(c), next)) =>
              \E i \in 1 .. Len(links) : links[i].at.code = c

LEMMA TokenFacts ==
    ASSUME PagingInv
    PROVE  /\ token.after \in Positions \cup {Start}
           /\ token = NoToken <=> token.after = Start
           /\ token = NoToken /\ step # "done" => got = <<>>
           /\ token # NoToken => token.space \in {LinkSpace, "legacy"}
<1>1. token # NoToken => token.after \in Positions /\ token.space \in {LinkSpace, "legacy"}
  BY DEF PagingInv, StepInv, TypeOK, Tokens
<1>2. NoToken.after = Start /\ Start \notin Positions
  BY PositionsAreCursors DEF NoToken
<1>3. ASSUME token = NoToken, step # "done" PROVE got = <<>>
  <2>1. \A i \in 1 .. Len(got) : ~Follows(got[i].at, Start)
    BY <1>2, <1>3 DEF PagingInv, CursorInv
  <2>2. got \in Seq(Listed)
    BY DEF PagingInv, TypeOK
  <2>3. 1 .. Len(got) = {}
    BY <2>1 DEF Follows
  <2>4. Len(got) \in Nat
    BY <2>2
  <2>5. Len(got) = 0
    <3>1. ~(1 \in 1 .. Len(got))
      BY <2>3
    <3> QED
      BY <2>4, <3>1
  <2> QED
    BY <2>2, <2>5
<1> QED
  BY <1>1, <1>2, <1>3

LEMMA PosTyped ==
    ASSUME PagingInv, NEW c \in steady
    PROVE  /\ Pos(c) \in Positions /\ c \in Codes /\ Live(Latest(c)) /\ Latest(c) \in Records
           /\ source = "index" => Pos(c) \in Candidates
<1>1. c \in Codes /\ Listable(c)
  BY DEF PagingInv, SteadyInv, TypeOK
<1>2. Latest(c) \in Values
  BY <1>1 DEF PagingInv, TypeOK, Latest
<1>3. Latest(c) \in Records /\ Latest(c).owner = User
  BY <1>1, <1>2 DEF Listable, Live, Values
<1>4. Latest(c).born \in Nat
  BY <1>3 DEF Records
<1>5. ASSUME source = "index" PROVE Pos(c) \in Candidates
  <2>1. row[c] = RefOf(Latest(c))
    BY <1>1, <1>5 DEF Listable
  <2>2. Latest(c) # Absent /\ User # NoOwner
    BY <1>1, PagingAssumption DEF Listable, Live
  <2>3. row[c] = [owner |-> User, born |-> Latest(c).born]
    BY <1>3, <2>1, <2>2 DEF RefOf
  <2>4. row[c] # Absent
    <3>1. row[c] \in Refs
      BY <1>3, <1>4, <2>2, <2>3, PagingAssumption DEF Records, Refs
    <3> QED
      BY <3>1, PagingAssumption
  <2> QED
    BY <1>1, <2>3, <2>4 DEF Candidates, Pos
<1> QED
  BY <1>1, <1>3, <1>4, <1>5 DEF Pos, Position, Positions, Listable

\* A batch has room for one candidate at least, and ends with the budget.
LEMMA LimitIs ==
    ASSUME NEW n \in 0 .. Budget - 1
    PROVE  LET m == Min({BatchMax, Size + 1, Budget - n})
           IN  m \in Nat /\ m >= 1 /\ m <= Budget - n
<1> DEFINE S == {BatchMax, Size + 1, Budget - n}
<1>1. BatchMax \in Nat /\ BatchMax >= 1 /\ Size \in Nat /\ Size >= 1
      /\ Budget - n \in Nat /\ Budget - n >= 1
  BY PagingAssumption
<1>2. \E x \in S : \A y \in S : x <= y
  BY <1>1
<1>3. Min(S) \in S /\ \A y \in S : Min(S) <= y
  BY <1>2 DEF Min
<1> QED
  BY <1>1, <1>3

\* What the client may have been given when the list goes on at next.
Extended(g, next) ==
    /\ g \in Seq(Listed)
    /\ \A i \in 1 .. Len(g) :
          /\ SpaceOf(g[i].source) = Space
          /\ g[i].source = "memory" <=> source = "memory"
          /\ token = NoToken => g[i].source = source
          /\ g[i].link.owner = User /\ ~g[i].link.expired
          /\ Had(g[i].at.code, g[i].link)
          /\ next # Start => ~Follows(g[i].at, next)
    /\ (all /\ source # "index") \/ Sorted(g)
    /\ \A i, j \in 1 .. Len(g) : i # j => g[i].at # g[j].at
    /\ \A c \in steady : next = Start \/ ~Follows(Pos(c), next) =>
          \E i \in 1 .. Len(g) : g[i].at.code = c

\* What an answer does to the list.
LEMMA AnswerGot ==
    ASSUME PagingInv, step \in {"query", "hydrate"}, NEW links, NEW next, Answerable(links, next),
           NEW all_links, all_links = got \o links
    PROVE  Extended(all_links, next)
<1>1. got \in Seq(Listed) /\ links \in Seq(Listed)
  BY DEF PagingInv, TypeOK, Answerable
<1>2. /\ all_links \in Seq(Listed)
      /\ Len(got) \in Nat /\ Len(links) \in Nat /\ Len(all_links) = Len(got) + Len(links)
      /\ \A i \in 1 .. Len(got) : i \in 1 .. Len(all_links) /\ all_links[i] = got[i]
      /\ \A i \in 1 .. Len(links) : Len(got) + i \in 1 .. Len(all_links)
                                    /\ all_links[Len(got) + i] = links[i]
      /\ \A i \in 1 .. Len(all_links) :
            \/ i \in 1 .. Len(got) /\ all_links[i] = got[i]
            \/ i - Len(got) \in 1 .. Len(links) /\ all_links[i] = links[i - Len(got)] /\ i > Len(got)
  BY <1>1, Joined
<1>3. /\ token.after \in Positions \cup {Start}
      /\ token = NoToken <=> token.after = Start
      /\ token = NoToken => got = <<>>
  BY TokenFacts
<1>4. \A i \in 1 .. Len(got) :
        /\ SpaceOf(got[i].source) = Space
        /\ got[i].source = "memory" <=> source = "memory"
        /\ got[i].link.owner = User /\ ~got[i].link.expired
        /\ Had(got[i].at.code, got[i].link)
        /\ ~Follows(got[i].at, token.after) /\ got[i].at \in Positions
  BY <1>1, ListedFields DEF PagingInv, SourceInv, OwnInv, OnlyOwnLinks, CursorInv, Had
<1>5. \A i \in 1 .. Len(links) :
        /\ links[i].source = source /\ SpaceOf(links[i].source) = Space
        /\ links[i].link.owner = User /\ ~links[i].link.expired
        /\ Had(links[i].at.code, links[i].link)
        /\ Follows(links[i].at, token.after) /\ links[i].at \in Positions
        /\ next # Start => ~Follows(links[i].at, next)
  BY <1>1, ListedFields DEF Answerable, Live, SpaceOf, Space
<1>6. next # Start => next \in Positions /\ Follows(next, token.after)
  BY DEF Answerable
<1>7. \A i \in 1 .. Len(got) : next # Start => ~Follows(got[i].at, next)
  BY <1>3, <1>4, <1>6, FollowsFacts
<1>8. \A i \in 1 .. Len(got), j \in 1 .. Len(links) : Precedes(got[i].at, links[j].at)
  BY <1>3, <1>4, <1>5, FollowsFacts
<1>9. (all /\ source # "index") \/ Sorted(all_links)
  <2> SUFFICES ASSUME ~(all /\ source # "index") PROVE Sorted(all_links)
    OBVIOUS
  <2>1. Sorted(links)
    BY DEF Answerable
  <2>2. Sorted(got)
    BY DEF PagingInv, CursorInv, EachPositionOnce, Sorted
  <2> QED
    BY <1>1, <1>8, <2>1, <2>2, JoinedInOrder
<1>10. ASSUME NEW i \in 1 .. Len(all_links), NEW j \in 1 .. Len(all_links), i # j
       PROVE  all_links[i].at # all_links[j].at
  <2>1. CASE ~(all /\ source # "index")
    BY <1>2, <1>9, <1>10, <2>1, SortedDistinct
  <2>2. CASE all /\ source # "index"
    <3>1. got = <<>>
      BY <1>3, <2>2 DEF PagingInv, StepInv
    <3>2. Len(got) = 0
      BY <3>1
    <3>3. /\ i \in 1 .. Len(links) /\ all_links[i] = links[i]
          /\ j \in 1 .. Len(links) /\ all_links[j] = links[j]
      BY <1>2, <3>2
    <3> QED
      BY <1>10, <3>3 DEF Answerable
  <2> QED
    BY <2>1, <2>2
<1>11. ASSUME NEW c \in steady, next = Start \/ ~Follows(Pos(c), next)
       PROVE  \E i \in 1 .. Len(all_links) : all_links[i].at.code = c
  <2>1. CASE Follows(Pos(c), token.after)
    <3>1. PICK i \in 1 .. Len(links) : links[i].at.code = c
      BY <1>11, <2>1 DEF Answerable
    <3> QED
      BY <1>2, <3>1
  <2>2. CASE ~Follows(Pos(c), token.after)
    <3>1. PICK i \in 1 .. Len(got) : got[i].at.code = c
      BY <2>2 DEF PagingInv, SteadyInv
    <3> QED
      BY <1>2, <3>1
  <2> QED
    BY <2>1, <2>2
<1>12. ASSUME NEW i \in 1 .. Len(all_links)
       PROVE  /\ SpaceOf(all_links[i].source) = Space
              /\ all_links[i].source = "memory" <=> source = "memory"
              /\ token = NoToken => all_links[i].source = source
              /\ all_links[i].link.owner = User /\ ~all_links[i].link.expired
              /\ Had(all_links[i].at.code, all_links[i].link)
              /\ next # Start => ~Follows(all_links[i].at, next)
  <2>1. CASE i \in 1 .. Len(got) /\ all_links[i] = got[i]
    <3>1. token # NoToken
      <4>1. got # <<>>
        BY <2>1
      <4> QED
        BY <1>3, <4>1
    <3> QED
      BY <1>4, <1>7, <2>1, <3>1
  <2>2. CASE i - Len(got) \in 1 .. Len(links) /\ all_links[i] = links[i - Len(got)]
    <3> DEFINE j == i - Len(got)
    <3>1. j \in 1 .. Len(links) /\ all_links[i] = links[j]
      BY <2>2
    <3> HIDE DEF j
    <3> QED
      BY <1>5, <3>1
  <2> QED
    BY <1>2, <2>1, <2>2
<1> QED
  BY <1>2, <1>9, <1>10, <1>11, <1>12 DEF Extended

LEMMA AnswerKeeps ==
    ASSUME PagingInv, step \in {"query", "hydrate"}, NEW links, NEW next,
           Answer(links, next), Answerable(links, next)
    PROVE  PagingInv'
<1> DEFINE g == got \o links
<1>0. /\ got' = g
      /\ step' = IF next = Start THEN "done" ELSE IF all THEN "query" ELSE "ask"
      /\ token' = IF next = Start THEN NoToken ELSE EncodeOwnerCursor(next)
      /\ after' = IF all THEN next ELSE Start
      /\ refs' = {} /\ recs' = NothingRead /\ page' = <<>> /\ scanned' = 0
      /\ UNCHANGED <<log, row, seen, ptr, all, source, steady, changes, failures>>
  BY DEF Answer, link_vars
<1>a. Extended(g, next)
  <2>1. g = got \o links
    OBVIOUS
  <2> HIDE DEF g
  <2> QED
    BY <2>1, AnswerGot
<1>1. /\ g \in Seq(Listed)
      /\ \A i \in 1 .. Len(g) :
                /\ SpaceOf(g[i].source) = Space
                /\ g[i].source = "memory" <=> source = "memory"
                /\ token = NoToken => g[i].source = source
                /\ g[i].link.owner = User /\ ~g[i].link.expired
                /\ Had(g[i].at.code, g[i].link)
                /\ next # Start => ~Follows(g[i].at, next)
      /\ (all /\ source # "index") \/ Sorted(g)
      /\ \A i, j \in 1 .. Len(g) : i # j => g[i].at # g[j].at
      /\ \A c \in steady : next = Start \/ ~Follows(Pos(c), next) =>
                \E i \in 1 .. Len(g) : g[i].at.code = c
  <2> HIDE DEF g
  <2> QED
    BY <1>a DEF Extended
<1> HIDE DEF g
<1>2. next = Start \/ next \in Positions
  BY DEF Answerable
<1>3. /\ NoToken.after = Start /\ Start \notin Positions
      /\ EncodeOwnerCursor(next).after = next /\ EncodeOwnerCursor(next).space = Space
      /\ EncodeOwnerCursor(next).owner = User
      /\ EncodeOwnerCursor(next) # NoToken /\ Space \in {LinkSpace, "legacy"}
      /\ next # Start => EncodeOwnerCursor(next) \in Tokens
  BY <1>2, PositionsAreCursors, LinkSpaceAssumption DEF NoToken, EncodeOwnerCursor, Space, Tokens
<1>4. TypeOK'
  <2>1. after' \in Positions \cup {Start} /\ token' \in Tokens
    BY <1>0, <1>2, <1>3 DEF Tokens
  <2>2. /\ step' \in {"ask", "query", "hydrate", "done"} /\ refs' \subseteq Positions
        /\ DOMAIN recs' = {} /\ page' \in Seq(Listed) /\ Len(page') <= Size
        /\ scanned' \in 0 .. Budget - 1
    BY <1>0, PagingAssumption DEF NothingRead
  <2>3. /\ log' \in [Codes -> Seq(Values)] /\ (\A c \in Codes : Len(log'[c]) >= 1)
        /\ row' \in [Codes -> Refs \cup {Absent}]
        /\ seen' \in [Codes -> Nat] /\ ptr' \subseteq Codes /\ all' \in BOOLEAN /\ source' \in ReadSources
        /\ steady' \subseteq Codes /\ changes' \in 0 .. MaxChanges
        /\ failures' \in 0 .. MaxFailures
    BY <1>0 DEF PagingInv, TypeOK
  <2> QED
    BY <1>0, <1>1, <2>1, <2>2, <2>3 DEF TypeOK
<1>5. StepInv'
  <2>1. all' /\ source' # "index" => next = Start
    BY <1>0 DEF Answerable
  <2> QED
    BY <1>0, <1>2, <1>3, <2>1 DEF StepInv
<1>6. SourceInv'
  <2>1. ASSUME next = Start PROVE \A i \in 1 .. Len(g) : g[i].source = source
    <3> SUFFICES ASSUME NEW i \in 1 .. Len(g) PROVE g[i].source = source
      OBVIOUS
    <3>1. SpaceOf(g[i].source) = SpaceOf(source) /\ (g[i].source = "memory" <=> source = "memory")
      BY <1>1 DEF Space, SpaceOf
    <3>2. {g[i].source, source} \subseteq {"index", "s3", "memory"}
      BY <1>1, ListedFields, PagingAssumption DEF PagingInv, TypeOK
    <3> QED
      BY <3>1, <3>2, LinkSpaceAssumption DEF SpaceOf
  <2>2. \A i \in 1 .. Len(got') :
          /\ got'[i].source = "memory" <=> source' = "memory"
          /\ step' = "done" => got'[i].source = source'
          /\ step' # "done" => token' # NoToken /\ SpaceOf(got'[i].source) = token'.space
    BY <1>0, <1>1, <1>3, <2>1
  <2>3. Space' = Space /\ (step' \in {"query", "hydrate"} => token'.space = Space)
    BY <1>0, <1>3 DEF Space
  <2>4. Len(page') = 0
    BY <1>0
  <2> QED
    BY <2>2, <2>3, <2>4 DEF SourceInv
<1>7. OwnInv'
  <2>1. DOMAIN recs' = {} /\ Len(page') = 0
    BY <1>0 DEF NothingRead
  <2>2. OnlyOwnLinks'
    BY <1>0, <1>1 DEF OnlyOwnLinks, Had
  <2> QED
    BY <2>1, <2>2 DEF OwnInv
<1>8. CursorInv'
  <2>1. step' # "done" => token'.after = next /\ next # Start /\ (all => after' = next)
    BY <1>0, <1>3
  <2>2. step' \in {"query", "hydrate"} => all /\ step' = "query"
    BY <1>0
  <2>3. EachPositionOnce'
    BY <1>0, <1>1 DEF EachPositionOnce, Sorted
  <2>4. Len(page') = 0 /\ refs' = {} /\ Sorted(page')
    BY <1>0 DEF Sorted
  <2>5. source = "index" => Cardinality(refs') <= Limit'
    <3>1. Cardinality(refs') = 0
      BY <2>4, FS_EmptySet
    <3>2. Limit' \in Nat
      <4>1. scanned' \in 0 .. Budget - 1
        BY <1>4 DEF TypeOK
      <4> QED
        BY <4>1, LimitIs DEF Limit
    <3> QED
      BY <3>1, <3>2
  <2> QED
    BY <1>0, <1>1, <2>1, <2>2, <2>3, <2>4, <2>5 DEF CursorInv
<1>9. SteadyInv'
  <2>1. \A c : Pos(c)' = Pos(c) /\ (Listable(c)' <=> Listable(c)) /\ (Latest(c)' = Latest(c))
    BY <1>0 DEF Pos, Listable, Latest, Live
  <2>2. step' # "done" => token'.after = next /\ next # Start /\ (step' = "query" => after' = next)
        /\ step' # "hydrate"
    BY <1>0, <1>3
  <2>3. \A c \in steady : Listable(c)
    BY DEF PagingInv, SteadyInv
  <2>4. step' = "done" => next = Start
    BY <1>0
  <2>5. \A c \in steady' : Listable(c)'
    BY <1>0, <2>1, <2>3
  <2>6. step' = "done" => \A c \in steady' : \E i \in 1 .. Len(got') : got'[i].at.code = c
    BY <1>0, <1>1, <2>4
  <2>7. step' # "done" => \A c \in steady' : ~Follows(Pos(c)', token'.after) =>
          \E i \in 1 .. Len(got') : got'[i].at.code = c
    BY <1>0, <1>1, <2>1, <2>2
  <2>8. step' \in {"query", "hydrate"} => step' = "query" /\ token'.after = after'
    BY <1>0, <2>2
  <2> QED
    BY <2>2, <2>5, <2>6, <2>7, <2>8 DEF SteadyInv
<1> QED
  BY <1>4, <1>5, <1>6, <1>7, <1>8, <1>9 DEF PagingInv

-------------------------------------------------------------------------------
(* Requests begin                                                          *)

\* Of the tokens that a client may send only its own is accepted.
LEMMA OwnTokenOnly ==
    ASSUME NEW t \in Presented, Accepted(t)
    PROVE  t = token
<1> SUFFICES ASSUME NEW p, t = [EncodeOwnerCursor(p) EXCEPT !.owner = Stranger] PROVE FALSE
  BY DEF Presented
<1>1. t.owner = Stranger /\ NoToken.owner = User
  BY DEF EncodeOwnerCursor, NoToken
<1> QED
  BY <1>1, PagingAssumption DEF Accepted

LEMMA EmptyCardinality == Cardinality({}) = 0 /\ (scanned \in 0 .. Budget - 1 => 0 <= Limit)
<1>1. Cardinality({}) = 0
  BY FS_EmptySet
<1> QED
  BY <1>1, LimitIs DEF Limit

LEMMA AskKeeps == ASSUME PagingInv, Ask PROVE PagingInv'
<1>1. PICK t \in Presented :
        /\ Accepted(t) /\ step = "ask" /\ step' = "query" /\ after' = t.after
        /\ steady' = IF t = NoToken THEN {c \in Codes : Listable(c)} ELSE steady
        /\ UNCHANGED <<log, row, seen, ptr, all, source, token, refs, recs, page, scanned, got,
                       changes, failures>>
  BY DEF Ask, link_vars, client_vars
<1>2. t = token
  BY <1>1, OwnTokenOnly
<1>3. /\ token.after \in Positions \cup {Start}
      /\ token = NoToken <=> token.after = Start
  BY TokenFacts
<1>4. refs = {} /\ recs = NothingRead /\ page = <<>> /\ scanned = 0
  BY <1>1 DEF PagingInv, StepInv
<1>5. TypeOK'
  BY <1>1, <1>2, <1>3 DEF PagingInv, TypeOK
<1>6. StepInv'
  BY <1>1, <1>2, <1>3, <1>4 DEF PagingInv, StepInv
<1>7. SourceInv'
  BY <1>1, <1>2 DEF PagingInv, SourceInv, Accepted, Space
<1>8. OwnInv'
  BY <1>1 DEF PagingInv, OwnInv, OnlyOwnLinks, Had
<1>9. CursorInv'
  <2>1. EachPositionOnce' /\ Sorted(page')
    BY <1>1 DEF PagingInv, CursorInv, EachPositionOnce, Sorted
  <2>2. Cardinality(refs') <= Limit'
    <3>1. scanned \in 0 .. Budget - 1
      BY DEF PagingInv, TypeOK
    <3> QED
      BY <1>1, <1>4, <3>1, EmptyCardinality DEF Limit
  <2> QED
    BY <1>1, <1>2, <1>3, <1>4, <2>1, <2>2 DEF PagingInv, CursorInv
<1>10. SteadyInv'
  <2>1. \A c : Pos(c)' = Pos(c) /\ (Listable(c)' <=> Listable(c))
    BY <1>1 DEF Pos, Listable, Latest, Live
  <2>2. \A c \in steady' : Listable(c)
    BY <1>1 DEF PagingInv, SteadyInv
  <2>3. ASSUME NEW c \in steady', ~Follows(Pos(c), token.after)
        PROVE  \E i \in 1 .. Len(got) : got[i].at.code = c
    <3>1. token.after # Start
      BY <2>3 DEF Follows
    <3>2. c \in steady
      BY <1>1, <1>2, <1>3, <3>1
    <3> QED
      BY <1>1, <2>3, <3>2 DEF PagingInv, SteadyInv
  <2> QED
    BY <1>1, <1>2, <2>1, <2>2, <2>3 DEF SteadyInv
<1> QED
  BY <1>5, <1>6, <1>7, <1>8, <1>9, <1>10 DEF PagingInv

\* A request ends without an answer, or is refused: the client keeps its token and
\* what it got, or has neither.
LEMMA AbandonKeeps ==
    ASSUME PagingInv, step # "done", step' = "ask",
           \/ UNCHANGED <<token, got>> /\ ~(all /\ step # "ask")
           \/ token' = NoToken /\ got' = <<>>,
           after' = Start, refs' = {}, recs' = NothingRead, page' = <<>>, scanned' = 0,
           failures' \in 0 .. MaxFailures,
           UNCHANGED <<log, row, seen, ptr, all, source, steady, changes>>
    PROVE  PagingInv'
<1>1. NoToken.after = Start /\ Start \notin Positions /\ Len(page') = 0
  BY PositionsAreCursors DEF NoToken
<1>2. TypeOK'
  <2>1. token' \in Tokens /\ got' \in Seq(Listed)
    <3>1. NoToken \in Tokens /\ token \in Tokens /\ got \in Seq(Listed)
      BY DEF PagingInv, TypeOK, Tokens
    <3>2. CASE token' = NoToken /\ got' = <<>>
      BY <3>1, <3>2
    <3>3. CASE UNCHANGED <<token, got>>
      BY <3>1, <3>3
    <3> QED
      BY <3>2, <3>3
  <2>2. /\ refs' \subseteq Positions /\ DOMAIN recs' = {} /\ page' \in Seq(Listed)
        /\ Len(page') <= Size /\ scanned' \in 0 .. Budget - 1
    BY PagingAssumption DEF NothingRead
  <2>3. /\ log' \in [Codes -> Seq(Values)] /\ (\A c \in Codes : Len(log'[c]) >= 1)
        /\ row' \in [Codes -> Refs \cup {Absent}]
        /\ seen' \in [Codes -> Nat] /\ ptr' \subseteq Codes /\ all' \in BOOLEAN /\ source' \in ReadSources
        /\ steady' \subseteq Codes /\ changes' \in 0 .. MaxChanges
    BY DEF PagingInv, TypeOK
  <2> QED
    BY <2>1, <2>2, <2>3 DEF TypeOK
<1>3. StepInv'
  BY <1>1 DEF PagingInv, StepInv
<1>4. SourceInv'
  <2>1. CASE got' = <<>>
    <3>1. Len(got') = 0
      BY <2>1
    <3> QED
      BY <1>1, <3>1 DEF SourceInv
  <2>2. CASE UNCHANGED <<token, got>>
    BY <1>1, <2>2 DEF PagingInv, SourceInv
  <2> QED
    BY <2>1, <2>2
<1>5. OwnInv'
  <2>1. OnlyOwnLinks'
    BY DEF PagingInv, OwnInv, OnlyOwnLinks
  <2> QED
    BY <1>1, <2>1 DEF OwnInv, NothingRead
<1>6. CursorInv'
  <2>1. EachPositionOnce'
    BY DEF PagingInv, CursorInv, EachPositionOnce
  <2>2. Sorted(page')
    BY <1>1 DEF Sorted
  <2>3. Cardinality(refs') <= Limit'
    <3>1. Limit' \in Nat
      BY <1>2, LimitIs DEF TypeOK, Limit
    <3> QED
      BY <3>1, EmptyCardinality
  <2>4. \A i \in 1 .. Len(got') : ~Follows(got'[i].at, token'.after)
    <3>1. CASE got' = <<>>
      <4>1. Len(got') = 0
        BY <3>1
      <4> QED
        BY <4>1
    <3>2. CASE UNCHANGED <<token, got>>
      BY <3>2 DEF PagingInv, CursorInv
    <3> QED
      BY <3>1, <3>2
  <2> QED
    BY <1>1, <2>1, <2>2, <2>3, <2>4 DEF CursorInv
<1>7. SteadyInv'
  <2>1. \A c : Pos(c)' = Pos(c) /\ (Listable(c)' <=> Listable(c))
    BY DEF Pos, Listable, Latest, Live
  <2>2. \A c \in steady : Listable(c)
    BY DEF PagingInv, SteadyInv
  <2>3. \A c \in steady : ~Follows(Pos(c), token'.after) =>
            \E i \in 1 .. Len(got') : got'[i].at.code = c
    <3>1. CASE token' = NoToken
      BY <1>1, <3>1 DEF Follows
    <3>2. CASE UNCHANGED <<token, got>>
      BY <3>2 DEF PagingInv, SteadyInv
    <3> QED
      BY <3>1, <3>2
  <2> QED
    BY <2>1, <2>2, <2>3 DEF SteadyInv
<1> QED
  BY <1>2, <1>3, <1>4, <1>5, <1>6, <1>7 DEF PagingInv

LEMMA AskRefusedKeeps == ASSUME PagingInv, AskRefused PROVE PagingInv'
<1>1. /\ step = "ask" /\ UNCHANGED <<log, row, seen, ptr, all, source, step, after, refs, recs,
                                    page, scanned, steady, changes, failures>>
      /\ UNCHANGED <<token, got>> \/ (token' = NoToken /\ got' = <<>>)
  BY DEF AskRefused, link_vars, request_vars
<1>2. after = Start /\ refs = {} /\ recs = NothingRead /\ page = <<>> /\ scanned = 0
      /\ failures \in 0 .. MaxFailures
  BY <1>1 DEF PagingInv, StepInv, TypeOK
<1> QED
  BY <1>1, <1>2, AbandonKeeps

LEMMA FailPageKeeps == ASSUME PagingInv, FailPage PROVE PagingInv'
<1>1. /\ step \in {"query", "hydrate"} /\ step' = "ask" /\ after' = Start /\ refs' = {}
      /\ recs' = NothingRead /\ page' = <<>> /\ scanned' = 0
      /\ UNCHANGED <<log, row, seen, ptr, all, source, steady, changes>>
      /\ \/ ~all /\ UNCHANGED <<token, got>>
         \/ token' = NoToken /\ got' = <<>>
  BY DEF FailPage, link_vars
<1>2. failures' \in 0 .. MaxFailures
  BY PagingAssumption DEF FailPage, PagingInv, TypeOK
<1> QED
  BY <1>1, <1>2, AbandonKeeps

LEMMA SwitchSourceKeeps == ASSUME PagingInv, SwitchSource PROVE PagingInv'
<1>1. /\ step = "ask" /\ source # "memory" /\ source' \in ReadSources /\ source' # "memory"
      /\ UNCHANGED <<log, row, seen, ptr, all, token, step, after, refs, recs, page, scanned, got,
                     failures>>
      /\ changes < MaxChanges /\ changes' = changes + 1 /\ StaySteady
  BY DEF SwitchSource, link_vars, request_vars
<1>2. after = Start /\ refs = {} /\ recs = NothingRead /\ page = <<>> /\ scanned = 0
  BY <1>1 DEF PagingInv, StepInv
<1>3. steady' \subseteq steady /\ \A c \in steady' : Listable(c)'
  BY <1>1 DEF StaySteady
<1>4. TypeOK'
  <2>1. changes' \in 0 .. MaxChanges /\ steady' \subseteq Codes
    BY <1>1, <1>3, PagingAssumption DEF PagingInv, TypeOK
  <2> QED
    BY <1>1, <2>1 DEF PagingInv, TypeOK
<1>5. StepInv'
  BY <1>1, <1>2 DEF PagingInv, StepInv
<1>6. SourceInv'
  <2>1. Len(page) = 0
    BY <1>2
  <2> QED
    BY <1>1, <2>1 DEF PagingInv, SourceInv
<1>7. OwnInv'
  BY <1>1 DEF PagingInv, OwnInv, OnlyOwnLinks, Had
<1>8. CursorInv'
  <2>1. EachPositionOnce'
    <3>1. CASE all
      <4>1. got = <<>>
        BY <1>1, <3>1, TokenFacts DEF PagingInv, StepInv
      <4>2. Len(got') = 0
        BY <1>1, <4>1
      <4> QED
        BY <4>2 DEF EachPositionOnce
    <3>2. CASE ~all
      BY <1>1, <3>2 DEF PagingInv, CursorInv, EachPositionOnce
    <3> QED
      BY <3>1, <3>2
  <2>2. Cardinality(refs') <= Limit' /\ Sorted(page')
    <3>1. scanned \in 0 .. Budget - 1
      BY DEF PagingInv, TypeOK
    <3> QED
      BY <1>1, <1>2, <3>1, EmptyCardinality DEF Limit, Sorted
  <2> QED
    BY <1>1, <1>2, <2>1, <2>2 DEF PagingInv, CursorInv
<1>9. SteadyInv'
  <2>1. \A c : Pos(c)' = Pos(c)
    BY <1>1 DEF Pos, Latest
  <2> QED
    BY <1>1, <1>3, <2>1 DEF PagingInv, SteadyInv
<1> QED
  BY <1>4, <1>5, <1>6, <1>7, <1>8, <1>9 DEF PagingInv

-------------------------------------------------------------------------------
(* Queries                                                                 *)

\* A code has one candidate at most: there are finitely many.
LEMMA OneOfEachCode ==
    ASSUME NEW S, S \subseteq Positions, \A p, q \in S : p.code = q.code => p = q
    PROVE  Chain(S) /\ \A T : T \subseteq S => Chain(T)
<1> DEFINE f == [p \in S |-> p.code]
<1>1. f \in [S -> Codes]
  BY DEF Positions
<1>2. \A p, q \in S : f[p] = f[q] => p = q
  OBVIOUS
<1>3. f \in Injection(S, Codes)
  BY <1>1, <1>2 DEF Injection, IsInjective
<1>4. IsFiniteSet(Codes)
  BY FS_Interval, PagingAssumption DEF Codes
<1>5. IsFiniteSet(S)
  <2> HIDE DEF f
  <2> QED
    BY <1>3, <1>4, FS_Injection
<1> QED
  BY <1>5, FS_Subset DEF Chain

LEMMA CandidatesAre ==
    ASSUME PagingInv
    PROVE  /\ Candidates \subseteq Positions
           /\ \A p, q \in Candidates : p.code = q.code => p = q
<1> SUFFICES ASSUME NEW c \in Codes, row[c] # Absent
             PROVE  Position(row[c].born, c) \in Positions /\ Position(row[c].born, c).code = c
  BY DEF Candidates, Position
<1>1. row[c] \in Refs
  BY DEF PagingInv, TypeOK
<1> QED
  BY <1>1 DEF Refs, Position, Positions

\* What the page under way is, whatever becomes of it.
LEMMA PageUnderWay ==
    ASSUME PagingInv, step \in {"query", "hydrate"}
    PROVE  /\ page \in Seq(Listed)
           /\ \A i \in 1 .. Len(page) :
                /\ page[i].source = source /\ Follows(page[i].at, token.after)
                /\ ~Follows(page[i].at, after)
                /\ Live(page[i].link) /\ Had(page[i].at.code, page[i].link)
                /\ page[i].at \in Positions
           /\ Sorted(page)
           /\ \A c \in steady : Follows(Pos(c), token.after) /\ ~Follows(Pos(c), after) =>
                \E i \in 1 .. Len(page) : page[i].at.code = c
<1>1. page \in Seq(Listed)
  BY DEF PagingInv, TypeOK
<1> QED
  BY <1>1, ListedFields DEF PagingInv, SourceInv, OwnInv, CursorInv, SteadyInv

LEMMA QueryKeeps == ASSUME PagingInv, Query PROVE PagingInv'
<1> DEFINE F == {p \in Candidates : Follows(p, after)}
           found == Foremost(Limit, F)
<1>1. /\ source = "index" /\ step = "query"
      /\ IF found = {} THEN Answer(page, Start)
         ELSE /\ refs' = found /\ step' = "hydrate"
              /\ UNCHANGED <<log, row, seen, ptr, all, source, token, after, recs, page, scanned, got,
                             steady, changes, failures>>
  BY DEF Query, link_vars, client_vars
<1>2. Limit \in Nat /\ Limit >= 1
  <2>1. scanned \in 0 .. Budget - 1
    BY DEF PagingInv, TypeOK
  <2> QED
    BY <2>1, LimitIs DEF Limit
<1>3. Chain(F) /\ F \subseteq Positions /\ \A p, q \in F : p.code = q.code => p = q
  BY CandidatesAre, OneOfEachCode
<1>4. \A c \in steady : Pos(c) \in Positions /\ (Follows(Pos(c), after) => Pos(c) \in F)
  BY <1>1, PosTyped
<1>5. \A p \in F : Follows(p, after)
  OBVIOUS
<1> HIDE DEF F
<1>6. /\ found = {p \in F : Rank(p, F) < Limit} /\ Chain(found)
      /\ Cardinality(found) \in Nat /\ Cardinality(found) <= Limit
      /\ Cardinality(found) < Limit => found = F
  BY <1>2, <1>3, ForemostIs
<1> HIDE DEF found
<1>7. CASE found = {}
  <2>1. F = {}
    BY <1>2, <1>6, <1>7, FS_EmptySet
  <2>2. \A c \in steady : Follows(Pos(c), token.after) =>
           \E i \in 1 .. Len(page) : page[i].at.code = c
    BY <1>1, <1>4, <2>1, PageUnderWay
  <2>3. Answerable(page, Start)
    BY <1>1, <2>2, PageUnderWay, SortedDistinct DEF Answerable
  <2> QED
    BY <1>1, <1>7, <2>3, AnswerKeeps
<1>8. CASE found # {}
  <2>1. /\ refs' = found /\ step' = "hydrate"
        /\ UNCHANGED <<log, row, seen, ptr, all, source, token, after, recs, page, scanned, got,
                       steady, changes, failures>>
    BY <1>1, <1>8
  <2>2. found \subseteq F
    BY <1>6
  <2>3. refs = {} /\ DOMAIN recs = {}
    BY <1>1 DEF PagingInv, StepInv, NothingRead
  <2>4. TypeOK'
    BY <1>3, <2>1, <2>2 DEF PagingInv, TypeOK
  <2>5. StepInv'
    BY <1>1, <2>1 DEF PagingInv, StepInv
  <2>6. SourceInv'
    BY <1>1, <2>1 DEF PagingInv, SourceInv, Space
  <2>7. OwnInv'
    BY <2>1 DEF PagingInv, OwnInv, OnlyOwnLinks, Had, Live
  <2>8. CursorInv'
    <3>1. \A p \in refs' : Follows(p, after')
      BY <1>5, <2>1, <2>2
    <3>2. Cardinality(refs') <= Limit'
      BY <1>6, <2>1 DEF Limit
    <3>3. EachPositionOnce' /\ Sorted(page')
      BY <2>1 DEF PagingInv, CursorInv, EachPositionOnce, Sorted
    <3>4. \A p, q \in refs' : p.code = q.code => p = q
      BY <1>3, <2>1, <2>2
    <3> QED
      BY <1>1, <1>8, <2>1, <3>1, <3>2, <3>3, <3>4 DEF PagingInv, CursorInv
  <2>9. SteadyInv'
    <3>1. \A c : Pos(c)' = Pos(c) /\ (Listable(c)' <=> Listable(c)) /\ Latest(c)' = Latest(c)
      BY <2>1 DEF Pos, Listable, Latest, Live
    <3>2. ASSUME NEW c \in steady, Follows(Pos(c), after)
          PROVE  \/ Pos(c) \in found
                 \/ Cardinality(found) = Limit /\ \A p \in found : Precedes(p, Pos(c))
      <4>1. Pos(c) \in F
        BY <1>4, <3>2
      <4>2. CASE Pos(c) \notin found
        <5>1. Cardinality(found) = Limit
          BY <1>2, <1>6, <4>1, <4>2
        <5>2. ASSUME NEW p \in found PROVE Precedes(p, Pos(c))
          <6>1. Rank(p, F) < Limit /\ ~(Rank(Pos(c), F) < Limit)
            BY <1>6, <4>1, <4>2
          <6>2. p \in F /\ Rank(p, F) \in Nat /\ Rank(Pos(c), F) \in Nat
            BY <1>3, <2>2, <4>1, RankType
          <6>3. Rank(p, F) < Rank(Pos(c), F)
            BY <1>2, <6>1, <6>2
          <6> QED
            BY <1>3, <4>1, <6>2, <6>3, RankGrows
        <5> QED
          BY <5>1, <5>2
      <4> QED
        BY <4>2
    <3>3. /\ Limit' = Limit /\ step' = "hydrate" /\ source' = "index" /\ DOMAIN recs' = {}
          /\ steady' = steady /\ after' = after /\ token' = token /\ page' = page /\ got' = got
      BY <1>1, <2>1, <2>3 DEF Limit
    <3>4. \A c \in steady :
            /\ Listable(c)
            /\ ~Follows(Pos(c), token.after) => \E i \in 1 .. Len(got) : got[i].at.code = c
            /\ Follows(Pos(c), token.after) /\ ~Follows(Pos(c), after) =>
                 \E i \in 1 .. Len(page) : page[i].at.code = c
      BY <1>1 DEF PagingInv, SteadyInv
    <3> HIDE DEF SteadyInv
    <3> QED
      BY <2>1, <3>1, <3>2, <3>3, <3>4 DEF SteadyInv
  <2> QED
    BY <2>4, <2>5, <2>6, <2>7, <2>8, <2>9 DEF PagingInv
<1> QED
  BY <1>7, <1>8

\* An object is read: what was read for a steady link is still its latest record.
LEMMA GetKeeps == ASSUME PagingInv, NEW p \in refs, Get(p) PROVE PagingInv'
<1> DEFINE d == p.code
<1>1. /\ step = "hydrate" /\ d \notin DOMAIN recs
      /\ DOMAIN recs' = DOMAIN recs \cup {d}
      /\ \A c \in DOMAIN recs' : recs'[c] = IF c = d THEN Latest(d) ELSE recs[c]
      /\ UNCHANGED <<log, row, seen, ptr, all, source, token, step, after, refs, page, scanned, got,
                     steady, changes, failures>>
  BY DEF Get, link_vars, client_vars
<1>2. d \in Codes
  BY DEF PagingInv, TypeOK, Positions
<1> HIDE DEF d
<1>3. Latest(d) \in Values /\ Had(d, Latest(d))
  <2>1. log[d] \in Seq(Values) /\ Len(log[d]) >= 1
    BY <1>2 DEF PagingInv, TypeOK
  <2>2. Len(log[d]) \in 1 .. Len(log[d]) /\ log[d][Len(log[d])] \in Values
    BY <2>1
  <2> QED
    BY <2>2 DEF Latest, Had
<1>4. TypeOK'
  <2>1. DOMAIN recs' \subseteq Codes /\ \A c \in DOMAIN recs' : recs'[c] \in Values
    BY <1>1, <1>2, <1>3 DEF PagingInv, TypeOK
  <2> QED
    BY <1>1, <2>1 DEF PagingInv, TypeOK
<1>5. StepInv'
  BY <1>1 DEF PagingInv, StepInv
<1>6. SourceInv'
  BY <1>1 DEF PagingInv, SourceInv, Space
<1>7. OwnInv'
  <2>1. \A c \in DOMAIN recs' : Had(c, recs'[c])
    BY <1>1, <1>3 DEF PagingInv, OwnInv
  <2>2. OnlyOwnLinks' /\ \A c, v : Had(c, v)' = Had(c, v)
    BY <1>1 DEF PagingInv, OwnInv, OnlyOwnLinks, Had
  <2> QED
    BY <1>1, <2>1, <2>2 DEF PagingInv, OwnInv, Live, Had
<1>8. CursorInv'
  BY <1>1 DEF PagingInv, CursorInv, EachPositionOnce, Sorted, Limit
<1>9. SteadyInv'
  <2>1. \A c : Pos(c)' = Pos(c) /\ (Listable(c)' <=> Listable(c)) /\ Latest(c)' = Latest(c)
    BY <1>1 DEF Pos, Listable, Latest, Live
  <2>2. ASSUME NEW c \in steady \cap DOMAIN recs'
        PROVE  Live(recs'[c]) /\ recs'[c].born = Latest(c).born
    <3>1. Live(Latest(c))
      BY PosTyped
    <3>2. CASE c = d
      BY <1>1, <3>1, <3>2
    <3>3. CASE c # d
      <4>1. c \in steady \cap DOMAIN recs /\ recs'[c] = recs[c]
        BY <1>1, <3>3
      <4> QED
        BY <1>1, <4>1 DEF PagingInv, SteadyInv
    <3> QED
      BY <3>2, <3>3
  <2>3. Limit' = Limit
    BY <1>1 DEF Limit
  <2>4. /\ \A c \in steady : Listable(c)
        /\ \A c \in steady :
             ~Follows(Pos(c), token.after) => \E i \in 1 .. Len(got) : got[i].at.code = c
        /\ \A c \in steady : Follows(Pos(c), token.after) /\ ~Follows(Pos(c), after) =>
             \E i \in 1 .. Len(page) : page[i].at.code = c
        /\ source = "index" => \A c \in steady :
             Follows(Pos(c), after) => \/ Pos(c) \in refs
                                       \/ Cardinality(refs) = Limit /\ \A q \in refs : Precedes(q, Pos(c))
        /\ source # "index" => \A c \in steady : \E q \in refs : q.code = c
    BY <1>1 DEF PagingInv, SteadyInv
  <2>5. \A c \in steady' \cap DOMAIN recs' : Live(recs'[c]) /\ recs'[c].born = Latest(c)'.born
    BY <1>1, <2>1, <2>2
  <2> QED
    BY <1>1, <2>1, <2>3, <2>4, <2>5 DEF SteadyInv
<1> QED
  BY <1>4, <1>5, <1>6, <1>7, <1>8, <1>9 DEF PagingInv

-------------------------------------------------------------------------------
(* Candidates become entries of the page                                   *)

LEMMA EntriesAre ==
    ASSUME PagingInv, NEW S, Chain(S),
           \A p \in S : p.code \in DOMAIN recs /\ recs[p.code] \in Records
    PROVE  /\ Entries(S) \in Seq(Listed)
           /\ Len(Entries(S)) = Cardinality(S) /\ Cardinality(S) \in Nat
           /\ Sorted(Entries(S))
           /\ \A i \in 1 .. Len(Entries(S)) :
                /\ Entries(S)[i].at \in S /\ Entries(S)[i].link = recs[Entries(S)[i].at.code]
                /\ Entries(S)[i].source = source
           /\ \A p \in S : \E i \in 1 .. Len(Entries(S)) : Entries(S)[i].at = p
<1> DEFINE O == Ordered(S)
           n == Cardinality(S)
           E == [i \in 1 .. n |-> [at |-> O[i], link |-> recs[O[i].code], source |-> source]]
<1>1. /\ n \in Nat /\ O \in [1 .. n -> S]
      /\ \A i, j \in 1 .. n : i < j => Precedes(O[i], O[j])
      /\ \A p \in S : \E i \in 1 .. n : O[i] = p
  BY OrderedIs
<1>2. Entries(S) = E
  BY DEF Entries
<1> HIDE DEF O, n
<1>3. \A i \in 1 .. n : E[i] = [at |-> O[i], link |-> recs[O[i].code], source |-> source]
  OBVIOUS
<1>4. \A i \in 1 .. n : E[i] \in Listed
  <2> SUFFICES ASSUME NEW i \in 1 .. n PROVE E[i] \in Listed
    OBVIOUS
  <2>1. O[i] \in S /\ S \subseteq Positions
    BY <1>1 DEF Chain
  <2>2. recs[O[i].code] \in Records /\ source \in ReadSources
    BY <2>1 DEF PagingInv, TypeOK
  <2> QED
    BY <1>3, <2>1, <2>2 DEF Listed
<1>5. DOMAIN E = 1 .. n
  OBVIOUS
<1>6. E \in Seq(Listed) /\ Len(E) = n
  BY <1>1, <1>4
<1>7. \A i \in 1 .. n : E[i].at = O[i] /\ E[i].link = recs[O[i].code] /\ E[i].source = source
                       /\ O[i] \in S
  BY <1>1, <1>3
<1> HIDE DEF E
<1>8. Sorted(E)
  BY <1>1, <1>6, <1>7 DEF Sorted
<1>9. \A p \in S : \E i \in 1 .. Len(E) : E[i].at = p
  BY <1>1, <1>6, <1>7
<1>10. n = Cardinality(S)
  BY DEF n
<1> QED
  BY <1>1, <1>2, <1>6, <1>7, <1>8, <1>9, <1>10

\* Which candidates are consumed: those before the lookahead, and the live ones among
\* them are taken.
LEMMA ConsumedAre ==
    ASSUME PagingInv, source = "index", Hydrated
    PROVE  /\ Chain(refs) /\ refs # {} /\ Chain(Taken) /\ Chain(Consumed)
           /\ Taken \subseteq Consumed /\ Taken \subseteq LiveRefs /\ Consumed \subseteq refs
           /\ \A p \in LiveRefs \cap Consumed : p \in Taken
           /\ Lookahead = {} => Consumed = refs
           /\ Consumed = {} => Len(page) = Size
           /\ Cardinality(Taken) <= Size - Len(page) /\ Cardinality(Taken) \in Nat
           /\ \A p \in refs : p.code \in DOMAIN recs
           /\ \A p \in LiveRefs : Live(recs[p.code]) /\ recs[p.code] \in Records
                                  /\ p.code \in DOMAIN recs
           /\ \A p \in refs, q \in Consumed : Precedes(p, q) => p \in Consumed
<1> DEFINE n == Size - Len(page)
           L == LiveRefs
<1>1. n \in Nat /\ n + 1 \in Nat
  BY PagingAssumption DEF PagingInv, TypeOK
<1>2. /\ refs \subseteq Positions /\ \A p, q \in refs : p.code = q.code => p = q
      /\ refs # {} /\ DOMAIN recs = {p.code : p \in refs}
  BY DEF PagingInv, TypeOK, CursorInv, Hydrated
<1>3. Chain(refs) /\ L \subseteq refs /\ Chain(L)
  BY <1>2, OneOfEachCode DEF LiveRefs
<1>4. /\ Taken = {p \in L : Rank(p, L) < n} /\ Chain(Taken)
      /\ Cardinality(Taken) \in Nat /\ Cardinality(Taken) <= n
  <2>1. Taken = Foremost(n, L)
    BY DEF Taken
  <2> HIDE DEF n, L
  <2> QED
    BY <1>1, <1>3, <2>1, ForemostIs
<1>5. Lookahead = {p \in L : Rank(p, L) = n}
  <2>1. Lookahead = Foremost(n + 1, L) \ Taken
    BY DEF Lookahead
  <2>2. Foremost(n + 1, L) = {p \in L : Rank(p, L) < n + 1}
    <3> HIDE DEF n, L
    <3> QED
      BY <1>1, <1>3, ForemostIs
  <2>3. \A p \in L : Rank(p, L) \in Nat
    BY <1>3, RankType
  <2>4. \A p \in L : Rank(p, L) < n + 1 /\ ~(Rank(p, L) < n) <=> Rank(p, L) = n
    <3> HIDE DEF n, L
    <3> QED
      BY <1>1, <2>3
  <2> HIDE DEF n, L
  <2> QED
    BY <1>4, <2>1, <2>2, <2>4
<1>6. \A p \in L : Live(recs[p.code]) /\ recs[p.code] \in Records /\ p.code \in DOMAIN recs
  <2> SUFFICES ASSUME NEW p \in L
               PROVE  Live(recs[p.code]) /\ recs[p.code] \in Records /\ p.code \in DOMAIN recs
    OBVIOUS
  <2>1. p.code \in DOMAIN recs /\ Live(recs[p.code])
    BY <1>2 DEF LiveRefs
  <2> QED
    BY <2>1 DEF PagingInv, TypeOK, Values, Live
<1>7. Consumed = {p \in refs : \A q \in Lookahead : Precedes(p, q)}
  BY DEF Consumed
<1>8. L = LiveRefs /\ n = Size - Len(page)
  OBVIOUS
<1> HIDE DEF n, L
<1>9. Taken \subseteq Consumed
  <2> SUFFICES ASSUME NEW p \in Taken, NEW q \in Lookahead PROVE Precedes(p, q)
    BY <1>3, <1>4, <1>7
  <2>1. p \in L /\ q \in L /\ Rank(p, L) < n /\ Rank(q, L) = n
    BY <1>4, <1>5
  <2>2. Rank(p, L) < Rank(q, L)
    BY <2>1
  <2> QED
    BY <1>3, <2>1, <2>2, RankGrows
<1>10. ASSUME NEW p \in L \cap Consumed PROVE p \in Taken
  <2>1. CASE ~(Rank(p, L) < n)
    <3>1. Rank(p, L) \in Nat /\ Rank(p, L) < Cardinality(L) /\ Cardinality(L) \in Nat
      BY <1>3, RankType
    <3>2. n < Cardinality(L)
      BY <1>1, <2>1, <3>1
    <3>3. PICK q \in L : Rank(q, L) = n
      BY <1>1, <1>3, <3>2, RankOnto
    <3>4. Precedes(p, q)
      BY <1>5, <1>7, <3>3
    <3>5. Rank(p, L) < n
      BY <1>3, <3>3, <3>4, RankGrows
    <3> QED
      BY <2>1, <3>5
  <2> QED
    BY <1>4, <2>1
<1>11. Lookahead = {} => Consumed = refs
  BY <1>7
<1>12. ASSUME Consumed = {} PROVE n = 0
  <2>1. PICK q \in L : Rank(q, L) = n
    BY <1>2, <1>5, <1>11, <1>12
  <2>2. n < Cardinality(L) /\ Cardinality(L) \in Nat
    BY <1>3, <2>1, RankType
  <2>3. CASE n # 0
    <3>1. 0 \in Nat /\ 0 < Cardinality(L) /\ 0 < n
      BY <1>1, <2>2, <2>3
    <3>2. PICK p \in L : Rank(p, L) = 0
      BY <1>3, <3>1, RankOnto
    <3>3. p \in Taken
      BY <1>4, <3>1, <3>2
    <3> QED
      BY <1>9, <1>12, <3>3
  <2> QED
    BY <2>3
<1>13. Chain(Consumed) /\ Consumed \subseteq refs
  BY <1>2, <1>7, OneOfEachCode
<1>14. ASSUME NEW p \in refs, NEW q \in Consumed, Precedes(p, q) PROVE p \in Consumed
  <2> SUFFICES ASSUME NEW r \in Lookahead PROVE Precedes(p, r)
    BY <1>7
  <2>1. p \in Cursors /\ q \in Cursors /\ r \in Cursors
    BY <1>2, <1>3, <1>5, <1>13, PositionsAreCursors
  <2>2. Precedes(q, r)
    BY <1>7
  <2> QED
    BY <1>14, <2>1, <2>2, PrecedesOrders
<1>15. Consumed = {} => Len(page) = Size
  BY <1>8, <1>12, PagingAssumption DEF PagingInv, TypeOK
<1>16. Taken \subseteq L
  BY <1>4
<1> QED
  BY <1>2, <1>3, <1>4, <1>6, <1>8, <1>9, <1>10, <1>11, <1>13, <1>14, <1>15, <1>16

\* The cursor moves on, at least when the page can be answered.
LEMMA CursorIs ==
    ASSUME PagingInv, source = "index", Hydrated
    PROVE  /\ Cursor \in Positions /\ Follows(Cursor, token.after)
           /\ Cursor = after \/ Follows(Cursor, after)
           /\ \A p \in Consumed : ~Follows(p, Cursor)
           /\ Consumed # {} => Cursor \in Consumed
           /\ Consumed = {} => Cursor = after
<1>1. /\ step = "hydrate" /\ token.after \in Positions \cup {Start} /\ after \in Positions \cup {Start}
      /\ \A p \in refs : Follows(p, after) /\ p \in Positions
  BY TokenFacts DEF PagingInv, TypeOK, CursorInv, Hydrated
<1>2. \A p \in Positions : Follows(p, after) => Follows(p, token.after)
  <2>1. CASE token = NoToken
    BY <2>1, TokenFacts DEF Follows
  <2>2. CASE token # NoToken
    <3>1. after = token.after \/ Precedes(token.after, after)
      BY <1>1, <2>2 DEF PagingInv, CursorInv
    <3>2. after \in Positions /\ token.after \in Positions
      BY <1>1, <2>2, TokenFacts DEF PagingInv, CursorInv
    <3> QED
      BY <3>1, <3>2, FollowsFacts
  <2> QED
    BY <2>1, <2>2
<1>3. CASE Consumed # {}
  <2>1. /\ Cursor = Hindmost(Consumed) /\ Chain(Consumed) /\ Consumed \subseteq refs
        /\ Consumed \subseteq Positions
    BY <1>3, ConsumedAre DEF Cursor, Chain
  <2>2. Cursor \in Consumed /\ \A p \in Consumed : p = Cursor \/ Precedes(p, Cursor)
    BY <1>3, <2>1, HindmostIs
  <2>3. Cursor \in Positions /\ Follows(Cursor, after)
    BY <1>1, <2>1, <2>2
  <2>4. \A p \in Consumed : ~Follows(p, Cursor)
    BY <2>1, <2>2, <2>3, FollowsFacts
  <2> QED
    BY <1>2, <1>3, <2>2, <2>3, <2>4
<1>4. CASE Consumed = {}
  <2>1. Cursor = after
    BY <1>4 DEF Cursor
  <2>0. Size \in Nat /\ Size > 0
    BY PagingAssumption
  <2>2. Len(page) >= 1 /\ 1 \in 1 .. Len(page)
    BY <1>4, <2>0, ConsumedAre
  <2>3. page[1].at \in Positions /\ Follows(page[1].at, token.after) /\ ~Follows(page[1].at, after)
    BY <1>1, <2>2, PageUnderWay
  <2>4. after # Start /\ after \in Positions
    BY <1>1, <2>3 DEF Follows
  <2>5. Follows(after, token.after)
    <3>1. page[1].at = after \/ Precedes(page[1].at, after)
      BY <2>3, <2>4, FollowsFacts
    <3>2. page[1].at \in Cursors /\ after \in Cursors /\ token.after \in Cursors
      BY <1>1, <2>3, <2>4, PositionsAreCursors
    <3> QED
      BY <2>3, <3>1, <3>2, PrecedesOrders DEF Follows
  <2> QED
    BY <1>4, <2>1, <2>4, <2>5
<1> QED
  BY <1>3, <1>4

\* The page after a batch: in order, of live links behind the token, and complete up to
\* the cursor; or to the end, when the batch was the last one.
LEMMA HydratedPage ==
    ASSUME PagingInv, source = "index", Hydrated, NEW links, links = page \o Entries(Taken)
    PROVE  /\ links \in Seq(Listed) /\ Len(links) <= Size /\ Sorted(links)
           /\ \A i \in 1 .. Len(links) :
                /\ links[i].source = source /\ Follows(links[i].at, token.after)
                /\ ~Follows(links[i].at, Cursor)
                /\ Live(links[i].link) /\ Had(links[i].at.code, links[i].link)
           /\ \A c \in steady : Follows(Pos(c), token.after) =>
                \/ Follows(Pos(c), Cursor) /\ ~(Lookahead = {} /\ Cardinality(refs) < Limit)
                \/ \E i \in 1 .. Len(links) : links[i].at.code = c
<1> DEFINE E == Entries(Taken)
<1>1. /\ step = "hydrate" /\ token.after \in Positions \cup {Start} /\ after \in Positions \cup {Start}
      /\ \A p \in refs : Follows(p, after) /\ p \in Positions
  BY TokenFacts DEF PagingInv, TypeOK, CursorInv, Hydrated
<1>2. /\ Taken \subseteq Consumed /\ Taken \subseteq LiveRefs /\ Consumed \subseteq refs
      /\ Cardinality(Taken) <= Size - Len(page) /\ Chain(Taken)
      /\ \A p \in Taken : /\ Live(recs[p.code]) /\ recs[p.code] \in Records
                          /\ p.code \in DOMAIN recs
  BY ConsumedAre
<1>3. /\ E \in Seq(Listed) /\ Len(E) = Cardinality(Taken) /\ Cardinality(Taken) \in Nat
      /\ Sorted(E)
      /\ \A i \in 1 .. Len(E) : /\ E[i].at \in Taken /\ E[i].link = recs[E[i].at.code]
                                /\ E[i].source = source
      /\ \A p \in Taken : \E i \in 1 .. Len(E) : E[i].at = p
  BY <1>2, EntriesAre
<1>4. links = page \o E
  OBVIOUS
<1> HIDE DEF E
<1>5. /\ Cursor \in Positions /\ Follows(Cursor, token.after)
      /\ Cursor = after \/ Follows(Cursor, after)
      /\ \A p \in Consumed : ~Follows(p, Cursor)
      /\ Consumed # {} => Cursor \in Consumed
      /\ Consumed = {} => Cursor = after
  BY CursorIs
<1>6. /\ page \in Seq(Listed)
      /\ \A i \in 1 .. Len(page) :
            /\ page[i].source = source /\ Follows(page[i].at, token.after)
            /\ ~Follows(page[i].at, after)
            /\ Live(page[i].link) /\ Had(page[i].at.code, page[i].link)
            /\ page[i].at \in Positions
      /\ Sorted(page)
      /\ \A c \in steady : Follows(Pos(c), token.after) /\ ~Follows(Pos(c), after) =>
            \E i \in 1 .. Len(page) : page[i].at.code = c
  BY <1>1, PageUnderWay
<1>7. \A p \in Positions : Follows(p, after) => Follows(p, token.after)
  <2>1. CASE token = NoToken
    BY <2>1, TokenFacts DEF Follows
  <2>2. CASE token # NoToken
    <3>1. after = token.after \/ Precedes(token.after, after)
      BY <1>1, <2>2 DEF PagingInv, CursorInv
    <3>2. after \in Positions /\ token.after \in Positions
      BY <1>1, <2>2, TokenFacts DEF PagingInv, CursorInv
    <3> QED
      BY <3>1, <3>2, FollowsFacts
  <2> QED
    BY <2>1, <2>2
<1>8. ASSUME NEW p \in Positions, ~Follows(p, after) PROVE ~Follows(p, Cursor)
  <2>1. after \in Positions
    BY <1>1, <1>8, FollowsFacts
  <2>2. Cursor = after \/ Precedes(after, Cursor)
    BY <1>5, <2>1, FollowsFacts DEF Follows
  <2> QED
    BY <1>5, <1>8, <2>1, <2>2, FollowsFacts
<1>9. \A i \in 1 .. Len(page) : ~Follows(page[i].at, Cursor)
  BY <1>6, <1>8
<1>10. \A i \in 1 .. Len(E) :
         /\ E[i].source = source /\ Follows(E[i].at, token.after) /\ ~Follows(E[i].at, Cursor)
         /\ Live(E[i].link) /\ Had(E[i].at.code, E[i].link)
         /\ Follows(E[i].at, after) /\ E[i].at \in Positions
  <2> SUFFICES ASSUME NEW i \in 1 .. Len(E)
               PROVE  /\ E[i].source = source /\ Follows(E[i].at, token.after)
                      /\ ~Follows(E[i].at, Cursor)
                      /\ Live(E[i].link) /\ Had(E[i].at.code, E[i].link)
                      /\ Follows(E[i].at, after) /\ E[i].at \in Positions
    OBVIOUS
  <2>1. E[i].at \in Taken /\ E[i].at \in Consumed /\ E[i].at \in refs
    BY <1>2, <1>3
  <2>2. Live(E[i].link) /\ Had(E[i].at.code, E[i].link)
    BY <1>2, <1>3, <2>1 DEF PagingInv, OwnInv
  <2> QED
    BY <1>1, <1>3, <1>5, <1>7, <2>1, <2>2
<1>11. \A i \in 1 .. Len(page), j \in 1 .. Len(E) : Precedes(page[i].at, E[j].at)
  BY <1>1, <1>6, <1>10, FollowsFacts
<1>12. Sorted(links)
  BY <1>3, <1>4, <1>6, <1>11, JoinedInOrder
<1>13. /\ links \in Seq(Listed) /\ Len(links) = Len(page) + Len(E)
       /\ \A i \in 1 .. Len(page) : i \in 1 .. Len(links) /\ links[i] = page[i]
       /\ \A i \in 1 .. Len(E) : Len(page) + i \in 1 .. Len(links) /\ links[Len(page) + i] = E[i]
       /\ \A i \in 1 .. Len(links) :
             \/ i \in 1 .. Len(page) /\ links[i] = page[i]
             \/ i - Len(page) \in 1 .. Len(E) /\ links[i] = E[i - Len(page)]
  BY <1>3, <1>4, <1>6, Joined
<1>14. Len(links) <= Size
  <2>1. Len(page) \in Nat /\ Size \in Nat
    BY <1>6, PagingAssumption
  <2> DEFINE m == Cardinality(Taken)
  <2>2. m \in Nat /\ m <= Size - Len(page) /\ Len(links) = Len(page) + m
    BY <1>2, <1>3, <1>13
  <2> HIDE DEF m
  <2> QED
    BY <2>1, <2>2
<1>15. ASSUME NEW i \in 1 .. Len(links)
       PROVE  /\ links[i].source = source /\ Follows(links[i].at, token.after)
              /\ ~Follows(links[i].at, Cursor)
              /\ Live(links[i].link) /\ Had(links[i].at.code, links[i].link)
  <2>1. CASE i \in 1 .. Len(page) /\ links[i] = page[i]
    BY <1>6, <1>9, <2>1
  <2>2. CASE i - Len(page) \in 1 .. Len(E) /\ links[i] = E[i - Len(page)]
    <3> DEFINE j == i - Len(page)
    <3>1. j \in 1 .. Len(E) /\ links[i] = E[j]
      BY <2>2
    <3> HIDE DEF j
    <3> QED
      BY <1>10, <3>1
  <2> QED
    BY <1>13, <2>1, <2>2
<1>16. ASSUME NEW c \in steady, Follows(Pos(c), token.after),
              ~(Follows(Pos(c), Cursor) /\ ~(Lookahead = {} /\ Cardinality(refs) < Limit))
       PROVE  \E i \in 1 .. Len(links) : links[i].at.code = c
  <2>1. CASE ~Follows(Pos(c), after)
    <3>1. PICK i \in 1 .. Len(page) : page[i].at.code = c
      BY <1>6, <1>16, <2>1
    <3> QED
      BY <1>13, <3>1
  <2>2. CASE Follows(Pos(c), after)
    <3>1. Pos(c) \in Positions /\ Pos(c).code = c /\ Live(Latest(c))
      BY PosTyped DEF Pos, Position
    <3>2. \/ Pos(c) \in refs
          \/ Cardinality(refs) = Limit /\ \A p \in refs : Precedes(p, Pos(c))
      BY <1>1, <2>2 DEF PagingInv, SteadyInv
    <3>3. Pos(c) \in refs /\ Pos(c) \in Consumed
      <4>1. CASE Lookahead = {} /\ Cardinality(refs) < Limit
        <5>1. Cardinality(refs) \in Nat
          BY ConsumedAre, FS_CardinalityType DEF Chain
        <5>2. Cardinality(refs) # Limit
          BY <4>1, <5>1
        <5> QED
          BY <3>2, <4>1, <5>2, ConsumedAre
      <4>2. CASE ~Follows(Pos(c), Cursor)
        <5>1. Consumed # {} /\ Cursor \in Consumed /\ Cursor \in refs
          BY <1>2, <1>5, <2>2, <4>2
        <5>2. Pos(c) = Cursor \/ Precedes(Pos(c), Cursor)
          BY <1>5, <3>1, <4>2, FollowsFacts
        <5>3. Pos(c) \in refs
          <6>1. CASE \A p \in refs : Precedes(p, Pos(c))
            <7>1. Precedes(Cursor, Pos(c))
              BY <5>1, <6>1
            <7>2. Cursor \in Cursors /\ Pos(c) \in Cursors
              BY <1>5, <3>1, PositionsAreCursors
            <7> QED
              BY <5>2, <7>1, <7>2, PrecedesOrders
          <6> QED
            BY <3>2, <6>1
        <5> QED
          BY <5>1, <5>2, <5>3, ConsumedAre
      <4> QED
        BY <1>16, <4>1, <4>2
    <3>4. Pos(c) \in LiveRefs
      <4>1. c \in DOMAIN recs
        BY <3>1, <3>3 DEF Hydrated
      <4>2. Live(recs[c])
        BY <1>1, <4>1 DEF PagingInv, SteadyInv
      <4> QED
        BY <3>1, <3>3, <4>2 DEF LiveRefs
    <3>5. Pos(c) \in Taken
      BY <3>3, <3>4, ConsumedAre
    <3>6. PICK i \in 1 .. Len(E) : E[i].at = Pos(c)
      BY <1>3, <3>5
    <3>7. Len(page) + i \in 1 .. Len(links) /\ links[Len(page) + i].at.code = c
      BY <1>13, <3>1, <3>6
    <3> QED
      BY <3>7
  <2> QED
    BY <2>1, <2>2
<1> QED
  BY <1>12, <1>13, <1>14, <1>15, <1>16

LEMMA HydrateKeeps == ASSUME PagingInv, Hydrate PROVE PagingInv'
<1> DEFINE links == page \o Entries(Taken)
           m == Cardinality(refs)
<1>1. /\ source = "index" /\ Hydrated /\ step = "hydrate"
      /\ IF Lookahead # {} THEN Answer(links, Cursor)
         ELSE IF m < Limit THEN Answer(links, Start)
         ELSE IF scanned + m < Budget
         THEN /\ page' = links
              /\ after' = Cursor /\ scanned' = scanned + m
              /\ step' = "query" /\ refs' = {} /\ recs' = NothingRead
              /\ UNCHANGED <<log, row, seen, ptr, all, source, token, got, steady, changes, failures>>
         ELSE Answer(links, Cursor)
  BY DEF Hydrate, Hydrated, link_vars, client_vars
<1>2. /\ links \in Seq(Listed) /\ Len(links) <= Size /\ Sorted(links)
      /\ \A i \in 1 .. Len(links) :
            /\ links[i].source = source /\ Follows(links[i].at, token.after)
            /\ ~Follows(links[i].at, Cursor)
            /\ Live(links[i].link) /\ Had(links[i].at.code, links[i].link)
      /\ \A c \in steady : Follows(Pos(c), token.after) =>
            \/ Follows(Pos(c), Cursor) /\ ~(Lookahead = {} /\ m < Limit)
            \/ \E i \in 1 .. Len(links) : links[i].at.code = c
  BY <1>1, HydratedPage
<1>3. Cursor \in Positions /\ Follows(Cursor, token.after)
  BY <1>1, CursorIs
<1>4. m \in Nat
  BY <1>1, ConsumedAre, FS_CardinalityType DEF Chain
<1> HIDE DEF links, m
<1>5. \A i, j \in 1 .. Len(links) : i # j => links[i].at # links[j].at
  BY <1>2, SortedDistinct
<1>6. CASE Answer(links, Cursor)
  <2>1. Answerable(links, Cursor)
    BY <1>1, <1>2, <1>3, <1>5, PositionsAreCursors DEF Answerable
  <2> QED
    BY <1>1, <1>6, <2>1, AnswerKeeps
<1>7. CASE Lookahead = {} /\ m < Limit /\ Answer(links, Start)
  <2>1. Answerable(links, Start)
    BY <1>1, <1>2, <1>5, <1>7 DEF Answerable
  <2> QED
    BY <1>1, <1>7, <2>1, AnswerKeeps
<1>8. CASE /\ scanned + m < Budget /\ page' = links
           /\ after' = Cursor /\ scanned' = scanned + m
           /\ step' = "query" /\ refs' = {} /\ recs' = NothingRead
           /\ UNCHANGED <<log, row, seen, ptr, all, source, token, got, steady, changes, failures>>
  <2>1. TypeOK'
    <3>1. scanned' \in 0 .. Budget - 1
      <4>1. scanned \in Nat /\ Budget \in Nat
        BY PagingAssumption DEF PagingInv, TypeOK
      <4> QED
        BY <1>4, <1>8, <4>1
    <3>2. /\ DOMAIN recs' = {} /\ page' \in Seq(Listed) /\ Len(page') <= Size
          /\ after' \in Positions \cup {Start} /\ refs' = {}
      BY <1>2, <1>3, <1>8 DEF NothingRead
    <3> QED
      BY <1>8, <3>1, <3>2 DEF PagingInv, TypeOK
  <2>2. StepInv'
    BY <1>1, <1>8 DEF PagingInv, StepInv
  <2>3. SourceInv'
    <3>1. \A i \in 1 .. Len(page') : page'[i].source = source'
      BY <1>2, <1>8
    <3> QED
      BY <1>1, <1>8, <3>1 DEF PagingInv, SourceInv, Space
  <2>4. OwnInv'
    <3>1. \A c, v : Had(c, v)' = Had(c, v)
      BY <1>8 DEF Had
    <3>2. OnlyOwnLinks' /\ DOMAIN recs' = {}
      BY <1>8 DEF PagingInv, OwnInv, OnlyOwnLinks, NothingRead
    <3>3. \A i \in 1 .. Len(page') : Live(page'[i].link) /\ Had(page'[i].at.code, page'[i].link)
      BY <1>2, <1>8
    <3>4. \A i \in 1 .. Len(page') :
             /\ Live(page'[i].link)
             /\ \E j \in 1 .. Len(log'[page'[i].at.code]) :
                  log'[page'[i].at.code][j] = page'[i].link
      BY <1>8, <3>3 DEF Had
    <3> QED
      BY <3>2, <3>4 DEF OwnInv, Had
  <2>5. CursorInv'
    <3>1. EachPositionOnce'
      BY <1>8 DEF PagingInv, CursorInv, EachPositionOnce
    <3>2. Sorted(page')
      BY <1>2, <1>8
    <3>3. Cardinality(refs') <= Limit'
      <4>1. scanned' \in 0 .. Budget - 1
        BY <2>1 DEF TypeOK
      <4>2. Limit' \in Nat
        BY <4>1, LimitIs DEF Limit
      <4>3. Cardinality(refs') = 0
        BY <1>8, FS_EmptySet
      <4> QED
        BY <4>2, <4>3
    <3>4. after' # Start /\ (token # NoToken => Precedes(token.after, after'))
      <4>1. token # NoToken => token.after # Start
        BY TokenFacts
      <4> QED
        BY <1>3, <1>8, <4>1, PositionsAreCursors DEF Follows
    <3>5. \A i \in 1 .. Len(got') : ~Follows(got'[i].at, token'.after)
      BY <1>1, <1>8 DEF PagingInv, CursorInv
    <3>6. \A i \in 1 .. Len(page') : Follows(page'[i].at, token'.after) /\ ~Follows(page'[i].at, after')
      BY <1>2, <1>8
    <3>7. after' # Start /\ (token' # NoToken => Precedes(token'.after, after'))
      BY <1>8, <3>4
    <3>8. step' = "query" /\ refs' = {}
      BY <1>8
    <3> QED
      BY <3>1, <3>2, <3>3, <3>5, <3>6, <3>7, <3>8 DEF CursorInv
  <2>6. SteadyInv'
    <3>1. \A c : Pos(c)' = Pos(c) /\ (Listable(c)' <=> Listable(c)) /\ Latest(c)' = Latest(c)
      BY <1>8 DEF Pos, Listable, Latest, Live
    <3>2. /\ \A c \in steady : Listable(c)
          /\ \A c \in steady :
               ~Follows(Pos(c), token.after) => \E i \in 1 .. Len(got) : got[i].at.code = c
      BY <1>1 DEF PagingInv, SteadyInv
    <3>3. \A c \in steady : Follows(Pos(c), token.after) /\ ~Follows(Pos(c), Cursor) =>
             \E i \in 1 .. Len(links) : links[i].at.code = c
      BY <1>2
    <3>4. /\ steady' = steady /\ token' = token /\ got' = got /\ page' = links /\ after' = Cursor
          /\ step' = "query"
      BY <1>8
    <3> QED
      BY <3>1, <3>2, <3>3, <3>4 DEF SteadyInv
  <2> QED
    BY <2>1, <2>2, <2>3, <2>4, <2>5, <2>6 DEF PagingInv
<1> QED
  BY <1>1, <1>6, <1>7, <1>8

-------------------------------------------------------------------------------
(* The S3 store and the memory store                                       *)

\* All candidates are there before one is read, or with all their records.
LEMMA StoreQueried ==
    ASSUME PagingInv, source # "index", step = "query", step' = "hydrate",
           NEW D, D \subseteq Codes, refs' = {Position(0, c) : c \in D}, steady \subseteq D,
           DOMAIN recs' \subseteq Codes,
           \A c \in DOMAIN recs' : c \in D /\ recs'[c] = Latest(c),
           UNCHANGED <<log, row, seen, ptr, all, source, token, after, page, scanned, got,
                       steady, changes, failures>>
    PROVE  PagingInv'
<1>1. ASSUME NEW c \in Codes PROVE Latest(c) \in Values /\ Had(c, Latest(c))
  <2>1. log[c] \in Seq(Values) /\ Len(log[c]) >= 1
    BY DEF PagingInv, TypeOK
  <2>2. Len(log[c]) \in 1 .. Len(log[c]) /\ log[c][Len(log[c])] \in Values
    BY <2>1
  <2> QED
    BY <2>2 DEF Latest, Had
<1>2. refs' \subseteq Positions /\ \A p \in refs' : p = Position(0, p.code)
  BY DEF Position, Positions
<1>3. page = <<>> /\ page' = <<>> /\ Len(page') = 0
  BY DEF PagingInv, StepInv
<1>4. TypeOK'
  <2>1. DOMAIN recs' \subseteq Codes /\ \A c \in DOMAIN recs' : recs'[c] \in Values
    BY <1>1
  <2> QED
    BY <1>2, <2>1 DEF PagingInv, TypeOK
<1>5. StepInv'
  BY DEF PagingInv, StepInv
<1>6. SourceInv'
  BY DEF PagingInv, SourceInv, Space
<1>7. OwnInv'
  <2>1. \A c \in DOMAIN recs' : Had(c, recs'[c])
    BY <1>1
  <2>2. OnlyOwnLinks' /\ \A c, v : Had(c, v)' = Had(c, v)
    BY DEF PagingInv, OwnInv, OnlyOwnLinks, Had
  <2> QED
    BY <1>3, <2>1, <2>2 DEF OwnInv, Had
<1>8. CursorInv'
  <2>1. \A p, q \in refs' : p.code = q.code => p = q
    BY <1>2
  <2>2. EachPositionOnce' /\ Sorted(page')
    BY <1>3 DEF PagingInv, CursorInv, EachPositionOnce, Sorted
  <2> QED
    BY <1>3, <2>1, <2>2 DEF PagingInv, CursorInv
<1>9. SteadyInv'
  <2>1. \A c : Pos(c)' = Pos(c) /\ (Listable(c)' <=> Listable(c)) /\ Latest(c)' = Latest(c)
    BY DEF Pos, Listable, Latest, Live
  <2>2. /\ \A c \in steady : Listable(c)
        /\ \A c \in steady :
             ~Follows(Pos(c), token.after) => \E i \in 1 .. Len(got) : got[i].at.code = c
        /\ \A c \in steady : Follows(Pos(c), token.after) /\ ~Follows(Pos(c), after) =>
             \E i \in 1 .. Len(page) : page[i].at.code = c
    BY DEF PagingInv, SteadyInv
  <2>3. \A c \in steady \cap DOMAIN recs' : Live(recs'[c]) /\ recs'[c].born = Latest(c).born
    BY PosTyped
  <2>4. \A c \in steady : \E p \in refs' : p.code = c
    <3> SUFFICES ASSUME NEW c \in steady PROVE \E p \in refs' : p.code = c
      OBVIOUS
    <3>1. Position(0, c) \in refs' /\ Position(0, c).code = c
      BY DEF Position
    <3> QED
      BY <3>1
  <2> QED
    BY <2>1, <2>2, <2>3, <2>4 DEF SteadyInv
<1> QED
  BY <1>4, <1>5, <1>6, <1>7, <1>8, <1>9 DEF PagingInv

LEMMA QueryPointersKeeps == ASSUME PagingInv, QueryPointers PROVE PagingInv'
<1>1. /\ source = "s3" /\ step = "query" /\ step' = "hydrate"
      /\ refs' = {Position(0, c) : c \in ptr}
      /\ UNCHANGED <<log, row, seen, ptr, all, source, token, after, recs, page, scanned, got,
                     steady, changes, failures>>
  BY DEF QueryPointers, link_vars, client_vars
<1>2. DOMAIN recs' = {}
  BY <1>1 DEF PagingInv, StepInv, NothingRead
<1>3. steady \subseteq ptr
  BY <1>1 DEF PagingInv, SteadyInv, Listable
<1>4. ptr \subseteq Codes
  BY DEF PagingInv, TypeOK
<1> QED
  BY <1>1, <1>2, <1>3, <1>4, StoreQueried

LEMMA QueryMemoryKeeps == ASSUME PagingInv, QueryMemory PROVE PagingInv'
<1> DEFINE D == {c \in Codes : Latest(c) # Absent /\ Latest(c).owner = User}
<1>1. /\ source = "memory" /\ step = "query" /\ step' = "hydrate"
      /\ refs' = {Position(0, c) : c \in D} /\ recs' = [c \in D |-> Latest(c)]
      /\ UNCHANGED <<log, row, seen, ptr, all, source, token, after, page, scanned, got,
                     steady, changes, failures>>
  BY DEF QueryMemory, link_vars, client_vars
<1>2. steady \subseteq D
  BY PosTyped DEF Live
<1>3. D \subseteq Codes
  OBVIOUS
<1> HIDE DEF D
<1>4. DOMAIN recs' \subseteq Codes /\ \A c \in DOMAIN recs' : c \in D /\ recs'[c] = Latest(c)
  BY <1>1, <1>3
<1> QED
  BY <1>1, <1>2, <1>3, <1>4, StoreQueried

\* The live links behind the cursor: one of each code, each steady one among them.
LEMMA OwnedAre ==
    ASSUME PagingInv, source # "index", Hydrated
    PROVE  /\ page = <<>> /\ step = "hydrate" /\ Chain(Owned) /\ Owned \subseteq Positions
           /\ \A p \in Owned : /\ p.code \in DOMAIN recs /\ recs[p.code] \in Records
                               /\ Live(recs[p.code]) /\ Had(p.code, recs[p.code])
                               /\ p = Position(recs[p.code].born, p.code)
                               /\ p.code \in Codes /\ Follows(p, token.after)
           /\ \A c \in steady : Follows(Pos(c), token.after) => Pos(c) \in Owned
<1>1. step = "hydrate" /\ page = <<>> /\ Len(page) = 0 /\ DOMAIN recs = {p.code : p \in refs}
  BY DEF PagingInv, StepInv, Hydrated
<1>2. /\ token.after \in Positions \cup {Start} /\ after \in Positions \cup {Start}
  BY TokenFacts DEF PagingInv, TypeOK
<1>3. \A p \in Positions : Follows(p, after) => Follows(p, token.after)
  <2>1. CASE token = NoToken
    BY <2>1, TokenFacts DEF Follows
  <2>2. CASE token # NoToken
    <3>1. after = token.after \/ Precedes(token.after, after)
      BY <1>1, <2>2 DEF PagingInv, CursorInv
    <3>2. after \in Positions /\ token.after \in Positions
      BY <1>1, <1>2, <2>2, TokenFacts DEF PagingInv, CursorInv
    <3> QED
      BY <3>1, <3>2, FollowsFacts
  <2> QED
    BY <2>1, <2>2
<1>4. ASSUME NEW p \in Owned
      PROVE  /\ p.code \in DOMAIN recs /\ recs[p.code] \in Records
             /\ Live(recs[p.code]) /\ Had(p.code, recs[p.code])
             /\ p = Position(recs[p.code].born, p.code) /\ p \in Positions
             /\ p.code \in Codes /\ Follows(p, token.after)
  <2>1. PICK d \in DOMAIN recs : /\ Live(recs[d]) /\ Follows(Position(recs[d].born, d), after)
                                 /\ p = Position(recs[d].born, d)
    BY DEF Owned
  <2>2. d \in Codes /\ recs[d] \in Records /\ Had(d, recs[d])
    BY <2>1 DEF PagingInv, TypeOK, OwnInv, Values, Live
  <2>3. p.code = d /\ p \in Positions
    BY <2>1, <2>2 DEF Position, Positions, Records
  <2> QED
    BY <1>3, <2>1, <2>2, <2>3
<1>5. Chain(Owned)
  <2>1. \A p, q \in Owned : p.code = q.code => p = q
    BY <1>4
  <2> QED
    BY <1>4, <2>1, OneOfEachCode
<1>6. ASSUME NEW c \in steady, Follows(Pos(c), token.after) PROVE Pos(c) \in Owned
  <2>1. Follows(Pos(c), after)
    <3>1. ~\E i \in 1 .. Len(page) : page[i].at.code = c
      BY <1>1
    <3> QED
      BY <1>1, <1>6, <3>1 DEF PagingInv, SteadyInv
  <2>2. c \in DOMAIN recs
    BY <1>1 DEF PagingInv, SteadyInv
  <2>3. Live(recs[c]) /\ recs[c].born = Latest(c).born
    BY <1>1, <2>2 DEF PagingInv, SteadyInv
  <2> QED
    BY <2>1, <2>2, <2>3 DEF Owned, Pos
<1> QED
  BY <1>1, <1>4, <1>5, <1>6

LEMMA PagePointersKeeps == ASSUME PagingInv, PagePointers PROVE PagingInv'
<1> DEFINE owned == Foremost(Size, Owned)
           next == IF owned = Owned THEN Start ELSE Hindmost(owned)
           E == Entries(owned)
<1>1. source # "index" /\ Hydrated /\ ~all /\ Answer(E, next)
  BY DEF PagePointers
<1>2. /\ step = "hydrate" /\ Chain(Owned) /\ Owned \subseteq Positions
      /\ \A p \in Owned : /\ p.code \in DOMAIN recs /\ recs[p.code] \in Records
                          /\ Live(recs[p.code]) /\ Had(p.code, recs[p.code])
                          /\ Follows(p, token.after)
      /\ \A c \in steady : Follows(Pos(c), token.after) => Pos(c) \in Owned
  BY <1>1, OwnedAre
<1>3. /\ owned = {p \in Owned : Rank(p, Owned) < Size} /\ Chain(owned)
      /\ Cardinality(owned) < Size => owned = Owned
  <2>1. Size \in Nat
    BY PagingAssumption
  <2> QED
    BY <1>2, <2>1, ForemostIs
<1>4. owned \subseteq Owned
  BY <1>3
<1> HIDE DEF owned
<1>5. /\ E \in Seq(Listed) /\ Len(E) \in Nat /\ Sorted(E)
      /\ \A i \in 1 .. Len(E) : /\ E[i].at \in owned /\ E[i].link = recs[E[i].at.code]
                                /\ E[i].source = source
      /\ \A p \in owned : \E i \in 1 .. Len(E) : E[i].at = p
  BY <1>2, <1>3, <1>4, EntriesAre
<1> HIDE DEF E
<1>6. CASE owned = Owned
  <2>1. next = Start
    BY <1>6
  <2>2. \A c \in steady : Follows(Pos(c), token.after) => \E i \in 1 .. Len(E) : E[i].at.code = c
    <3>1. \A c : Pos(c).code = c
      BY DEF Pos, Position
    <3> QED
      BY <1>2, <1>5, <1>6, <3>1
  <2>3. \A i, j \in 1 .. Len(E) : i # j => E[i].at # E[j].at
    BY <1>5, SortedDistinct
  <2>4. \A i \in 1 .. Len(E) : Live(E[i].link) /\ Had(E[i].at.code, E[i].link)
                               /\ Follows(E[i].at, token.after)
    BY <1>2, <1>4, <1>5
  <2>5. Answerable(E, Start)
    BY <1>1, <1>5, <2>2, <2>3, <2>4 DEF Answerable
  <2> HIDE DEF next
  <2> QED
    BY <1>1, <1>2, <2>1, <2>5, AnswerKeeps
<1>7. CASE owned # Owned
  <2>0. Size \in Nat /\ Size > 0
    BY PagingAssumption
  <2>1. owned # {}
    BY <1>3, <1>7, <2>0, FS_EmptySet
  <2>2. next = Hindmost(owned)
    BY <1>7
  <2>3. next \in owned /\ \A q \in owned : q = next \/ Precedes(q, next)
    BY <1>3, <2>1, <2>2, HindmostIs
  <2> HIDE DEF next
  <2>4. next \in Positions /\ Follows(next, token.after) /\ next \in Owned
    BY <1>2, <1>4, <2>3
  <2>5. ASSUME NEW c \in steady, Follows(Pos(c), token.after), ~Follows(Pos(c), next)
        PROVE  \E i \in 1 .. Len(E) : E[i].at.code = c
    <3>1. Pos(c) \in Owned /\ Pos(c).code = c /\ Pos(c) \in Positions
      BY <1>2, <2>5 DEF Pos, Position
    <3>2. Pos(c) = next \/ Precedes(Pos(c), next)
      BY <2>4, <2>5, <3>1, FollowsFacts
    <3>3. CASE Precedes(Pos(c), next)
      <4>1. Rank(Pos(c), Owned) < Rank(next, Owned) /\ Rank(next, Owned) < Size
        BY <1>2, <1>3, <2>3, <2>4, <3>1, <3>3, RankGrows
      <4>2. Rank(Pos(c), Owned) \in Nat /\ Rank(next, Owned) \in Nat /\ Size \in Nat
        BY <1>2, <2>4, <3>1, RankType, PagingAssumption
      <4>3. Rank(Pos(c), Owned) < Size
        BY <4>1, <4>2
      <4> QED
        BY <1>3, <1>5, <3>1, <4>3
    <3> QED
      BY <1>5, <2>3, <3>1, <3>2, <3>3
  <2>6. \A i, j \in 1 .. Len(E) : i # j => E[i].at # E[j].at
    BY <1>5, SortedDistinct
  <2>7. \A i \in 1 .. Len(E) : /\ Live(E[i].link) /\ Had(E[i].at.code, E[i].link)
                               /\ Follows(E[i].at, token.after) /\ ~Follows(E[i].at, next)
    <3> SUFFICES ASSUME NEW i \in 1 .. Len(E)
                 PROVE  /\ Live(E[i].link) /\ Had(E[i].at.code, E[i].link)
                        /\ Follows(E[i].at, token.after) /\ ~Follows(E[i].at, next)
      OBVIOUS
    <3>1. E[i].at \in owned /\ E[i].at \in Owned /\ E[i].at \in Positions
      BY <1>2, <1>4, <1>5
    <3>2. ~Follows(E[i].at, next)
      BY <2>3, <2>4, <3>1, FollowsFacts
    <3> QED
      BY <1>2, <1>5, <3>1, <3>2
  <2>8. next # Start
    BY <2>4, PositionsAreCursors
  <2>9. Answerable(E, next)
    BY <1>1, <1>5, <2>4, <2>5, <2>6, <2>7, <2>8 DEF Answerable
  <2> QED
    BY <1>1, <1>2, <2>9, AnswerKeeps
<1> QED
  BY <1>6, <1>7

LEMMA AllPointersKeeps == ASSUME PagingInv, AllPointers PROVE PagingInv'
<1> DEFINE K == {p.code : p \in Owned}
<1>1. PICK codes \in SetToSeqs(K) :
        Answer([i \in DOMAIN codes |-> [at |-> Position(recs[codes[i]].born, codes[i]),
                                        link |-> recs[codes[i]], source |-> source]], Start)
  BY DEF AllPointers
<1>2. source # "index" /\ Hydrated /\ all
  BY DEF AllPointers
<1>3. /\ step = "hydrate" /\ Chain(Owned) /\ Owned \subseteq Positions
      /\ \A p \in Owned : /\ p.code \in DOMAIN recs /\ recs[p.code] \in Records
                          /\ Live(recs[p.code]) /\ Had(p.code, recs[p.code])
                          /\ p = Position(recs[p.code].born, p.code)
                          /\ p.code \in Codes /\ Follows(p, token.after)
      /\ \A c \in steady : Follows(Pos(c), token.after) => Pos(c) \in Owned
  BY <1>2, OwnedAre
<1>4. IsFiniteSet(K)
  <2>1. IsFiniteSet(Codes)
    BY FS_Interval, PagingAssumption DEF Codes
  <2>2. K \subseteq Codes
    BY <1>3
  <2> QED
    BY <2>1, <2>2, FS_Subset
<1>5. ASSUME NEW k \in K
      PROVE  Position(recs[k].born, k) \in Owned /\ Position(recs[k].born, k).code = k
  BY <1>3, <1>5 DEF Position
<1> DEFINE n == Cardinality(K)
           links == [i \in 1 .. n |-> [at |-> Position(recs[codes[i]].born, codes[i]),
                                       link |-> recs[codes[i]], source |-> source]]
<1>6. codes \in [1 .. n -> K] /\ \A i, j \in 1 .. n : i # j => codes[i] # codes[j]
  BY DEF SetToSeqs
<1>7. n \in Nat
  BY <1>4, FS_CardinalityType
<1>8. Answer(links, Start)
  <2>1. DOMAIN codes = 1 .. n
    BY <1>6
  <2> QED
    BY <1>1, <2>1
<1>9. \A k \in K : k \in Codes
  BY <1>3
<1>10. \A c \in steady : Follows(Pos(c), token.after) => c \in K
  <2>1. \A c : Pos(c).code = c
    BY DEF Pos, Position
  <2> QED
    BY <1>3, <2>1
<1> HIDE DEF K
<1>11. \A k \in K : \E i \in 1 .. n : codes[i] = k
  <2>1. codes \in Injection(1 .. n, K)
    BY <1>6 DEF Injection, IsInjective
  <2>2. Cardinality(1 .. n) = n
    BY <1>7, FS_Interval
  <2>3. codes \in Surjection(1 .. n, K)
    BY <1>4, <2>1, <2>2, FS_Injection
  <2> QED
    BY <2>3 DEF Surjection
<1> HIDE DEF n
<1>12. ASSUME NEW i \in 1 .. n
       PROVE  /\ links[i] \in Listed /\ links[i].source = source
              /\ links[i].at \in Owned /\ links[i].at.code = codes[i]
              /\ links[i].link = recs[links[i].at.code]
  <2>1. codes[i] \in K
    BY <1>6
  <2>2. links[i] = [at |-> Position(recs[codes[i]].born, codes[i]),
                    link |-> recs[codes[i]], source |-> source]
    OBVIOUS
  <2> HIDE DEF links
  <2>3. Position(recs[codes[i]].born, codes[i]) \in Owned
        /\ Position(recs[codes[i]].born, codes[i]).code = codes[i]
    BY <1>5, <2>1
  <2>4. recs[codes[i]] \in Records /\ source \in ReadSources
        /\ Position(recs[codes[i]].born, codes[i]) \in Positions
    BY <1>3, <2>3 DEF PagingInv, TypeOK
  <2> QED
    BY <2>2, <2>3, <2>4 DEF Listed
<1>13. links \in Seq(Listed) /\ Len(links) = n
  BY <1>7, <1>12
<1>14. \A i \in 1 .. n :
         /\ links[i].source = source
         /\ Live(links[i].link) /\ Had(links[i].at.code, links[i].link)
         /\ Follows(links[i].at, token.after)
  <2> HIDE DEF links
  <2> QED
    BY <1>3, <1>12
<1>15. \A i, j \in 1 .. n : i # j => links[i].at # links[j].at
  <2> SUFFICES ASSUME NEW i \in 1 .. n, NEW j \in 1 .. n, i # j PROVE links[i].at # links[j].at
    OBVIOUS
  <2> HIDE DEF links
  <2>1. links[i].at.code # links[j].at.code
    BY <1>6, <1>12
  <2> QED
    BY <2>1
<1>16. \A c \in steady : Follows(Pos(c), token.after) => \E i \in 1 .. n : links[i].at.code = c
  <2> HIDE DEF links
  <2> QED
    BY <1>10, <1>11, <1>12
<1> HIDE DEF links
<1>17. Answerable(links, Start)
  BY <1>2, <1>13, <1>14, <1>15, <1>16 DEF Answerable
<1> QED
  BY <1>3, <1>8, <1>17, AnswerKeeps

-------------------------------------------------------------------------------
(* Links and rows change                                                   *)

\* A link that was read or given has been so ever after.
LEMMA LinksMove ==
    ASSUME PagingInv, StaySteady,
           UNCHANGED <<all, source, token, step, after, refs, recs, page, scanned, got, failures>>,
           log' \in [Codes -> Seq(Values)], \A c \in Codes : Len(log'[c]) >= 1,
           \A c \in Codes : \A i \in 1 .. Len(log[c]) :
               i \in 1 .. Len(log'[c]) /\ log'[c][i] = log[c][i],
           row' \in [Codes -> Refs \cup {Absent}], seen' \in [Codes -> Nat],
           ptr' \subseteq Codes, changes' \in 0 .. MaxChanges
    PROVE  PagingInv'
<1>1. steady' \subseteq steady /\ \A c \in steady' : Listable(c)' /\ Pos(c)' = Pos(c)
                                                   /\ Latest(c)'.born = Latest(c).born
  BY DEF StaySteady, Pos
<1>2. TypeOK'
  BY <1>1 DEF PagingInv, TypeOK
<1>3. StepInv'
  BY DEF PagingInv, StepInv
<1>4. SourceInv'
  BY DEF PagingInv, SourceInv, Space
<1>5. OwnInv'
  <2>1. ASSUME NEW c \in Codes, NEW v, Had(c, v)
        PROVE  \E j \in 1 .. Len(log'[c]) : log'[c][j] = v
    BY <2>1 DEF Had
  <2>2. DOMAIN recs \subseteq Codes /\ page \in Seq(Listed) /\ got \in Seq(Listed)
    BY DEF PagingInv, TypeOK
  <2>3. \A c \in DOMAIN recs' : \E j \in 1 .. Len(log'[c]) : log'[c][j] = recs'[c]
    BY <2>1, <2>2 DEF PagingInv, OwnInv
  <2>4. \A i \in 1 .. Len(page') :
           /\ Live(page'[i].link)
           /\ \E j \in 1 .. Len(log'[page'[i].at.code]) : log'[page'[i].at.code][j] = page'[i].link
    <3> SUFFICES ASSUME NEW i \in 1 .. Len(page)
                 PROVE  /\ Live(page[i].link)
                        /\ \E j \in 1 .. Len(log'[page[i].at.code]) :
                              log'[page[i].at.code][j] = page[i].link
      OBVIOUS
    <3>1. page[i].at.code \in Codes
      BY <2>2, ListedFields
    <3>2. Live(page[i].link) /\ Had(page[i].at.code, page[i].link)
      BY DEF PagingInv, OwnInv
    <3> QED
      BY <2>1, <3>1, <3>2
  <2>5. \A i \in 1 .. Len(got') :
           /\ got'[i].link.owner = User /\ ~got'[i].link.expired
           /\ \E j \in 1 .. Len(log'[got'[i].at.code]) : log'[got'[i].at.code][j] = got'[i].link
    <3> SUFFICES ASSUME NEW i \in 1 .. Len(got)
                 PROVE  /\ got[i].link.owner = User /\ ~got[i].link.expired
                        /\ \E j \in 1 .. Len(log'[got[i].at.code]) :
                              log'[got[i].at.code][j] = got[i].link
      OBVIOUS
    <3>1. got[i].at.code \in Codes
      BY <2>2, ListedFields
    <3>2. got[i].link.owner = User /\ ~got[i].link.expired /\ Had(got[i].at.code, got[i].link)
      BY DEF PagingInv, OwnInv, OnlyOwnLinks, Had
    <3> QED
      BY <2>1, <3>1, <3>2
  <2> QED
    BY <2>3, <2>4, <2>5 DEF OwnInv, OnlyOwnLinks, Had
<1>6. CursorInv'
  BY DEF PagingInv, CursorInv, EachPositionOnce, Sorted, Limit
<1>7. SteadyInv'
  <2>1. Limit' = Limit
    BY DEF Limit
  <2>2. \A c \in steady' : c \in steady /\ Listable(c)' /\ Pos(c)' = Pos(c)
                           /\ Latest(c)'.born = Latest(c).born
    BY <1>1
  <2> QED
    BY <2>1, <2>2 DEF PagingInv, SteadyInv
<1> QED
  BY <1>2, <1>3, <1>4, <1>5, <1>6, <1>7 DEF PagingInv

LEMMA WriteKeeps == ASSUME PagingInv, NEW c \in Codes, Write(c) PROVE PagingInv'
<1>1. PICK v \in NextValues(c) : log' = [log EXCEPT ![c] = Append(@, v)]
  BY DEF Write
<1>2. /\ UNCHANGED <<all, source, token, step, after, refs, recs, page, scanned, got, failures,
                     row, seen, ptr>>
      /\ StaySteady /\ changes < MaxChanges /\ changes' = changes + 1
  BY DEF Write, client_vars, request_vars
<1>3. /\ log \in [Codes -> Seq(Values)] /\ \A d \in Codes : Len(log[d]) >= 1
      /\ row \in [Codes -> Refs \cup {Absent}] /\ seen \in [Codes -> Nat]
      /\ ptr \subseteq Codes /\ changes \in 0 .. MaxChanges
  BY DEF PagingInv, TypeOK
<1>4. log[c] \in Seq(Values) /\ Len(log[c]) \in 1 .. Len(log[c]) /\ Latest(c) \in Values
  BY <1>3 DEF Latest
<1>5. v \in Values
  <2>1. CASE Latest(c) = Absent
    <3>1. v \in [owner : Owners, born : Times, expired : {FALSE}]
      BY <2>1 DEF NextValues
    <3> QED
      BY <3>1, PagingAssumption DEF Values, Records
  <2>2. CASE Latest(c) # Absent
    <3>1. Latest(c) \in Records
      BY <1>4, <2>2 DEF Values
    <3>2. [Latest(c) EXCEPT !.expired = ~@] \in Records
      BY <3>1 DEF Records
    <3>3. \A i \in 1 .. Len(log[c]) : log[c][i] \in Values
      BY <1>4
    <3> QED
      BY <2>2, <3>2, <3>3 DEF NextValues, Values
  <2> QED
    BY <2>1, <2>2
<1>6. /\ Append(log[c], v) \in Seq(Values) /\ Len(Append(log[c], v)) >= 1
      /\ \A i \in 1 .. Len(log[c]) :
           i \in 1 .. Len(Append(log[c], v)) /\ Append(log[c], v)[i] = log[c][i]
  BY <1>4, <1>5
<1>7. \A d \in Codes : log'[d] = IF d = c THEN Append(log[c], v) ELSE log[d]
  BY <1>1, <1>3
<1>8. log' \in [Codes -> Seq(Values)]
  BY <1>1, <1>3, <1>6
<1>9. \A d \in Codes : /\ Len(log'[d]) >= 1
                       /\ \A i \in 1 .. Len(log[d]) : i \in 1 .. Len(log'[d]) /\ log'[d][i] = log[d][i]
  BY <1>3, <1>6, <1>7
<1>10. changes' \in 0 .. MaxChanges
  BY <1>2, <1>3, PagingAssumption
<1> QED
  BY <1>2, <1>3, <1>8, <1>9, <1>10, LinksMove

LEMMA RefreshKeeps == ASSUME PagingInv, NEW c \in Codes, Refresh(c) PROVE PagingInv'
<1>1. PICK v \in 1 .. Len(log[c]) :
        /\ row' = [row EXCEPT ![c] = RefOf(log[c][v])] /\ seen' = [seen EXCEPT ![c] = v]
        /\ UNCHANGED log
  BY DEF Refresh, Index!Recompute
<1>2. /\ UNCHANGED <<all, source, token, step, after, refs, recs, page, scanned, got, failures,
                     ptr, changes>>
      /\ StaySteady
  BY DEF Refresh, client_vars, request_vars
<1>3. /\ log \in [Codes -> Seq(Values)] /\ \A d \in Codes : Len(log[d]) >= 1
      /\ row \in [Codes -> Refs \cup {Absent}] /\ seen \in [Codes -> Nat]
      /\ ptr \subseteq Codes /\ changes \in 0 .. MaxChanges
  BY DEF PagingInv, TypeOK
<1>4. log[c] \in Seq(Values)
  BY <1>3
<1>5. log[c][v] \in Values /\ v \in Nat
  BY <1>4
<1>6. RefOf(log[c][v]) \in Refs \cup {Absent}
  BY <1>5 DEF RefOf, Values, Records, Refs
<1> QED
  BY <1>1, <1>2, <1>3, <1>5, <1>6, LinksMove

LEMMA PointersMove ==
    ASSUME PagingInv, NEW c \in Codes, Point(c) \/ Unpoint(c) PROVE PagingInv'
<1>1. /\ UNCHANGED <<all, source, token, step, after, refs, recs, page, scanned, got, failures,
                     log, row, seen>>
      /\ ptr' \subseteq ptr \cup {c}
      /\ StaySteady /\ changes < MaxChanges /\ changes' = changes + 1
  BY DEF Point, Unpoint, client_vars, request_vars
<1>2. /\ log \in [Codes -> Seq(Values)] /\ \A d \in Codes : Len(log[d]) >= 1
      /\ row \in [Codes -> Refs \cup {Absent}] /\ seen \in [Codes -> Nat]
      /\ ptr \subseteq Codes /\ changes \in 0 .. MaxChanges
  BY DEF PagingInv, TypeOK
<1>3. ptr' \subseteq Codes
  BY <1>1, <1>2
<1>4. changes' \in 0 .. MaxChanges
  BY <1>1, <1>2, PagingAssumption
<1> QED
  BY <1>1, <1>2, <1>3, <1>4, LinksMove

-------------------------------------------------------------------------------
(* The invariant                                                           *)

LEMMA InitHolds == ASSUME Init PROVE PagingInv
<1>1. PICK links \in InitLinks : log = [c \in Codes |-> <<links[c]>>]
  BY DEF Init
<1>2. /\ row \in [Codes -> InitRows] /\ seen = [c \in Codes |-> 0] /\ ptr \in InitPointers
      /\ all \in BOOLEAN /\ source \in ReadSources /\ token = NoToken /\ after = Start
      /\ step = "ask" /\ refs = {} /\ recs = NothingRead /\ page = <<>> /\ scanned = 0
      /\ got = <<>> /\ steady = {c \in Codes : Listable(c)} /\ changes = 0 /\ failures = 0
  BY DEF Init
<1>3. Len(got) = 0 /\ Len(page) = 0 /\ DOMAIN recs = {} /\ NoToken.after = Start
  BY <1>2 DEF NothingRead, NoToken
<1>4. TypeOK
  <2>1. links \in [Codes -> Values]
    BY PagingAssumption
  <2>2. \A c \in Codes : <<links[c]>> \in Seq(Values) /\ Len(<<links[c]>>) >= 1
    BY <2>1
  <2>3. log \in [Codes -> Seq(Values)] /\ \A c \in Codes : Len(log[c]) >= 1
    BY <1>1, <2>2
  <2>4. /\ row \in [Codes -> Refs \cup {Absent}] /\ seen \in [Codes -> Nat]
        /\ ptr \subseteq Codes
    BY <1>2, PagingAssumption, PointersAssumption
  <2>5. /\ page \in Seq(Listed) /\ got \in Seq(Listed) /\ Len(page) <= Size
        /\ scanned \in 0 .. Budget - 1 /\ changes \in 0 .. MaxChanges
        /\ failures \in 0 .. MaxFailures
    BY <1>2, <1>3, PagingAssumption
  <2> QED
    BY <1>2, <1>3, <2>3, <2>4, <2>5 DEF TypeOK, Tokens
<1>5. StepInv
  BY <1>2 DEF StepInv
<1>6. SourceInv
  BY <1>2, <1>3 DEF SourceInv
<1>7. OwnInv
  BY <1>3 DEF OwnInv, OnlyOwnLinks
<1>8. CursorInv
  <2>1. EachPositionOnce /\ Sorted(page)
    BY <1>3 DEF EachPositionOnce, Sorted
  <2>2. Cardinality(refs) <= Limit
    BY <1>2, <1>4, EmptyCardinality DEF TypeOK
  <2> QED
    BY <1>2, <1>3, <2>1, <2>2 DEF CursorInv
<1>9. SteadyInv
  BY <1>2, <1>3 DEF SteadyInv, Follows
<1> QED
  BY <1>4, <1>5, <1>6, <1>7, <1>8, <1>9 DEF PagingInv

LEMMA PagingStep == ASSUME PagingInv, [Next]_vars PROVE PagingInv'
<1>1. ASSUME UNCHANGED vars PROVE PagingInv'
  <2>1. UNCHANGED <<log, row, seen, ptr, all, source, token, step, after, refs, recs, page, scanned,
                    got, steady, changes, failures>>
    BY <1>1 DEF vars, link_vars, client_vars, request_vars
  <2>2. TypeOK'
    BY <2>1 DEF PagingInv, TypeOK
  <2>3. StepInv' /\ SourceInv'
    BY <2>1 DEF PagingInv, StepInv, SourceInv, Space
  <2>4. OwnInv'
    BY <2>1 DEF PagingInv, OwnInv, OnlyOwnLinks, Had
  <2>5. CursorInv'
    BY <2>1 DEF PagingInv, CursorInv, EachPositionOnce, Limit
  <2>6. SteadyInv'
    <3>1. \A c : Pos(c)' = Pos(c) /\ (Listable(c)' <=> Listable(c)) /\ Latest(c)' = Latest(c)
      BY <2>1 DEF Pos, Listable, Latest
    <3>2. Limit' = Limit
      BY <2>1 DEF Limit
    <3> QED
      BY <2>1, <3>1, <3>2 DEF PagingInv, SteadyInv
  <2> QED
    BY <2>2, <2>3, <2>4, <2>5, <2>6 DEF PagingInv
<1> QED
  BY <1>1, AskKeeps, AskRefusedKeeps, QueryKeeps, HydrateKeeps, QueryPointersKeeps,
     QueryMemoryKeeps, PagePointersKeeps, AllPointersKeeps, GetKeeps, FailPageKeeps,
     SwitchSourceKeeps, WriteKeeps, RefreshKeeps, PointersMove DEF Next, Listing

\* Whatever happens to links and rows meanwhile, the pages given are those before the
\* token, and the candidates of a batch those right behind the cursor: PagingInv.
THEOREM PagingInvariant == Spec => []PagingInv
<1>1. Init => PagingInv
  BY InitHolds
<1>2. PagingInv /\ [Next]_vars => PagingInv'
  BY PagingStep
<1> QED
  BY <1>1, <1>2, PTL DEF Spec

\* paging.go:12, "A stale index is never an authorization": PagesOK.
THEOREM PagesStayOwn == Spec => []PagesOK
<1>1. PagingInv => PagesOK
  BY DEF PagingInv, OwnInv, PagesOK
<1> QED
  BY <1>1, PagingInvariant, PTL

\* No position comes twice over all pages, and they are in order: EachPositionOnce.
THEOREM PagesDoNotOverlap == Spec => []EachPositionOnce
<1>1. PagingInv => EachPositionOnce
  BY DEF PagingInv, CursorInv
<1> QED
  BY <1>1, PagingInvariant, PTL

\* docs/storage.md, "Cursor tokens are read-source-specific": OneSourcePerList.
THEOREM ListsHaveOneSource == Spec => []OneSourcePerList
<1>1. ASSUME PagingInv PROVE OneSourcePerList
  <2> SUFFICES ASSUME NEW i \in 1 .. Len(got), NEW j \in 1 .. Len(got)
               PROVE  got[i].source = got[j].source
    BY DEF OneSourcePerList
  <2>1. /\ got[i].source = "memory" <=> got[j].source = "memory"
        /\ step = "done" => got[i].source = source /\ got[j].source = source
        /\ step # "done" => SpaceOf(got[i].source) = SpaceOf(got[j].source)
    BY <1>1 DEF PagingInv, SourceInv
  <2>2. {got[i].source, got[j].source} \subseteq {"index", "s3", "memory"}
    BY <1>1, ListedFields, PagingAssumption DEF PagingInv, TypeOK
  <2> QED
    BY <2>1, <2>2, LinkSpaceAssumption DEF SpaceOf
<1> QED
  BY <1>1, PagingInvariant, PTL

\* A link that is there all the time, at its place in the index, is listed:
\* SteadyLinksListed.
THEOREM SteadyLinksAreListed == Spec => []SteadyLinksListed
<1>1. PagingInv => SteadyLinksListed
  BY DEF PagingInv, SteadyInv, SteadyLinksListed
<1> QED
  BY <1>1, PagingInvariant, PTL

-------------------------------------------------------------------------------
(* Progress                                                                *)

\* An answer that has a successor puts the token there.
LEMMA AnswerAdvances ==
    ASSUME NEW links, NEW next, Answer(links, next), step' \in {"ask", "query"},
           next # Start => Follows(next, token.after)
    PROVE  token'.after # Start /\ Follows(token'.after, token.after)
BY DEF Answer, EncodeOwnerCursor

LEMMA HydrateAdvances ==
    ASSUME PagingInv, Hydrate, step' \in {"ask", "query"}, scanned' = 0
    PROVE  token'.after # Start /\ Follows(token'.after, token.after)
<1>1. source = "index" /\ Hydrated
  BY DEF Hydrate
<1>2. Follows(Cursor, token.after)
  BY <1>1, CursorIs
<1>3. ~(scanned' = scanned + Cardinality(refs))
  <2>1. Cardinality(refs) \in Nat /\ Cardinality(refs) # 0
    BY <1>1, ConsumedAre, FS_CardinalityType, FS_EmptySet DEF Chain
  <2>2. scanned \in Nat
    BY DEF PagingInv, TypeOK
  <2> QED
    BY <2>1, <2>2
<1>4. \E links : Answer(links, Cursor) \/ Answer(links, Start)
  BY <1>3 DEF Hydrate
<1> QED
  BY <1>2, <1>4, AnswerAdvances

LEMMA PagePointersAdvances ==
    ASSUME PagingInv, PagePointers, step' \in {"ask", "query"}
    PROVE  token'.after # Start /\ Follows(token'.after, token.after)
<1> DEFINE owned == Foremost(Size, Owned)
<1>1. /\ source # "index" /\ Hydrated
      /\ Answer(Entries(owned), IF owned = Owned THEN Start ELSE Hindmost(owned))
  BY DEF PagePointers
<1>2. Chain(Owned) /\ \A p \in Owned : Follows(p, token.after)
  BY <1>1, OwnedAre
<1>3. Size \in Nat /\ Size >= 1
  BY PagingAssumption
<1>4. owned \subseteq Owned /\ Chain(owned) /\ (Cardinality(owned) < Size => owned = Owned)
  BY <1>2, <1>3, ForemostIs
<1> HIDE DEF owned
<1>5. owned # Owned => Follows(Hindmost(owned), token.after)
  BY <1>2, <1>3, <1>4, HindmostIs, FS_EmptySet
<1> QED
  BY <1>1, <1>5, AnswerAdvances

\* paging.go:66, "Even an entirely stale candidate page advances its cursor":
\* CursorAdvances.
THEOREM CursorsAdvance == Spec => CursorAdvances
<1> DEFINE Advances ==
      step = "hydrate" /\ step' \in {"ask", "query"} /\ scanned' = 0 /\ failures' = failures
      => token'.after # Start /\ Follows(token'.after, token.after)
<1>1. ASSUME PagingInv, [Next]_vars PROVE [Advances]_vars
  <2> SUFFICES ASSUME step = "hydrate", step' \in {"ask", "query"}, scanned' = 0,
                      failures' = failures, Next
               PROVE  token'.after # Start /\ Follows(token'.after, token.after)
    BY <1>1
  <2>1. ~Ask /\ ~AskRefused /\ ~Query /\ ~QueryPointers /\ ~QueryMemory /\ ~SwitchSource
    BY DEF Ask, AskRefused, Query, QueryPointers, QueryMemory, SwitchSource
  <2>2. \A p \in refs : ~Get(p)
    BY DEF Get
  <2>3. \A c \in Codes : ~Write(c) /\ ~Refresh(c) /\ ~Point(c) /\ ~Unpoint(c)
    BY DEF Write, Refresh, Point, Unpoint, request_vars
  <2>4. ~FailPage
    <3>1. failures \in Nat
      BY <1>1, PagingAssumption DEF PagingInv, TypeOK
    <3> QED
      BY <3>1 DEF FailPage
  <2>5. ~AllPointers
    BY DEF AllPointers, Answer
  <2> QED
    BY <1>1, <2>1, <2>2, <2>3, <2>4, <2>5, HydrateAdvances, PagePointersAdvances DEF Next, Listing
<1> QED
  BY <1>1, PagingInvariant, PTL DEF Spec, CursorAdvances
===============================================================================
