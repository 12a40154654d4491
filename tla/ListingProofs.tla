---------------------------- MODULE ListingProofs ----------------------------
(***************************************************************************)
(* Theorems about Listing for any finite table over any Projects, Names    *)
(* and labels, any selector and any page sizes, however often the table    *)
(* changes between the pages.                                              *)
(***************************************************************************)
EXTENDS Listing, FiniteSetTheorems, FunctionTheorems, SequenceTheorems, TLAPS

-----------------------------------------------------------------------------
(* The order of keys. *)

LEMMA KeyParts ==
    ASSUME NEW k \in Keys
    PROVE  k[1] \in Nat \ {AllProjects} /\ k[2] \in Nat /\ k = <<k[1], k[2]>>
<1>1. PICK p \in Projects, n \in Names : k = <<p, n>>
  BY DEF Keys
<1>2. p \in Nat \ {AllProjects} /\ n \in Nat
  BY ProjectNumbers, NameNumbers
<1> QED
  BY <1>1, <1>2

LEMMA OrderIsTotal ==
    ASSUME NEW a \in Keys, NEW b \in Keys
    PROVE  /\ ~cursorLess(a, a)
           /\ cursorLess(a, b) \/ a = b \/ cursorLess(b, a)
           /\ \A c \in Keys : cursorLess(a, b) /\ cursorLess(b, c) => cursorLess(a, c)
<1>1. a[1] \in Nat /\ a[2] \in Nat /\ b[1] \in Nat /\ b[2] \in Nat
  BY KeyParts
<1>2. a[1] = b[1] /\ a[2] = b[2] => a = b
  BY KeyParts
<1>3. \A c \in Keys : cursorLess(a, b) /\ cursorLess(b, c) => cursorLess(a, c)
  <2> TAKE c \in Keys
  <2>1. c[1] \in Nat /\ c[2] \in Nat
    BY KeyParts
  <2> QED
    BY <1>1, <2>1 DEF cursorLess
<1> QED
  BY <1>1, <1>2, <1>3 DEF cursorLess

(* No key is one of the two empty tokens. *)
LEMMA TokensAreNoKeys == Start \notin Keys /\ Done \notin Keys /\ Start # Done
<1>1. \A k \in Keys : Len(k) = 2
  BY DEF Keys
<1>2. Len(<<>>) = 0 /\ Len(<<0>>) = 1
  OBVIOUS
<1> QED
  BY <1>1, <1>2 DEF Start, Done

(* ORDER BY enumerates a finite set of keys in strictly ascending order.   *)
LEMMA OrderByEnumerates ==
    ASSUME NEW S \in SUBSET Keys, IsFiniteSet(S)
    PROVE  /\ Cardinality(S) \in Nat
           /\ orderBy(S) \in [1..Cardinality(S) -> S]
           /\ \A i, j \in 1..Cardinality(S) :
                 i < j => cursorLess(orderBy(S)[i], orderBy(S)[j])
           /\ \A k \in S : \E i \in 1..Cardinality(S) : orderBy(S)[i] = k
<1> DEFINE n == Cardinality(S)
           NotAfter(k) == {j \in S : j[1] < k[1] \/ (j[1] = k[1] /\ j[2] <= k[2])}
           rank == [k \in S |-> Cardinality(NotAfter(k))]
<1>0. n \in Nat
  BY FS_CardinalityType
<1>1. ASSUME NEW k \in S
      PROVE  /\ IsFiniteSet(NotAfter(k))
             /\ NotAfter(k) = {j \in S : j = k \/ cursorLess(j, k)}
             /\ Cardinality(NotAfter(k)) \in 1..n
  <2>1. IsFiniteSet(NotAfter(k)) /\ Cardinality(NotAfter(k)) <= n
    <3>1. NotAfter(k) \in SUBSET S
      OBVIOUS
    <3> HIDE DEF NotAfter
    <3> QED
      BY <3>1, FS_Subset
  <2>2. ASSUME NEW j \in S
        PROVE  j[1] < k[1] \/ (j[1] = k[1] /\ j[2] <= k[2]) <=> j = k \/ cursorLess(j, k)
    <3>1. j \in Keys /\ k \in Keys
      OBVIOUS
    <3>2. j[1] \in Nat /\ j[2] \in Nat /\ k[1] \in Nat /\ k[2] \in Nat
      BY <3>1, KeyParts
    <3>3. j[1] = k[1] /\ j[2] = k[2] => j = k
      BY <3>1, KeyParts
    <3> QED
      BY <3>2, <3>3 DEF cursorLess
  <2>3. NotAfter(k) = {j \in S : j = k \/ cursorLess(j, k)}
    BY <2>2
  <2>4. NotAfter(k) # {}
    BY <2>3
  <2>5. Cardinality(NotAfter(k)) \in Nat /\ Cardinality(NotAfter(k)) # 0
    <3> HIDE DEF NotAfter
    <3> QED
      BY <2>1, <2>4, FS_CardinalityType, FS_EmptySet
  <2> HIDE DEF NotAfter
  <2> QED
    BY <1>0, <2>1, <2>3, <2>5
<1> HIDE DEF NotAfter
<1>2. ASSUME NEW a \in S, NEW b \in S, cursorLess(a, b)
      PROVE  Cardinality(NotAfter(a)) < Cardinality(NotAfter(b))
  <2>1. NotAfter(a) \subseteq NotAfter(b)
    BY <1>1, <1>2, OrderIsTotal
  <2>2. b \in NotAfter(b) /\ b \notin NotAfter(a)
    <3>1. b # a /\ ~cursorLess(b, a)
      BY <1>2, OrderIsTotal
    <3> QED
      BY <1>1, <3>1
  <2>3. /\ Cardinality(NotAfter(a)) <= Cardinality(NotAfter(b))
        /\ Cardinality(NotAfter(a)) # Cardinality(NotAfter(b))
    BY <1>1, <2>1, <2>2, FS_Subset
  <2>4. Cardinality(NotAfter(a)) \in Nat /\ Cardinality(NotAfter(b)) \in Nat
    BY <1>1
  <2> QED
    BY <2>3, <2>4
<1>3. rank \in Surjection(S, 1..n)
  <2>1. rank \in [S -> 1..n]
    BY <1>1
  <2>2. \A a, b \in S : rank[a] = rank[b] => a = b
    <3> TAKE a, b \in S
    <3>1. rank[a] \in Nat /\ rank[b] \in Nat
      BY <1>1
    <3>2. (cursorLess(a, b) => rank[a] < rank[b]) /\ (cursorLess(b, a) => rank[b] < rank[a])
      BY <1>2
    <3> QED
      BY <3>1, <3>2, OrderIsTotal
  <2>3. rank \in Injection(S, 1..n)
    BY <2>1, <2>2, Fun_IsInj
  <2>4. IsFiniteSet(1..n) /\ Cardinality(1..n) = n
    BY <1>0, FS_Interval
  <2> DEFINE T == 1..n
  <2>5. rank \in Injection(S, T) /\ IsFiniteSet(T) /\ Cardinality(T) = Cardinality(S)
    BY <2>3, <2>4
  <2> HIDE DEF rank, T
  <2>6. rank \in Surjection(S, T)
    BY <2>5, FS_Injection, SMT
  <2> QED
    BY <2>6 DEF T
<1>4. \A i \in 1..n : \E k \in S : Cardinality(NotAfter(k)) = i
  <2>1. \A i \in 1..n : \E k \in S : rank[k] = i
    <3> HIDE DEF rank
    <3> QED
      BY <1>3 DEF Surjection
  <2> QED
    BY <2>1
<1>5. orderBy(S) = [i \in 1..n |-> CHOOSE k \in S : Cardinality(NotAfter(k)) = i]
  BY DEF orderBy, NotAfter
<1>6. \A i \in 1..n : orderBy(S)[i] \in S /\ Cardinality(NotAfter(orderBy(S)[i])) = i
  BY <1>4, <1>5
<1>7. ASSUME NEW i \in 1..n, NEW j \in 1..n, i < j
      PROVE  cursorLess(orderBy(S)[i], orderBy(S)[j])
  <2> DEFINE a == orderBy(S)[i]
             b == orderBy(S)[j]
  <2>1. a \in S /\ b \in S /\ Cardinality(NotAfter(a)) = i /\ Cardinality(NotAfter(b)) = j
    BY <1>6
  <2> HIDE DEF a, b
  <2>2. a # b /\ ~cursorLess(b, a)
    BY <2>1, <1>0, <1>2, <1>7
  <2>3. cursorLess(a, b)
    BY <2>1, <2>2, OrderIsTotal
  <2> QED
    BY <2>3 DEF a, b
<1>8. ASSUME NEW k \in S
      PROVE  \E i \in 1..n : orderBy(S)[i] = k
  <2> DEFINE i == Cardinality(NotAfter(k))
             a == orderBy(S)[i]
  <2>1. i \in 1..n
    BY <1>1
  <2>2. a \in S /\ Cardinality(NotAfter(a)) = Cardinality(NotAfter(k))
    BY <1>6, <2>1
  <2>3. a \in Keys /\ k \in Keys
    BY <2>2
  <2>4. ~cursorLess(a, k) /\ ~cursorLess(k, a)
    <3>1. Cardinality(NotAfter(k)) \in Nat
      BY <1>1
    <3> HIDE DEF a, i
    <3> QED
      BY <1>2, <2>2, <3>1
  <2>5. a = k
    BY <2>3, <2>4, OrderIsTotal
  <2> QED
    BY <2>1, <2>5
<1>9. orderBy(S) \in [1..n -> S]
  BY <1>5, <1>6
<1> QED
  BY <1>0, <1>7, <1>8, <1>9

(* A page of a finite set of keys holds its first keys in strictly         *)
(* ascending order, and its token is the last of them or Done.             *)
LEMMA PageOfSet ==
    ASSUME NEW S \in SUBSET Keys, IsFiniteSet(S), NEW limit \in Nat,
           NEW answer, answer = paginate(orderBy(S), limit)
    PROVE  /\ answer.page \in Seq(S)
           /\ \A i, j \in 1..Len(answer.page) :
                 i < j => cursorLess(answer.page[i], answer.page[j])
           /\ \/ answer.next = Done /\ S \subseteq ToSet(answer.page)
              \/ /\ answer.next \in S
                 /\ \A k \in ToSet(answer.page) : k = answer.next \/ cursorLess(k, answer.next)
                 /\ \A k \in S \ ToSet(answer.page) : cursorLess(answer.next, k)
<1> DEFINE n == Cardinality(S)
           out == orderBy(S)
<1>1. /\ n \in Nat
      /\ out \in [1..n -> S]
      /\ \A i, j \in 1..n : i < j => cursorLess(out[i], out[j])
      /\ \A k \in S : \E i \in 1..n : out[i] = k
  BY OrderByEnumerates
<1> HIDE DEF n, out
<1>2. out \in Seq(S) /\ Len(out) = n /\ DOMAIN out = 1..n
  BY <1>1
<1>3. answer = paginate(out, limit)
  BY DEF out
<1>4. CASE limit = 0 \/ Len(out) <= limit
  <2>1. answer.page = out /\ answer.next = Done
    BY <1>3, <1>4 DEF paginate
  <2>2. S \subseteq ToSet(out)
    BY <1>1, <1>2 DEF ToSet
  <2> QED
    BY <1>1, <1>2, <2>1, <2>2
<1>5. CASE limit # 0 /\ limit < Len(out)
  <2>1. answer.page = SubSeq(out, 1, limit) /\ answer.next = out[limit]
    BY <1>2, <1>3, <1>5, <1>1 DEF paginate
  <2>2. limit \in 1..n
    BY <1>1, <1>2, <1>5
  <2>3. /\ answer.page \in Seq(S)
        /\ Len(answer.page) = limit
        /\ DOMAIN answer.page = 1..limit
        /\ \A i \in 1..limit : answer.page[i] = out[i]
    <3>1. \A i \in 1..limit : out[i] \in S
      BY <1>1, <2>2
    <3>2. SubSeq(out, 1, limit) = [i \in 1..limit |-> out[i]]
      BY <1>2, <2>2, <1>1
    <3> QED
      BY <2>1, <3>1, <3>2
  <2>4. \A i \in 1..limit : out[i] = out[limit] \/ cursorLess(out[i], out[limit])
    <3> TAKE i \in 1..limit
    <3>1. i \in 1..n /\ (i = limit \/ i < limit)
      BY <2>2, <1>1
    <3> QED
      BY <1>1, <2>2, <3>1
  <2>5. \A k \in S \ ToSet(answer.page) : cursorLess(out[limit], k)
    <3> TAKE k \in S \ ToSet(answer.page)
    <3>1. PICK i \in 1..n : out[i] = k
      BY <1>1
    <3>2. i \notin 1..limit
      BY <2>3, <3>1 DEF ToSet
    <3>3. limit < i
      BY <2>2, <3>1, <3>2, <1>1
    <3> QED
      BY <1>1, <2>2, <3>1, <3>3
  <2>6. \A i, j \in 1..limit : i < j => cursorLess(answer.page[i], answer.page[j])
    <3>1. \A i \in 1..limit : i \in 1..n
      BY <2>2, <1>1
    <3> QED
      BY <1>1, <2>3, <3>1
  <2>7. out[limit] \in S
    BY <1>1, <2>2
  <2>8. \A k \in ToSet(answer.page) : k = out[limit] \/ cursorLess(k, out[limit])
    BY <2>3, <2>4 DEF ToSet
  <2> QED
    BY <2>1, <2>3, <2>5, <2>6, <2>7, <2>8
<1> QED
  BY <1>1, <1>2, <1>4, <1>5

-----------------------------------------------------------------------------
(* The inductive invariant. *)

(* Every term of the selector asked for is an equality.                    *)
PlainSelector == \A t \in asked : t.operator = "="

(* The keys wanted now.                                                    *)
WantedKeys == {k \in Keys : Wanted(k)}

ListingTypeOK ==
    /\ rows \in [Keys -> Labels \union {NoRow}]
    /\ IsFiniteSet({k \in Keys : rows[k] # NoRow})
    /\ scope \in Projects \union {AllProjects}
    /\ asked \in SUBSET Terms
    /\ token \in {Start, Done} \union Keys
    /\ items \in Seq(Keys)
    /\ changes \in Nat

(* Everything returned comes no later than the cursor ...                  *)
CursorInv ==
    /\ token = Start => items = <<>>
    /\ token \in Keys => \A k \in ToSet(items) : k = token \/ cursorLess(k, token)

(* ... the histories bracket what is wanted now ...                        *)
HistoryInv ==
    /\ steady \subseteq WantedKeys
    /\ WantedKeys \subseteq seen
    /\ changes = 0 => steady = seen

(* ... and what was wanted all along is returned or still ahead.           *)
AheadInv ==
    PlainSelector =>
        \A k \in steady :
            \/ k \in ToSet(items)
            \/ token = Start
            \/ token \in Keys /\ cursorLess(token, k)

ListingInv ==
    /\ ListingTypeOK
    /\ CursorInv
    /\ HistoryInv
    /\ Ascending
    /\ NothingInvented
    /\ AheadInv

-----------------------------------------------------------------------------
(* What List matches and what the client asks for. *)

(* A row List matches is wanted; under a plain selector every wanted row   *)
(* is matched.  A "!=" term matches no row at all.                         *)
LEMMA MatchesAndWanted ==
    ASSUME ListingTypeOK, NEW k \in Keys
    PROVE  /\ Matches(k) => Wanted(k)
           /\ PlainSelector /\ Wanted(k) => Matches(k)
<1> DEFINE term(t) == [key |-> t.key, bang |-> t.operator = "!=", value |-> t.value]
<1>1. asked \in SUBSET Terms /\ rows[k] \in Labels \union {NoRow}
  BY DEF ListingTypeOK
<1>2. scope = AllProjects \/ k[1] = scope <=> scope \in {AllProjects, k[1]}
  OBVIOUS
<1>3. parseLabelSelector(asked) = {term(t) : t \in asked}
  BY DEF parseLabelSelector
<1>4. ASSUME Matches(k)
      PROVE  Wanted(k)
  <2>1. rows[k] # NoRow /\ \A r \in parseLabelSelector(asked) : LabelOf(rows[k], r) = r.value
    BY <1>4 DEF Matches, matchesLabels
  <2>2. ASSUME NEW t \in asked
        PROVE  (rows[k][t.key] = t.value) <=> (t.operator = "=")
    <3>1. t.value \in LabelValues /\ t.operator \in {"=", "!="}
      BY <1>1, KnownOperators DEF Terms
    <3>2. LabelOf(rows[k], term(t)) = term(t).value
      BY <1>3, <2>1
    <3>3. (IF t.operator = "!=" THEN "" ELSE rows[k][t.key]) = t.value
      BY <3>2 DEF LabelOf
    <3> QED
      BY <3>1, <3>3, LabelsAreSet
  <2> QED
    BY <1>2, <1>4, <2>1, <2>2 DEF Matches, InScope, Wanted
<1>5. ASSUME PlainSelector, Wanted(k)
      PROVE  Matches(k)
  <2>1. ASSUME NEW r \in parseLabelSelector(asked)
        PROVE  LabelOf(rows[k], r) = r.value
    <3>1. PICK t \in asked : r = term(t)
      BY <1>3
    <3>2. t.operator = "=" /\ rows[k][t.key] = t.value
      BY <1>5 DEF PlainSelector, Wanted
    <3> QED
      BY <3>1, <3>2 DEF LabelOf
  <2> QED
    BY <1>2, <1>5, <2>1 DEF Matches, InScope, Wanted, matchesLabels
<1> QED
  BY <1>4, <1>5

(* The rows List still has to return.                                      *)
Ahead == {k \in Keys : Matches(k) /\ (token # Start => cursorLess(token, k))}

(* There are finitely many, they are wanted, and what was returned comes   *)
(* before them.                                                            *)
LEMMA AheadOfCursor ==
    ASSUME ListingInv, token # Done
    PROVE  /\ Ahead \in SUBSET Keys
           /\ IsFiniteSet(Ahead)
           /\ Ahead \subseteq WantedKeys
           /\ \A j \in ToSet(items), k \in Ahead : cursorLess(j, k)
<1>1. Ahead \in SUBSET {k \in Keys : rows[k] # NoRow}
  BY DEF Ahead, Matches
<1>2. IsFiniteSet(Ahead)
  BY <1>1, FS_Subset DEF ListingInv, ListingTypeOK
<1>3. Ahead \subseteq WantedKeys
  BY MatchesAndWanted DEF ListingInv, Ahead, WantedKeys
<1>4. ASSUME NEW j \in ToSet(items), NEW k \in Ahead
      PROVE  cursorLess(j, k)
  <2>1. token \in {Start} \union Keys /\ items \in Seq(Keys)
    BY DEF ListingInv, ListingTypeOK
  <2>2. token # Start
    BY <1>4 DEF ListingInv, CursorInv, ToSet
  <2>3. token \in Keys /\ cursorLess(token, k) /\ k \in Keys
    BY <2>1, <2>2 DEF Ahead
  <2>4. j \in Keys /\ (j = token \/ cursorLess(j, token))
    BY <2>1, <2>3 DEF ListingInv, CursorInv, ToSet
  <2> QED
    BY <2>3, <2>4, OrderIsTotal
<1> QED
  BY <1>1, <1>2, <1>3, <1>4

(* Ascending said with the order of cursors.                               *)
LEMMA AscendingIsOrdered ==
    Ascending <=> \A i, j \in DOMAIN items : i < j => cursorLess(items[i], items[j])
BY DEF Ascending, cursorLess

LEMMA ListingInit == Init => ListingInv
<1> SUFFICES ASSUME Init
             PROVE  ListingInv
  OBVIOUS
<1>1. ListingTypeOK
  BY DEF Init, ListingTypeOK
<1>2. CursorInv
  BY TokensAreNoKeys DEF Init, CursorInv
<1>3. HistoryInv
  BY DEF Init, HistoryInv, WantedKeys
<1>4. Ascending /\ NothingInvented
  BY DEF Init, Ascending, NothingInvented, ToSet
<1>5. AheadInv
  BY DEF Init, AheadInv
<1> QED
  BY <1>1, <1>2, <1>3, <1>4, <1>5 DEF ListingInv

(* A page extends what was returned in order, with wanted rows, up to a    *)
(* new cursor that skips nothing.                                          *)
LEMMA NextPageStep ==
    ASSUME ListingInv, NEW limit \in Limits, NextPage(limit)
    PROVE  ListingInv'
<1> DEFINE answer == List(token, limit)
           page == answer.page
<1>1. /\ token # Done
      /\ items' = items \o page
      /\ token' = answer.next
      /\ UNCHANGED <<rows, scope, asked, steady, seen, changes>>
  BY DEF NextPage, request
<1>2. /\ Ahead \in SUBSET Keys
      /\ IsFiniteSet(Ahead)
      /\ Ahead \subseteq WantedKeys
      /\ \A j \in ToSet(items), k \in Ahead : cursorLess(j, k)
  BY <1>1, AheadOfCursor
<1>3. answer = paginate(orderBy(Ahead), limit) /\ limit \in Nat
  BY LimitNumbers DEF List, Ahead
<1> HIDE DEF answer
<1>4. /\ page \in Seq(Ahead)
      /\ \A i, j \in 1..Len(page) : i < j => cursorLess(page[i], page[j])
      /\ \/ answer.next = Done /\ Ahead \subseteq ToSet(page)
         \/ /\ answer.next \in Ahead
            /\ \A k \in ToSet(page) : k = answer.next \/ cursorLess(k, answer.next)
            /\ \A k \in Ahead \ ToSet(page) : cursorLess(answer.next, k)
  BY <1>2, <1>3, PageOfSet
<1> HIDE DEF page
<1>5. items \in Seq(Keys) /\ page \in Seq(Keys)
  BY <1>2, <1>4 DEF ListingInv, ListingTypeOK
<1>6. ToSet(items') = ToSet(items) \union ToSet(page)
  <2>1. /\ DOMAIN items' = 1..(Len(items) + Len(page))
        /\ \A i \in 1..(Len(items) + Len(page)) :
              items'[i] = IF i <= Len(items) THEN items[i] ELSE page[i - Len(items)]
    BY <1>1, <1>5
  <2>2. \A i \in DOMAIN items : items[i] = items'[i] /\ i \in DOMAIN items'
    BY <1>5, <2>1
  <2>3. \A i \in DOMAIN page : page[i] = items'[Len(items) + i] /\ Len(items) + i \in DOMAIN items'
    BY <1>5, <2>1
  <2>4. \A i \in DOMAIN items' : \/ i \in DOMAIN items /\ items'[i] = items[i]
                                 \/ /\ i - Len(items) \in DOMAIN page
                                    /\ items'[i] = page[i - Len(items)]
    BY <1>5, <2>1
  <2> QED
    BY <2>2, <2>3, <2>4 DEF ToSet
<1>7. ToSet(page) \subseteq Ahead /\ ToSet(items) \subseteq Keys
  BY <1>4, <1>5 DEF ToSet
<1>8. token' \in {Done} \union Ahead /\ token' # Start
  BY <1>1, <1>2, <1>4, TokensAreNoKeys
<1>9. ListingTypeOK'
  <2>1. items' \in Seq(Keys)
    BY <1>1, <1>5
  <2> QED
    BY <1>1, <1>2, <1>8, <2>1 DEF ListingInv, ListingTypeOK
<1>10. CursorInv'
  <2>1. ASSUME token' \in Keys, NEW k \in ToSet(items')
        PROVE  k = token' \/ cursorLess(k, token')
    <3>1. token' # Done
      BY <2>1, TokensAreNoKeys
    <3>2. token' \in Ahead /\ \A j \in ToSet(page) : j = token' \/ cursorLess(j, token')
      BY <1>1, <1>4, <3>1
    <3> QED
      BY <1>2, <1>6, <2>1, <3>2
  <2> QED
    BY <1>8, <2>1 DEF CursorInv
<1>11. HistoryInv'
  BY <1>1 DEF ListingInv, HistoryInv, WantedKeys, Wanted
<1>12. Ascending'
  <2>1. \A i, j \in DOMAIN items' : i < j => cursorLess(items'[i], items'[j])
    <3> SUFFICES ASSUME NEW i \in DOMAIN items', NEW j \in DOMAIN items', i < j
                 PROVE  cursorLess(items'[i], items'[j])
      OBVIOUS
    <3>1. /\ i \in 1..(Len(items) + Len(page)) /\ j \in 1..(Len(items) + Len(page))
          /\ items'[i] = IF i <= Len(items) THEN items[i] ELSE page[i - Len(items)]
          /\ items'[j] = IF j <= Len(items) THEN items[j] ELSE page[j - Len(items)]
      BY <1>1, <1>5
    <3>2. CASE j <= Len(items)
      <4>1. i \in DOMAIN items /\ j \in DOMAIN items /\ items'[i] = items[i] /\ items'[j] = items[j]
        BY <1>5, <3>1, <3>2
      <4> QED
        BY <4>1, AscendingIsOrdered DEF ListingInv
    <3>3. CASE i <= Len(items) /\ ~(j <= Len(items))
      <4>1. items'[i] \in ToSet(items)
        BY <1>5, <3>1, <3>3 DEF ToSet
      <4>2. items'[j] \in ToSet(page)
        <5>1. j - Len(items) \in DOMAIN page
          BY <1>5, <3>1, <3>3
        <5> QED
          BY <3>1, <3>3, <5>1 DEF ToSet
      <4> QED
        BY <1>2, <1>7, <4>1, <4>2
    <3>4. CASE ~(i <= Len(items))
      <4>1. /\ i - Len(items) \in 1..Len(page) /\ j - Len(items) \in 1..Len(page)
            /\ i - Len(items) < j - Len(items)
            /\ items'[i] = page[i - Len(items)] /\ items'[j] = page[j - Len(items)]
        BY <1>5, <3>1, <3>4
      <4> QED
        BY <1>4, <4>1
    <3> QED
      BY <3>2, <3>3, <3>4
  <2> QED
    BY <2>1 DEF Ascending, cursorLess
<1>13. NothingInvented'
  <2>1. Ahead \subseteq seen /\ seen' = seen
    BY <1>1, <1>2 DEF ListingInv, HistoryInv
  <2>2. ToSet(items) \subseteq seen
    BY DEF ListingInv, NothingInvented
  <2>3. ToSet(items') \subseteq seen'
    BY <1>6, <1>7, <2>1, <2>2
  <2> QED
    BY <2>3 DEF NothingInvented
<1>14. AheadInv'
  <2> SUFFICES ASSUME PlainSelector, NEW k \in steady
               PROVE  k \in ToSet(items') \/ (token' \in Keys /\ cursorLess(token', k))
    BY <1>1 DEF AheadInv, PlainSelector
  <2>1. CASE k \in ToSet(items)
    BY <1>6, <2>1
  <2>2. CASE k \notin ToSet(items)
    <3>1. k \in WantedKeys
      BY DEF ListingInv, HistoryInv
    <3>2. Matches(k) /\ k \in Keys
      BY <3>1, MatchesAndWanted DEF ListingInv, WantedKeys
    <3>3. token = Start \/ cursorLess(token, k)
      BY <2>2 DEF ListingInv, AheadInv
    <3>4. k \in Ahead
      BY <3>2, <3>3 DEF Ahead
    <3>5. CASE k \in ToSet(page)
      BY <1>6, <3>5
    <3>6. CASE k \notin ToSet(page)
      BY <1>1, <1>2, <1>4, <3>4, <3>6
    <3> QED
      BY <3>5, <3>6
  <2> QED
    BY <2>1, <2>2
<1> QED
  BY <1>9, <1>10, <1>11, <1>12, <1>13, <1>14 DEF ListingInv

(* A change of one row touches neither the cursor nor what was returned,   *)
(* and the histories follow it.                                            *)
LEMMA ChangeStep ==
    ASSUME ListingInv, NEW k \in Keys, NEW row \in Labels \union {NoRow}, Change(k, row)
    PROVE  ListingInv'
<1>1. /\ rows' = [rows EXCEPT ![k] = row]
      /\ UNCHANGED <<scope, asked, token, items>>
      /\ steady' = {j \in steady : Wanted(j)'}
      /\ seen' = seen \union {j \in Keys : Wanted(j)'}
      /\ changes' = changes + 1
  BY DEF Change, request
<1>2. ListingTypeOK'
  <2>1. rows' \in [Keys -> Labels \union {NoRow}]
    BY <1>1 DEF ListingInv, ListingTypeOK
  <2>2. IsFiniteSet({j \in Keys : rows'[j] # NoRow})
    <3> DEFINE held == {j \in Keys : rows[j] # NoRow}
               heldNext == {j \in Keys : rows'[j] # NoRow}
    <3>1. IsFiniteSet(held)
      BY DEF ListingInv, ListingTypeOK
    <3>2. heldNext \in SUBSET (held \union {k})
      BY <1>1 DEF ListingInv, ListingTypeOK
    <3> HIDE DEF held, heldNext
    <3>3. IsFiniteSet(held \union {k})
      BY <3>1, FS_AddElement
    <3>4. IsFiniteSet(heldNext)
      BY <3>2, <3>3, FS_Subset
    <3> QED
      BY <3>4 DEF heldNext
  <2>3. changes' \in Nat
    BY <1>1 DEF ListingInv, ListingTypeOK
  <2> QED
    BY <1>1, <2>1, <2>2, <2>3 DEF ListingInv, ListingTypeOK
<1>3. CursorInv'
  BY <1>1 DEF ListingInv, CursorInv
<1>4. HistoryInv'
  <2>1. WantedKeys' = {j \in Keys : Wanted(j)'}
    BY DEF WantedKeys
  <2>2. steady' \subseteq WantedKeys' /\ WantedKeys' \subseteq seen'
    BY <1>1, <2>1 DEF ListingInv, HistoryInv, WantedKeys
  <2>3. changes' # 0
    BY <1>1 DEF ListingInv, ListingTypeOK
  <2> QED
    BY <2>2, <2>3 DEF HistoryInv
<1>5. Ascending'
  BY <1>1 DEF ListingInv, Ascending
<1>6. NothingInvented'
  BY <1>1 DEF ListingInv, NothingInvented
<1>7. AheadInv'
  <2>1. steady' \subseteq steady
    BY <1>1
  <2> QED
    BY <1>1, <2>1 DEF ListingInv, AheadInv, PlainSelector
<1> QED
  BY <1>2, <1>3, <1>4, <1>5, <1>6, <1>7 DEF ListingInv

LEMMA ListingStep == ListingInv /\ [Next]_vars => ListingInv'
<1> SUFFICES ASSUME ListingInv, [Next]_vars
             PROVE  ListingInv'
  OBVIOUS
<1>1. ASSUME NEW limit \in Limits, NextPage(limit)
      PROVE  ListingInv'
  BY <1>1, NextPageStep
<1>2. ASSUME NEW k \in Keys, RemoveRow(k)
      PROVE  ListingInv'
  BY <1>2, ChangeStep DEF RemoveRow
<1>3. ASSUME NEW k \in Keys, NEW labels \in Labels, InsertRow(k, labels) \/ RelabelRow(k, labels)
      PROVE  ListingInv'
  BY <1>3, ChangeStep DEF InsertRow, RelabelRow
<1>4. CASE Finished \/ UNCHANGED vars
  <2>1. UNCHANGED <<rows, scope, asked, token, items, steady, seen, changes>>
    BY <1>4 DEF Finished, vars
  <2>2. ListingTypeOK'
    BY <2>1 DEF ListingInv, ListingTypeOK
  <2>3. CursorInv' /\ Ascending' /\ NothingInvented'
    BY <2>1 DEF ListingInv, CursorInv, Ascending, NothingInvented
  <2>4. HistoryInv'
    BY <2>1 DEF ListingInv, HistoryInv, WantedKeys, Wanted
  <2>5. AheadInv'
    BY <2>1 DEF ListingInv, AheadInv, PlainSelector
  <2> QED
    BY <2>2, <2>3, <2>4, <2>5 DEF ListingInv
<1> QED
  BY <1>1, <1>2, <1>3, <1>4 DEF Next

LEMMA ListingInvHolds == Spec => []ListingInv
BY ListingInit, ListingStep, PTL DEF Spec

-----------------------------------------------------------------------------
(* The theorems. *)

(* No Workflow is returned twice, and pages come in order, whatever the    *)
(* page sizes and however the table changes under the listing.             *)
THEOREM ListingsAscend == Spec => []Ascending
<1>1. ListingInv => Ascending
  BY DEF ListingInv
<1> QED
  BY <1>1, ListingInvHolds, PTL

(* Whatever a listing returns was wanted at some time of the listing, for  *)
(* every selector, "!=" terms included.                                    *)
THEOREM ListingsInventNothing == Spec => []NothingInvented
<1>1. ListingInv => NothingInvented
  BY DEF ListingInv
<1> QED
  BY <1>1, ListingInvHolds, PTL

(* A listing under a selector of equalities returns every Workflow wanted  *)
(* from its beginning to its end.                                          *)
THEOREM PlainListingsMissNothing == Spec => [](PlainSelector => NothingMissed)
<1>1. ListingInv => (PlainSelector => NothingMissed)
  BY TokensAreNoKeys DEF ListingInv, AheadInv, NothingMissed
<1> QED
  BY <1>1, ListingInvHolds, PTL

(* So a client that only writes equalities never misses a Workflow.        *)
THEOREM ListingsMissNothing ==
    ASSUME Operators \subseteq {"="}
    PROVE  Spec => []NothingMissed
<1>1. ListingInv => PlainSelector
  BY DEF ListingInv, ListingTypeOK, Terms, PlainSelector
<1>2. (PlainSelector => NothingMissed) /\ ListingInv => NothingMissed
  BY <1>1
<1> QED
  BY <1>2, PlainListingsMissNothing, ListingInvHolds, PTL

(* A plain listing of a table nobody changes returns exactly the rows the  *)
(* selector describes, as service.proto documents it.                      *)
THEOREM PlainSelectorAsDocumented == Spec => [](PlainSelector => SelectorAsDocumented)
<1>1. ListingInv => (PlainSelector => SelectorAsDocumented)
  <2> SUFFICES ASSUME ListingInv, PlainSelector, token = Done, changes = 0
               PROVE  ToSet(items) = WantedKeys
    BY DEF SelectorAsDocumented, WantedKeys
  <2>1. steady = WantedKeys /\ seen = WantedKeys
    BY DEF ListingInv, HistoryInv
  <2>2. steady \subseteq ToSet(items)
    BY TokensAreNoKeys DEF ListingInv, AheadInv
  <2>3. ToSet(items) \subseteq seen
    BY DEF ListingInv, NothingInvented
  <2> QED
    BY <2>1, <2>2, <2>3
<1> QED
  BY <1>1, ListingInvHolds, PTL
=============================================================================
