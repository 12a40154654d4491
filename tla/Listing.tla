------------------------------- MODULE Listing -------------------------------
(***************************************************************************)
(* A client walks ListWorkflows page by page while other clients create,   *)
(* delete and relabel Workflows: store.List with its label filter, cursor  *)
(* and page limit (internal/store/sqlite.go), over a table that changes    *)
(* between the pages.                                                      *)
(*                                                                         *)
(* Keys are <<project, name>> with numbers for the strings, whose only use *)
(* here is their order.  The labels of a row are a function on LabelKeys   *)
(* in which a missing label is "", what a Go map lookup returns for it.    *)
(***************************************************************************)
EXTENDS Naturals, FiniteSets, SequencesExt

CONSTANTS
    Projects,       \* names of Projects, as numbers
    Names,          \* names of Workflows, as numbers
    LabelKeys,      \* label keys
    LabelValues,    \* label values, "" not among them
    Operators,      \* the comparisons clients write in a selector: "=", "!="
    NoRow,          \* no row under this key
    Limits,         \* page sizes the client asks for, 0 for no limit
    MaxChanges      \* bound: changes of the table while the client pages

AllProjects == 0    \* the empty project scope: every project of the tenant

ASSUME ProjectNumbers == Projects \subseteq Nat \ {AllProjects}
ASSUME NameNumbers == Names \subseteq Nat
ASSUME LabelsAreSet == "" \notin LabelValues
ASSUME KnownOperators == Operators \subseteq {"=", "!="}
ASSUME LimitNumbers == Limits \subseteq Nat
ASSUME ChangesBound == MaxChanges \in Nat

Keys == Projects \X Names
Labels == [LabelKeys -> LabelValues \union {""}]

ASSUME NoRowIsNoLabels == NoRow \notin Labels

(* One requirement of the label_selector of a request. *)
Terms == [key : LabelKeys, operator : Operators, value : LabelValues]

Start == <<>>       \* the empty token of the first page
Done == <<0>>       \* the empty token of the last page

VARIABLES
    rows,           \* rows[k]: the labels of the row under k, or NoRow
    scope,          \* the project asked for, or AllProjects
    asked,          \* the terms of the label_selector asked for
    token,          \* Start, the cursor to continue after, or Done
    items,          \* the keys returned so far, page after page
    steady,         \* history: keys wanted in every state so far
    seen,           \* history: keys wanted in some state so far
    changes         \* number of changes of the table

request == <<scope, asked>>
vars == <<rows, scope, asked, token, items, steady, seen, changes>>

-----------------------------------------------------------------------------
(* store.List. *)

(* Mutant: the cursor compares names only. *)
cursorLess_NameOnly(a, b) == a[2] < b[2]

cursorLess(a, b) == a[1] < b[1] \/ (a[1] = b[1] /\ a[2] < b[2])

(* parseLabelSelector cuts a term at its first "=": of "env!=prod" it      *)
(* makes the key "env!", a label no row carries.                           *)
parseLabelSelector(terms) ==
    {[key |-> t.key, bang |-> t.operator = "!=", value |-> t.value] : t \in terms}

LabelOf(labels, r) == IF r.bang THEN "" ELSE labels[r.key]

(* Mutant: a row without the label passes. *)
matchesLabels_Lenient(labels, selector) ==
    \A r \in selector : LabelOf(labels, r) \in {"", r.value}

matchesLabels(labels, selector) == \A r \in selector : LabelOf(labels, r) = r.value

InScope(k) == scope = AllProjects \/ k[1] = scope

Matches(k) == rows[k] # NoRow /\ InScope(k) /\ matchesLabels(rows[k], parseLabelSelector(asked))

(* Mutant: the token names the first row left out. *)
paginate_NextKey(out, limit) ==
    IF limit = 0 \/ Len(out) <= limit
    THEN [page |-> out, next |-> Done]
    ELSE [page |-> SubSeq(out, 1, limit), next |-> out[limit + 1]]

paginate(out, limit) ==
    IF limit = 0 \/ Len(out) <= limit
    THEN [page |-> out, next |-> Done]
    ELSE [page |-> SubSeq(out, 1, limit), next |-> out[limit]]

(* ORDER BY project, name: row i is the one that i rows come no later than. *)
orderBy(S) ==
    LET NotAfter(k) == {j \in S : j[1] < k[1] \/ (j[1] = k[1] /\ j[2] <= k[2])}
    IN  [i \in 1..Cardinality(S) |-> CHOOSE k \in S : Cardinality(NotAfter(k)) = i]

(* The rows in order; the cursor skips what earlier pages returned. *)
List(after, limit) ==
    paginate(orderBy({k \in Keys : Matches(k) /\ (after # Start => cursorLess(after, k))}), limit)

-----------------------------------------------------------------------------
(* What the client asks for, said without the code: a row of the project   *)
(* in scope whose labels meet every term of the selector.                  *)
Wanted(k) ==
    /\ rows[k] # NoRow
    /\ scope \in {AllProjects, k[1]}
    /\ \A t \in asked : (rows[k][t.key] = t.value) <=> (t.operator = "=")

Init ==
    /\ rows \in [Keys -> Labels \union {NoRow}]
    /\ IsFiniteSet({k \in Keys : rows[k] # NoRow})
    /\ scope \in Projects \union {AllProjects}
    /\ asked \in SUBSET Terms
    /\ \A t, u \in asked : t.key = u.key => t = u
    /\ token = Start
    /\ items = <<>>
    /\ steady = {k \in Keys : Wanted(k)}
    /\ seen = steady
    /\ changes = 0

(* The next page: the client sends the token of the last one and whatever  *)
(* page size it likes.                                                     *)
NextPage(limit) ==
    /\ token # Done
    /\ LET answer == List(token, limit)
       IN  /\ items' = items \o answer.page
           /\ token' = answer.next
    /\ UNCHANGED <<rows, request, steady, seen, changes>>

(* Create, Delete or Update of a Workflow by somebody else. *)
Change(k, row) ==
    /\ token # Done
    /\ changes < MaxChanges
    /\ UNCHANGED <<request, token, items>>
    /\ rows' = [rows EXCEPT ![k] = row]
    /\ steady' = {j \in steady : Wanted(j)'}
    /\ seen' = seen \union {j \in Keys : Wanted(j)'}
    /\ changes' = changes + 1

InsertRow(k, labels) == rows[k] = NoRow /\ Change(k, labels)
RemoveRow(k) == rows[k] # NoRow /\ Change(k, NoRow)
RelabelRow(k, labels) == rows[k] \notin {NoRow, labels} /\ Change(k, labels)

(* The listing is over. *)
Finished == token = Done /\ UNCHANGED vars

Next ==
    \/ \E limit \in Limits : NextPage(limit)
    \/ \E k \in Keys :
          RemoveRow(k) \/ \E labels \in Labels : InsertRow(k, labels) \/ RelabelRow(k, labels)
    \/ Finished

Spec == Init /\ [][Next]_vars

-----------------------------------------------------------------------------
(* Properties. *)

(* Over all the pages, however sized, the keys come in strictly ascending  *)
(* order: no Workflow is returned twice ("already returned on a prior      *)
(* page"), even one deleted and created again in between.                  *)
Ascending ==
    \A i, j \in DOMAIN items :
        i < j => \/ items[i][1] < items[j][1]
                 \/ items[i][1] = items[j][1] /\ items[i][2] < items[j][2]

(* A Workflow that was there and matched all along is returned, whatever   *)
(* came and went around the cursor, the row the cursor names included.     *)
NothingMissed == token = Done => steady \subseteq ToSet(items)

(* What is returned matched the request at some time of the listing. *)
NothingInvented == ToSet(items) \subseteq seen

-----------------------------------------------------------------------------
(* service.proto documents the selector "team=core,env!=prod": a listing   *)
(* of a table nobody changes returns exactly the rows it describes.        *)
SelectorAsDocumented ==
    token = Done /\ changes = 0 => ToSet(items) = {k \in Keys : Wanted(k)}
=============================================================================
