------------------------------ MODULE ReadPath -------------------------------
(***************************************************************************)
(* The operator's side (services/queries.py, api/routes_read.py): lists    *)
(* read page by page and exceptions resolved, while the engine writes      *)
(* results, other operators resolve, and retention deletes demo accounts.  *)
(*                                                                         *)
(* An Item is a result together with the exception a break opens; it takes *)
(* its id from a sequence before it commits, so ids need not appear in     *)
(* order.  notes[i] are the resolution notes of item i's exception, and    *)
(* None while closed_at is null.                                           *)
(***************************************************************************)
EXTENDS Integers, FiniteSets, FiniteSetsExt

CONSTANTS
    Row,          \* per id: [tenant, status, layer], of a result written some time
    Reader,       \* a client paging through one list
    Operator,     \* a human resolving exceptions; its notes carry its name
    TenantOf,     \* the account of each reader and operator
    DemoTenant,   \* the accounts retention may delete
    PageSize,     \* limit
    None

\* ReconStatus.
Status == {"matched", "amount_drift", "time_drift", "unmatched_gateway_only",
           "unmatched_ledger_only", "duplicate"}

ASSUME ItemAssumption ==
    /\ DOMAIN Row \subseteq Nat \ {0} /\ DOMAIN Row # {}
    /\ \A i \in DOMAIN Row : Row[i].status \in Status
    /\ PageSize \in Nat \ {0}
    /\ None \notin Operator

Item == DOMAIN Row

VARIABLES
    live,         \* items committed and not deleted
    deleted,      \* accounts retention has deleted
    notes,
    scan,         \* per reader: list, cursor, items returned; and what it owes
    resolve       \* per operator: where its request is, on which item, the answer

vars == <<live, deleted, notes, scan, resolve>>

\* The two endpoints with their filters.
List == [of : {"results"}, status : {"any", "matched"}]
            \cup [of : {"exceptions"}, status : {"any", "open", "closed"}]

NoScan == [at |-> "idle"]
Scan == [at : {"page", "done"}, list : List, cursor : Item \cup {0},
         returned : SUBSET Item, repeated : BOOLEAN, owed : SUBSET Item]
Resolution == [at : {"idle", "close", "existing", "found"}, item : Item,
               answer : {0, 200, 404, 409, 500}]
NoRequest == [at |-> "idle", item |-> CHOOSE i \in Item : TRUE, answer |-> 0]

Init ==
    /\ live = {}
    /\ deleted = {}
    /\ notes = [i \in Item |-> None]
    /\ scan = [r \in Reader |-> NoScan]
    /\ resolve = [o \in Operator |-> NoRequest]

-----------------------------------------------------------------------------
\* Every break has an exception (BreaksOpenExceptions in Reconciliation).
IsBreak(i) == Row[i].status \in {"amount_drift", "unmatched_gateway_only", "unmatched_ledger_only"}

\* The predicate of fetch_results_page and of fetch_exceptions_page.
Selects(list, i, ns) ==
    \/ list.of = "results" /\ list.status \in {"any", Row[i].status}
    \/ /\ list.of = "exceptions" /\ IsBreak(i)
       /\ list.status \in {"any", IF ns[i] = None THEN "open" ELSE "closed"}

Visible_all(tenant, list) == {i \in live : Selects(list, i, notes)}    \* defect variant: no tenant

Visible(tenant, list) == {i \in live : Row[i].tenant = tenant /\ Selects(list, i, notes)}

\* What a scan must return: what was there when it began and has been ever since.
Owe(items, ns) == [r \in Reader |->
    IF scan[r].at = "page"
    THEN [scan[r] EXCEPT !.owed = {i \in @ \cap items : Selects(scan[r].list, i, ns)}]
    ELSE scan[r]]

-----------------------------------------------------------------------------
(***************************************************************************)
(* The rest of the system.                                                 *)
(***************************************************************************)
Commit(i) ==
    /\ i \notin live /\ Row[i].tenant \notin deleted
    /\ live' = live \cup {i}
    /\ UNCHANGED <<deleted, notes, scan, resolve>>

KeptNotes_all(t) == notes    \* defect variant: the exceptions are not deleted

KeptNotes(t) == [i \in Item |-> IF Row[i].tenant = t THEN None ELSE notes[i]]

DeleteAccount(t) ==
    /\ t \notin deleted
    /\ deleted' = deleted \cup {t}
    /\ live' = {i \in live : Row[i].tenant # t}
    /\ notes' = KeptNotes(t)
    /\ scan' = Owe(live', notes')
    /\ UNCHANGED resolve

-----------------------------------------------------------------------------
(***************************************************************************)
(* list_transactions and list_exceptions.                                  *)
(***************************************************************************)
StartScan(r, list) ==
    /\ scan[r] = NoScan
    /\ scan' = [scan EXCEPT ![r] =
        [at |-> "page", list |-> list, cursor |-> 0, returned |-> {},
         repeated |-> FALSE, owed |-> Visible(TenantOf[r], list)]]
    /\ UNCHANGED <<live, deleted, notes, resolve>>

BeyondCursor(i, cursor) == cursor = 0 \/ i < cursor

\* ORDER BY id DESC LIMIT n.
Newest(S, n) == {i \in S : Cardinality({j \in S : j > i}) < n}

_apply_keyset(S, cursor) == Newest({i \in S : BeyondCursor(i, cursor)}, PageSize + 1)

\* Defect variant: the extra row, not the last one returned, is the cursor.
next_cursor_extra(rows) ==
    IF Cardinality(rows) > PageSize THEN Min(rows) ELSE 0

\* The last row returned when the extra one shows there is more; 0 for None.
next_cursor(rows) ==
    IF Cardinality(rows) > PageSize THEN Min(Newest(rows, PageSize)) ELSE 0

fetch_page(r) ==
    LET s    == scan[r]
        rows == _apply_keyset(Visible(TenantOf[r], s.list), s.cursor)
        page == Newest(rows, PageSize)
    IN
    /\ s.at = "page"
    /\ scan' = [scan EXCEPT ![r] =
        [s EXCEPT !.at = IF next_cursor(rows) = 0 THEN "done" ELSE "page",
                  !.cursor = next_cursor(rows),
                  !.returned = @ \cup page,
                  !.repeated = @ \/ page \cap s.returned # {}]]
    /\ UNCHANGED <<live, deleted, notes, resolve>>

-----------------------------------------------------------------------------
(***************************************************************************)
(* resolve_exception: two statements in one transaction, and a read after  *)
(* its commit.                                                             *)
(***************************************************************************)
Scoped(o, i) == i \in live /\ IsBreak(i) /\ Row[i].tenant = TenantOf[o]

\* Defect variant: no compare, only set.
CanClose_again(o, i) == Scoped(o, i)

\* close_exception's WHERE.
CanClose(o, i) == Scoped(o, i) /\ notes[i] = None

\* An id that is no exception's is answered like one that has not committed.
Request(o, i) ==
    /\ IsBreak(i)
    /\ resolve[o].at = "idle"
    /\ resolve[o].answer = 0
    /\ resolve' = [resolve EXCEPT ![o] = [at |-> "close", item |-> i, answer |-> 0]]
    /\ UNCHANGED <<live, deleted, notes, scan>>

close_exception(o) ==
    LET i == resolve[o].item IN
    /\ resolve[o].at = "close"
    /\ \/ /\ CanClose(o, i)
          /\ notes' = [notes EXCEPT ![i] = o]
          /\ resolve' = [resolve EXCEPT ![o].at = "found"]
       \/ /\ ~CanClose(o, i)
          /\ resolve' = [resolve EXCEPT ![o].at = "existing"]
          /\ UNCHANGED notes
    /\ scan' = Owe(live, notes')
    /\ UNCHANGED <<live, deleted>>

Answer(o, code) == resolve' = [resolve EXCEPT ![o].at = "idle", ![o].answer = code]

fetch_existing(o) ==
    /\ resolve[o].at = "existing"
    /\ Answer(o, IF Scoped(o, resolve[o].item) THEN 409 ELSE 404)
    /\ UNCHANGED <<live, deleted, notes, scan>>

\* The assertion that the row is still there; a 500 when it is not.
fetch_found(o) ==
    /\ resolve[o].at = "found"
    /\ Answer(o, IF Scoped(o, resolve[o].item) THEN 200 ELSE 500)
    /\ UNCHANGED <<live, deleted, notes, scan>>

-----------------------------------------------------------------------------
(***************************************************************************)
(* get_stats over the results of an account in a window.                   *)
(***************************************************************************)
Counted(window, statuses) == Cardinality({i \in window : Row[i].status \in statuses})

matched(window)    == Counted(window, {"matched"})
unmatched(window)  == Counted(window, {"unmatched_gateway_only", "unmatched_ledger_only"})
duplicates(window) == Counted(window, {"duplicate"})

\* Defect variant: drift by layer, which counts a match made by that layer twice.
drift_by_layer(window) == Cardinality({i \in window : Row[i].layer \in {"time_drift", "amount_drift"}})

drift(window) == Counted(window, {"amount_drift", "time_drift"})

total(window) == matched(window) + unmatched(window) + drift(window)

-----------------------------------------------------------------------------
Resolving(o) == close_exception(o) \/ fetch_existing(o) \/ fetch_found(o)

Next ==
    \/ \E i \in Item : Commit(i)
    \/ \E t \in DemoTenant : DeleteAccount(t)
    \/ \E r \in Reader, list \in List : StartScan(r, list)
    \/ \E r \in Reader : fetch_page(r)
    \/ \E o \in Operator, i \in Item : Request(o, i)
    \/ \E o \in Operator : Resolving(o)

Spec == Init /\ [][Next]_vars

-----------------------------------------------------------------------------
(***************************************************************************)
(* Type invariant.                                                         *)
(***************************************************************************)
TypeOK ==
    /\ live \subseteq Item
    /\ deleted \subseteq DemoTenant
    /\ notes \in [Item -> Operator \cup {None}]
    /\ \A i \in Item : notes[i] # None => i \in live
    /\ scan \in [Reader -> Scan \cup {NoScan}]
    /\ resolve \in [Operator -> Resolution]

(***************************************************************************)
(* Following the cursor to its end returns every item that was on the list *)
(* from the first page to the last, whatever was added, resolved or        *)
(* deleted in between, and no page repeats an item of an earlier one (the  *)
(* keyset of _apply_keyset with the cursor of the fetch_..._page).         *)
(***************************************************************************)
PagesAreExact ==
    \A r \in Reader : scan[r] # NoScan =>
        /\ ~scan[r].repeated
        /\ scan[r].at = "done" => scan[r].owed \subseteq scan[r].returned

(***************************************************************************)
(* A list shows items of its reader's account only, and an exception is    *)
(* resolved from its own account only, also by a request for a foreign id. *)
(***************************************************************************)
OwnTenantOnly ==
    /\ \A r \in Reader : scan[r] # NoScan =>
        \A i \in scan[r].returned : Row[i].tenant = TenantOf[r]
    /\ \A i \in Item : notes[i] # None => Row[i].tenant = TenantOf[notes[i]]

(***************************************************************************)
(* Of several operators resolving one exception exactly one is told it     *)
(* did, and its notes stay; one that was refused finds its notes nowhere.  *)
(* A 200 leaves the operator's notes until the account is deleted, and the *)
(* assertion after the commit ("just closed it inside this request") fails *)
(* only when retention deleted the account in between.                     *)
(***************************************************************************)
AnswersAreTrue ==
    \A o \in Operator :
        LET i == resolve[o].item IN
        /\ resolve[o].answer = 200 => notes[i] = o \/ Row[i].tenant \in deleted
        /\ resolve[o].answer \in {404, 409} => notes[i] # o
        /\ resolve[o].answer = 500 => Row[i].tenant \in deleted

(***************************************************************************)
(* Whatever part of the results the window cuts out, the stats count every *)
(* result in it once, as part of the total or as a duplicate: a match      *)
(* through the time layer is a match and not also drift.                   *)
(***************************************************************************)
StatsCountOnce ==
    \A window \in SUBSET live :
        total(window) + duplicates(window) = Cardinality(window)
=============================================================================
