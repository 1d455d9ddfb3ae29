--------------------------- MODULE ReadPathProofs ---------------------------
(***************************************************************************)
(* Pages neither skip nor repeat, lists stay within their account, answers *)
(* are true and stats count once: for any results, readers, operators and  *)
(* page size.                                                              *)
(***************************************************************************)
EXTENDS ReadPath, FiniteSetTheorems, NaturalsInduction, TLAPS

-----------------------------------------------------------------------------
(***************************************************************************)
(* The inductive invariant.                                                *)
(***************************************************************************)
LiveInv ==
    /\ IsFiniteSet(live)
    /\ \A i \in live : Row[i].tenant \notin deleted

\* The cursor separates what a scan has returned from what it still owes, which is
\* all still on the list.  A finished scan owes nothing it has not returned.
ScanIsSound(r, s) ==
    \/ s = NoScan
    \/ /\ s \in Scan
       /\ ~s.repeated
       /\ \A i \in s.returned : Row[i].tenant = TenantOf[r]
       /\ s.at = "done" => s.owed \subseteq s.returned
       /\ s.at = "page" =>
            /\ \A i \in s.returned : s.cursor # 0 /\ s.cursor <= i
            /\ \A i \in s.owed : i \in s.returned \/ BeyondCursor(i, s.cursor)
            /\ s.owed \subseteq Visible(TenantOf[r], s.list)

ScansAreSound == \A r \in Reader : ScanIsSound(r, scan[r])

\* Notes are written by one request, which knows it, and only for its own account.
NotesAreAnswered ==
    \A i \in Item, o \in Operator : notes[i] = o =>
        /\ Row[i].tenant = TenantOf[o]
        /\ resolve[o].item = i /\ (resolve[o].at = "found" \/ resolve[o].answer = 200)

RequestsAreTrue ==
    \A o \in Operator :
        /\ resolve[o].at # "idle" => resolve[o].answer = 0
        /\ resolve[o].at = "found" =>
            LET i == resolve[o].item IN
            /\ IsBreak(i) /\ Row[i].tenant = TenantOf[o]
            /\ notes[i] = o \/ Row[i].tenant \in deleted

IInv ==
    /\ TypeOK
    /\ LiveInv
    /\ ScansAreSound
    /\ NotesAreAnswered
    /\ RequestsAreTrue
    /\ AnswersAreTrue

-----------------------------------------------------------------------------
(***************************************************************************)
(* Newest: what ORDER BY id DESC LIMIT n returns.                          *)
(***************************************************************************)
LEMMA NatWellFounded ==
    ASSUME NEW S \in SUBSET Nat, S # {}
    PROVE  \E m \in S : \A x \in S : m <= x
<1>1. PICK R : R = {p \in Nat \X Nat : p[1] < p[2]}
  OBVIOUS
<1>2. OpToRel(<, Nat) = R
  BY <1>1 DEF OpToRel
<1>3. IsWellFoundedOn(R, Nat)
  BY <1>2, NatLessThanWellFounded
<1>4. PICK m \in S : \A x \in S : ~ (<<x, m>> \in R)
  BY <1>3, WFMin
<1>5. \A x \in S : ~ (x < m) /\ x \in Nat
  BY <1>1, <1>4
<1> QED
  BY <1>5

\* A finite set of ids has a newest one: it has the fewest ids above it.
LEMMA FiniteMax ==
    ASSUME NEW S \in SUBSET Nat, IsFiniteSet(S), S # {}
    PROVE  \E x \in S : \A y \in S : y <= x
<1> DEFINE Above(x) == {j \in S : j > x}
<1>1. \A x : IsFiniteSet(Above(x)) /\ Cardinality(Above(x)) \in Nat
  BY FS_Subset, FS_CardinalityType
<1>2. PICK C : C = {Cardinality(Above(x)) : x \in S}
  OBVIOUS
<1>3. C \in SUBSET Nat /\ C # {}
  BY <1>1, <1>2
<1>4. PICK m \in C : \A c \in C : m <= c
  BY <1>3, NatWellFounded
<1>5. PICK x \in S : m = Cardinality(Above(x))
  BY <1>2, <1>4
<1>6. ASSUME NEW y \in S PROVE y <= x
  <2> SUFFICES ASSUME x < y PROVE FALSE
    OBVIOUS
  <2>0. (\A j \in S : j > y => j > x) /\ y > x /\ ~(y > y)
    <3>1. x \in Nat /\ y \in Nat /\ \A j \in S : j \in Nat
      OBVIOUS
    <3> QED
      BY <3>1
  <2>1. Above(y) \subseteq Above(x) /\ y \in Above(x) /\ y \notin Above(y)
    BY <2>0, Zenon
  <2>2. Cardinality(Above(y)) <= Cardinality(Above(x)) /\ Cardinality(Above(y)) # Cardinality(Above(x))
    BY <1>1, <2>1, FS_Subset
  <2>3. m <= Cardinality(Above(y))
    BY <1>2, <1>4
  <2> QED
    BY <1>1, <1>5, <2>2, <2>3
<1> QED
  BY <1>6

LEMMA AboveIsFinite ==
    ASSUME NEW S \in SUBSET Nat, IsFiniteSet(S), NEW i
    PROVE  /\ IsFiniteSet({j \in S : j > i}) /\ Cardinality({j \in S : j > i}) \in Nat
           /\ Cardinality({j \in S : j > i}) <= Cardinality(S)
BY FS_Subset, FS_CardinalityType

LEMMA NewestIsUpward ==
    ASSUME NEW S \in SUBSET Nat, IsFiniteSet(S), NEW n \in Nat,
           NEW m \in Newest(S, n), NEW i \in S, m <= i
    PROVE  i \in Newest(S, n)
<1>0. m \in S /\ \A j \in S : j \in Nat
  BY DEF Newest
<1>1. {j \in S : j > i} \subseteq {j \in S : j > m}
  <2>1. \A j \in S : j > i => j > m
    BY <1>0
  <2> QED
    BY <2>1, Zenon
<1>2. Cardinality({j \in S : j > i}) <= Cardinality({j \in S : j > m})
  BY <1>1, AboveIsFinite, FS_Subset
<1> QED
  BY <1>2, AboveIsFinite DEF Newest

LEMMA NewestOfSome ==
    ASSUME NEW S \in SUBSET Nat, IsFiniteSet(S), S # {}, NEW n \in Nat \ {0}
    PROVE  Newest(S, n) # {}
<1>1. PICK x \in S : \A y \in S : y <= x
  BY FiniteMax
<1>2. {j \in S : j > x} = {}
  <2>1. \A j \in S : j \in Nat
    OBVIOUS
  <2>2. \A j \in S : ~(j > x)
    BY <1>1, <2>1
  <2> QED
    BY <2>2, Zenon
<1>3. Cardinality({j \in S : j > x}) = 0
  BY <1>2, FS_EmptySet
<1> QED
  BY <1>3 DEF Newest

LEMMA NewestOfFew ==
    ASSUME NEW S \in SUBSET Nat, IsFiniteSet(S), NEW n \in Nat, Cardinality(S) <= n
    PROVE  Newest(S, n) = S
<1> SUFFICES ASSUME NEW i \in S PROVE Cardinality({j \in S : j > i}) < n
  BY DEF Newest
<1>1. {j \in S : j > i} \in SUBSET S /\ {j \in S : j > i} # S
  OBVIOUS
<1>2. Cardinality({j \in S : j > i}) # Cardinality(S)
  BY <1>1, FS_Subset
<1>3. Cardinality(S) \in Nat
  BY FS_CardinalityType
<1> QED
  BY <1>2, <1>3, AboveIsFinite

\* Fewer rows than asked for: there are no more.
LEMMA ShortPageIsLast ==
    ASSUME NEW S \in SUBSET Nat, IsFiniteSet(S), NEW n \in Nat,
           Cardinality(Newest(S, n + 1)) <= n
    PROVE  Newest(S, n + 1) = S
<1> SUFFICES ASSUME Newest(S, n + 1) # S PROVE FALSE
  OBVIOUS
<1>1. PICK B : B = S \ Newest(S, n + 1)
  OBVIOUS
<1>2. B \in SUBSET Nat /\ B \subseteq S /\ B # {}
  BY <1>1 DEF Newest
<1>3. IsFiniteSet(B)
  BY <1>2, FS_Subset
<1>4. PICK x \in B : \A y \in B : y <= x
  BY <1>2, <1>3, FiniteMax
<1>5. x \in S /\ ~(Cardinality({j \in S : j > x}) < n + 1)
  BY <1>1, <1>4 DEF Newest
<1>6. {j \in S : j > x} \subseteq Newest(S, n + 1)
  <2>1. \A j \in S : j \in Nat
    OBVIOUS
  <2>2. \A j \in S : j > x => j \notin B
    BY <1>4, <1>5, <2>1
  <2> QED
    BY <1>1, <2>2, Zenon
<1>7. IsFiniteSet(Newest(S, n + 1)) /\ Cardinality(Newest(S, n + 1)) \in Nat
  BY FS_Subset, FS_CardinalityType DEF Newest
<1>8. Cardinality({j \in S : j > x}) <= Cardinality(Newest(S, n + 1))
  BY <1>6, <1>7, FS_Subset
<1> QED
  BY <1>5, <1>7, <1>8, AboveIsFinite

-----------------------------------------------------------------------------
(***************************************************************************)
(* fetch_page: what one page does to the cursor.                           *)
(***************************************************************************)
\* With S the rows beyond the cursor: a last page holds all of them, any other
\* page those from its lowest on, which becomes the cursor.
LEMMA PageOf ==
    ASSUME NEW S \in SUBSET Item, IsFiniteSet(S), NEW rows, NEW page,
           rows = Newest(S, PageSize + 1), page = Newest(rows, PageSize)
    PROVE  /\ page \subseteq S
           /\ next_cursor(rows) \in Item \cup {0}
           /\ next_cursor(rows) = 0 => page = S
           /\ next_cursor(rows) # 0 =>
                /\ next_cursor(rows) \in page
                /\ \A i \in page : next_cursor(rows) <= i
                /\ \A i \in S : i \in page \/ i < next_cursor(rows)
<1>0. S \in SUBSET Nat /\ 0 \notin S /\ PageSize \in Nat \ {0} /\ PageSize + 1 \in Nat
  BY ItemAssumption DEF Item
<1>1. rows \in SUBSET S /\ page \in SUBSET rows
  BY DEF Newest
<1>2. IsFiniteSet(rows) /\ Cardinality(rows) \in Nat /\ rows \in SUBSET Nat
  BY <1>0, <1>1, FS_Subset, FS_CardinalityType
<1>3. CASE Cardinality(rows) <= PageSize
  <2>1. next_cursor(rows) = 0
    BY <1>0, <1>2, <1>3 DEF next_cursor
  <2>2. rows = S
    BY <1>0, <1>3, ShortPageIsLast
  <2>3. page = rows
    BY <1>0, <1>2, <1>3, NewestOfFew
  <2> QED
    BY <2>1, <2>2, <2>3
<1>4. CASE Cardinality(rows) > PageSize
  <2>1. next_cursor(rows) = Min(page)
    BY <1>4 DEF next_cursor
  <2>2. rows # {}
    BY <1>0, <1>4, FS_EmptySet
  <2>3. page # {} /\ page \in SUBSET Nat
    BY <1>0, <1>1, <1>2, <2>2, NewestOfSome
  <2>4. Min(page) \in page /\ \A i \in page : Min(page) <= i
    BY <2>3, NatWellFounded DEF Min
  <2>5. ASSUME NEW i \in S, ~(i < Min(page)) PROVE i \in page
    <3>1. Min(page) <= i /\ Min(page) \in Newest(S, PageSize + 1)
      BY <1>0, <1>1, <2>3, <2>4, <2>5
    <3>2. i \in rows
      BY <1>0, <3>1, NewestIsUpward
    <3> QED
      BY <1>0, <1>2, <2>4, <3>1, <3>2, NewestIsUpward
  <2>6. Min(page) \in Item /\ Min(page) # 0
    BY <1>0, <1>1, <2>4
  <2> QED
    BY <1>1, <2>1, <2>4, <2>5, <2>6
<1> QED
  BY <1>0, <1>2, <1>3, <1>4

-----------------------------------------------------------------------------
(***************************************************************************)
(* The lists.                                                              *)
(***************************************************************************)
LEMMA NoScanIsNone == NoScan \notin Scan /\ NoScan.at = "idle" /\ \A s \in Scan : s.at # "idle"
BY DEF NoScan, Scan

LEMMA InitInv == Init => IInv
<1> SUFFICES ASSUME Init PROVE IInv
  OBVIOUS
<1>1. /\ live = {} /\ deleted = {}
      /\ \A i \in Item : notes[i] = None
      /\ \A r \in Reader : scan[r] = NoScan
      /\ \A o \in Operator : resolve[o].at = "idle" /\ resolve[o].answer = 0
  BY DEF Init, NoRequest
<1>2. NoRequest \in Resolution
  <2>1. (CHOOSE i \in Item : TRUE) \in Item
    BY ItemAssumption DEF Item
  <2> QED
    BY <2>1 DEF NoRequest, Resolution
<1>3. TypeOK
  BY <1>1, <1>2 DEF Init, TypeOK
<1>4. LiveInv
  BY <1>1, FS_EmptySet DEF LiveInv
<1>5. ScansAreSound /\ NotesAreAnswered /\ RequestsAreTrue /\ AnswersAreTrue
  BY <1>1, ItemAssumption DEF ScansAreSound, ScanIsSound, NotesAreAnswered, RequestsAreTrue, AnswersAreTrue
<1> QED
  BY <1>3, <1>4, <1>5 DEF IInv

LEMMA CommitInv ==
    ASSUME IInv, NEW i \in Item, Commit(i)
    PROVE  IInv'
<1>1. /\ live' = live \cup {i} /\ Row[i].tenant \notin deleted
      /\ UNCHANGED <<deleted, notes, scan, resolve>>
  BY DEF Commit
<1>2. TypeOK'
  BY <1>1 DEF IInv, TypeOK
<1>3. LiveInv'
  BY <1>1, FS_AddElement DEF IInv, LiveInv
<1>4. ScansAreSound'
  <2>1. \A r, list : Visible(r, list) \subseteq Visible(r, list)'
    BY <1>1 DEF Visible
  <2> QED
    BY <1>1, <2>1 DEF IInv, ScansAreSound, ScanIsSound
<1>5. NotesAreAnswered' /\ RequestsAreTrue' /\ AnswersAreTrue'
  BY <1>1 DEF IInv, NotesAreAnswered, RequestsAreTrue, AnswersAreTrue
<1> QED
  BY <1>2, <1>3, <1>4, <1>5 DEF IInv

\* The step of one scan.
LEMMA ScanStep ==
    ASSUME IInv, NEW r \in Reader, NEW s \in Scan, scan' = [scan EXCEPT ![r] = s],
           ScanIsSound(r, s), UNCHANGED <<live, deleted, notes, resolve>>
    PROVE  IInv'
<1>1. TypeOK'
  BY DEF IInv, TypeOK
<1>2. \A q \in Reader : scan'[q] = IF q = r THEN s ELSE scan[q]
  BY DEF IInv, TypeOK
<1>3. ScansAreSound'
  <2>1. \A q \in Reader : ScanIsSound(q, scan'[q])
    BY <1>2 DEF IInv, ScansAreSound
  <2>2. \A q, list : Visible(q, list)' = Visible(q, list)
    BY DEF Visible
  <2> QED
    BY <2>1, <2>2 DEF ScansAreSound, ScanIsSound
<1>4. LiveInv' /\ NotesAreAnswered' /\ RequestsAreTrue' /\ AnswersAreTrue'
  BY DEF IInv, LiveInv, NotesAreAnswered, RequestsAreTrue, AnswersAreTrue
<1> QED
  BY <1>1, <1>3, <1>4 DEF IInv

LEMMA StartScanInv ==
    ASSUME IInv, NEW r \in Reader, NEW list \in List, StartScan(r, list)
    PROVE  IInv'
<1>1. PICK seen : seen = Visible(TenantOf[r], list)
  OBVIOUS
<1>2. PICK s : s = [at |-> "page", list |-> list, cursor |-> 0, returned |-> {},
                    repeated |-> FALSE, owed |-> seen]
  OBVIOUS
<1>3. seen \subseteq Item
  BY <1>1 DEF Visible, IInv, TypeOK
<1>4. s \in Scan
  BY <1>2, <1>3 DEF Scan
<1>5. ScanIsSound(r, s)
  BY <1>1, <1>2, <1>4 DEF ScanIsSound, BeyondCursor
<1>6. scan' = [scan EXCEPT ![r] = s] /\ UNCHANGED <<live, deleted, notes, resolve>>
  BY <1>1, <1>2 DEF StartScan
<1> QED
  BY <1>4, <1>5, <1>6, ScanStep

LEMMA FetchInv ==
    ASSUME IInv, NEW r \in Reader, fetch_page(r)
    PROVE  IInv'
<1>1. PICK s : s = scan[r]
  OBVIOUS
<1>2. s \in Scan /\ ScanIsSound(r, s) /\ s.at = "page"
  BY <1>1, NoScanIsNone DEF IInv, TypeOK, ScansAreSound, fetch_page
<1>3. PICK seen : seen = Visible(TenantOf[r], s.list)
  OBVIOUS
<1>4. PICK S : S = {i \in seen : BeyondCursor(i, s.cursor)}
  OBVIOUS
<1>5. PICK rows : rows = Newest(S, PageSize + 1)
  OBVIOUS
<1>6. PICK page : page = Newest(rows, PageSize)
  OBVIOUS
<1>7. PICK next : next = next_cursor(rows)
  OBVIOUS
<1>8. S \in SUBSET Item /\ IsFiniteSet(S) /\ \A i \in S : Row[i].tenant = TenantOf[r]
  <2>1. S \subseteq live
    BY <1>3, <1>4 DEF Visible
  <2> QED
    BY <1>3, <1>4, <2>1, FS_Subset DEF Visible, IInv, LiveInv, TypeOK
<1>9. /\ page \subseteq S /\ next \in Item \cup {0}
      /\ next = 0 => page = S
      /\ next # 0 => /\ next \in page
                     /\ \A i \in page : next <= i
                     /\ \A i \in S : i \in page \/ i < next
  BY <1>5, <1>6, <1>7, <1>8, PageOf
<1>10. page \cap s.returned = {}
  <2>1. \A i \in S : s.cursor = 0 \/ i < s.cursor
    BY <1>4 DEF BeyondCursor
  <2>2. \A i \in s.returned : s.cursor # 0 /\ s.cursor <= i
    BY <1>2, NoScanIsNone DEF ScanIsSound
  <2>3. s.returned \subseteq Nat /\ s.cursor \in Nat
    BY <1>2, ItemAssumption DEF Scan, Item
  <2> QED
    BY <1>9, <2>1, <2>2, <2>3
<1>11. PICK place \in {"page", "done"} : place = IF next = 0 THEN "done" ELSE "page"
  OBVIOUS
<1>12. PICK t : t = [at |-> place, list |-> s.list, cursor |-> next,
                     returned |-> s.returned \cup page, repeated |-> FALSE, owed |-> s.owed]
  OBVIOUS
<1>13. t \in Scan
  BY <1>2, <1>8, <1>9, <1>11, <1>12 DEF Scan
<1>14. scan' = [scan EXCEPT ![r] = t]
  <2>1. scan' = [scan EXCEPT ![r] =
            [s EXCEPT !.at = place,
                      !.cursor = next,
                      !.returned = s.returned \cup page,
                      !.repeated = s.repeated \/ page \cap s.returned # {}]]
    BY <1>1, <1>3, <1>4, <1>5, <1>6, <1>7, <1>11 DEF fetch_page, _apply_keyset
  <2>2. ~s.repeated
    BY <1>2, NoScanIsNone DEF ScanIsSound
  <2>3. t = [s EXCEPT !.at = place,
                      !.cursor = next,
                      !.returned = s.returned \cup page,
                      !.repeated = s.repeated \/ page \cap s.returned # {}]
    <3>1. s = [at |-> s.at, list |-> s.list, cursor |-> s.cursor, returned |-> s.returned,
               repeated |-> s.repeated, owed |-> s.owed]
      BY <1>2 DEF Scan
    <3>2. PICK s1 : s1 = [s EXCEPT !.at = place]
      OBVIOUS
    <3>3. s1 = [at |-> place, list |-> s.list, cursor |-> s.cursor,
                returned |-> s.returned, repeated |-> s.repeated, owed |-> s.owed]
      BY <3>1, <3>2
    <3>4. PICK s2 : s2 = [s1 EXCEPT !.cursor = next]
      OBVIOUS
    <3>5. s2 = [at |-> place, list |-> s.list, cursor |-> next,
                returned |-> s.returned, repeated |-> s.repeated, owed |-> s.owed]
      BY <3>3, <3>4
    <3>6. PICK s3 : s3 = [s2 EXCEPT !.returned = s.returned \cup page]
      OBVIOUS
    <3>7. s3 = [at |-> place, list |-> s.list, cursor |-> next,
                returned |-> s.returned \cup page, repeated |-> s.repeated, owed |-> s.owed]
      BY <3>5, <3>6
    <3>8. t = [s3 EXCEPT !.repeated = FALSE]
      <4>1. PICK u : u = [s3 EXCEPT !.repeated = FALSE]
        OBVIOUS
      <4>2. s3 \in Scan
        BY <1>2, <1>11, <1>12, <1>13, <3>7 DEF Scan
      <4>3. /\ u \in Scan /\ u.at = s3.at /\ u.list = s3.list /\ u.cursor = s3.cursor
            /\ u.returned = s3.returned /\ u.repeated = FALSE /\ u.owed = s3.owed
        BY <4>1, <4>2 DEF Scan
      <4>4. /\ t.at = s3.at /\ t.list = s3.list /\ t.cursor = s3.cursor
            /\ t.returned = s3.returned /\ t.repeated = FALSE /\ t.owed = s3.owed
        BY <1>12, <3>7
      <4>5. t = u
        BY <1>13, <4>3, <4>4 DEF Scan
      <4> QED
        BY <4>1, <4>5
    <3>9. (s.repeated \/ page \cap s.returned # {}) = FALSE
      BY <1>10, <2>2, Zenon
    <3>10. t = [s3 EXCEPT !.repeated = s.repeated \/ page \cap s.returned # {}]
      BY <3>8, <3>9, Zenon
    <3> QED
      BY <3>2, <3>4, <3>6, <3>10, Zenon
  <2> QED
    BY <2>1, <2>3
<1>15. s.owed \subseteq seen /\ \A i \in s.owed : i \in s.returned \/ i \in S
  BY <1>2, <1>3, <1>4, NoScanIsNone DEF ScanIsSound
<1>16. ScanIsSound(r, t)
  <2>1. \A i \in t.returned : Row[i].tenant = TenantOf[r]
    BY <1>2, <1>8, <1>9, <1>11, <1>12, NoScanIsNone DEF ScanIsSound
  <2>2. t.at = "done" => t.owed \subseteq t.returned
    BY <1>9, <1>11, <1>12, <1>15
  <2>3. ASSUME t.at = "page", NEW i \in t.returned PROVE t.cursor # 0 /\ t.cursor <= i
    <3>1. next # 0 /\ t.cursor = next /\ next \in page
      BY <1>9, <1>11, <1>12, <2>3
    <3>2. CASE i \in page
      BY <1>9, <3>1, <3>2
    <3>3. CASE i \in s.returned
      <4>1. s.cursor # 0 /\ s.cursor <= i
        BY <1>2, <3>3, NoScanIsNone DEF ScanIsSound
      <4>2. next < s.cursor
        BY <1>4, <1>9, <3>1, <4>1 DEF BeyondCursor
      <4>3. next \in Nat /\ s.cursor \in Nat /\ i \in Nat
        BY <1>2, <1>9, <3>3, ItemAssumption DEF Scan, Item
      <4> QED
        BY <3>1, <4>1, <4>2, <4>3
    <3> QED
      BY <1>11, <1>12, <3>2, <3>3
  <2>4. ASSUME t.at = "page", NEW i \in t.owed PROVE i \in t.returned \/ BeyondCursor(i, t.cursor)
    BY <1>9, <1>11, <1>12, <1>15, <2>4 DEF BeyondCursor
  <2>5. t.owed \subseteq Visible(TenantOf[r], t.list)
    BY <1>3, <1>11, <1>12, <1>15
  <2>6. ~t.repeated
    BY <1>11, <1>12
  <2> QED
    BY <1>13, <2>1, <2>2, <2>3, <2>4, <2>5, <2>6 DEF ScanIsSound
<1> QED
  BY <1>13, <1>14, <1>16, ScanStep DEF fetch_page

\* What leaves a list leaves what its scans owe.
LEMMA OweSound ==
    ASSUME IInv, scan' = Owe(live', notes'), live' \subseteq live
    PROVE  ScansAreSound' /\ scan' \in [Reader -> Scan \cup {NoScan}]
<1>1. ASSUME NEW r \in Reader, NEW s, s = scan[r], s.at = "page"
      PROVE  \E t \in Scan : t = scan'[r] /\ ScanIsSound(r, t)'
  <2>0. s \in Scan /\ ScanIsSound(r, s)
    BY <1>1, NoScanIsNone DEF IInv, TypeOK, ScansAreSound
  <2>1. PICK owed : owed = {i \in s.owed \cap live' : Selects(s.list, i, notes')}
    OBVIOUS
  <2>2. PICK t : t = [s EXCEPT !.owed = owed]
    OBVIOUS
  <2>3. owed \subseteq s.owed
    BY <2>1
  <2>4. /\ t \in Scan /\ t.at = "page" /\ t.list = s.list /\ t.cursor = s.cursor
        /\ t.returned = s.returned /\ t.repeated = s.repeated /\ t.owed = owed
    BY <1>1, <2>0, <2>2, <2>3 DEF Scan
  <2>5. scan'[r] = t
    BY <1>1, <2>1, <2>2 DEF Owe
  <2>6. owed \subseteq Visible(TenantOf[r], s.list)'
    <3>1. s.owed \subseteq Visible(TenantOf[r], s.list)
      BY <1>1, <2>0, NoScanIsNone DEF ScanIsSound
    <3>2. \A i \in owed : i \in live' /\ Row[i].tenant = TenantOf[r] /\ Selects(s.list, i, notes')
      BY <2>1, <3>1 DEF Visible
    <3> QED
      BY <1>1, <3>2 DEF Visible
  <2>7. ScanIsSound(r, t)'
    BY <1>1, <2>0, <2>3, <2>4, <2>6, NoScanIsNone DEF ScanIsSound, Visible
  <2> QED
    BY <2>4, <2>5, <2>7
<1>2. ASSUME NEW r \in Reader, NEW s, s = scan[r], s.at # "page"
      PROVE  s \in Scan \cup {NoScan} /\ s = scan'[r] /\ ScanIsSound(r, s)'
  <2>1. s \in Scan \cup {NoScan} /\ ScanIsSound(r, s)
    BY <1>2 DEF IInv, TypeOK, ScansAreSound
  <2>2. scan'[r] = s
    BY <1>2 DEF Owe
  <2> QED
    BY <1>2, <2>1, <2>2 DEF ScanIsSound
<1>3. ASSUME NEW r \in Reader
      PROVE  \E t \in Scan \cup {NoScan} : t = scan'[r] /\ ScanIsSound(r, t)'
  <2>1. PICK s : s = scan[r]
    OBVIOUS
  <2> QED
    BY <1>1, <1>2, <2>1
<1>4. ScansAreSound'
  BY <1>3 DEF ScansAreSound, ScanIsSound
<1>5. scan' = [r \in Reader |-> scan'[r]]
  BY DEF Owe
<1> QED
  BY <1>3, <1>4, <1>5

-----------------------------------------------------------------------------
(***************************************************************************)
(* Retention and the resolution of exceptions.                             *)
(***************************************************************************)
LEMMA DeleteInv ==
    ASSUME IInv, NEW t \in DemoTenant, DeleteAccount(t)
    PROVE  IInv'
<1>1. /\ deleted' = deleted \cup {t}
      /\ live' = {i \in live : Row[i].tenant # t}
      /\ notes' = [i \in Item |-> IF Row[i].tenant = t THEN None ELSE notes[i]]
      /\ scan' = Owe(live', notes')
      /\ resolve' = resolve
  BY DEF DeleteAccount, KeptNotes
<1>2. \A i \in Item : notes'[i] = IF Row[i].tenant = t THEN None ELSE notes[i]
  BY <1>1
<1>3. live' \subseteq live /\ ScansAreSound' /\ scan' \in [Reader -> Scan \cup {NoScan}]
  BY <1>1, OweSound
<1>4. TypeOK'
  <2>1. \A i \in Item : notes'[i] # None => i \in live'
    BY <1>1, <1>2 DEF IInv, TypeOK
  <2>2. notes' \in [Item -> Operator \cup {None}]
    BY <1>1 DEF IInv, TypeOK
  <2> QED
    BY <1>1, <1>3, <2>1, <2>2 DEF IInv, TypeOK
<1>5. LiveInv'
  BY <1>1, <1>3, FS_Subset DEF IInv, LiveInv
<1>6. NotesAreAnswered'
  BY <1>1, <1>2, ItemAssumption DEF IInv, NotesAreAnswered
<1>7. \A o \in Operator : resolve[o].item \in Item
  BY DEF IInv, TypeOK, Resolution
<1>8. RequestsAreTrue'
  BY <1>1, <1>2, <1>7 DEF IInv, RequestsAreTrue
<1>9. AnswersAreTrue'
  BY <1>1, <1>2, <1>7, ItemAssumption DEF IInv, AnswersAreTrue
<1> QED
  BY <1>3, <1>4, <1>5, <1>6, <1>8, <1>9 DEF IInv

\* What a request without the notes in its hand may be.
FitsNotes(o, q) ==
    /\ \A i \in Item : notes[i] = o => q.item = i /\ q.answer = 200
    /\ q.at # "found" /\ (q.at # "idle" => q.answer = 0)
    /\ q.answer = 200 => notes[q.item] = o \/ Row[q.item].tenant \in deleted
    /\ q.answer = 500 => Row[q.item].tenant \in deleted

\* Steps of one operator's request that write no notes.
LEMMA ResolveStep ==
    ASSUME IInv, NEW o \in Operator, UNCHANGED <<live, deleted, notes, scan>>,
           NEW q \in Resolution, FitsNotes(o, q), resolve' = [resolve EXCEPT ![o] = q]
    PROVE  IInv'
<1> USE DEF FitsNotes
<1>1. resolve'[o] = q /\ \A p \in Operator \ {o} : resolve'[p] = resolve[p]
  BY DEF IInv, TypeOK
<1>2. TypeOK'
  BY DEF IInv, TypeOK
<1>3. LiveInv'
  BY DEF IInv, LiveInv
<1>4. ScansAreSound'
  <2>1. \A r, list : Visible(r, list)' = Visible(r, list)
    BY DEF Visible
  <2> QED
    BY <2>1 DEF IInv, ScansAreSound, ScanIsSound
<1>5. NotesAreAnswered'
  BY <1>1 DEF IInv, NotesAreAnswered
<1>6. RequestsAreTrue'
  BY <1>1 DEF IInv, RequestsAreTrue
<1>7. AnswersAreTrue'
  <2> SUFFICES ASSUME NEW p \in Operator, NEW i, i = resolve'[p].item
               PROVE  /\ resolve'[p].answer = 200 => notes[i] = p \/ Row[i].tenant \in deleted
                      /\ resolve'[p].answer \in {404, 409} => notes[i] # p
                      /\ resolve'[p].answer = 500 => Row[i].tenant \in deleted
    BY DEF AnswersAreTrue
  <2>1. CASE p # o
    BY <1>1, <2>1 DEF IInv, AnswersAreTrue
  <2>2. CASE p = o
    BY <1>1, <2>2 DEF Resolution
  <2> QED
    BY <2>1, <2>2
<1> QED
  BY <1>2, <1>3, <1>4, <1>5, <1>6, <1>7 DEF IInv

LEMMA RequestInv ==
    ASSUME IInv, NEW o \in Operator, NEW i \in Item, Request(o, i)
    PROVE  IInv'
<1>1. PICK q : q = [at |-> "close", item |-> i, answer |-> 0]
  OBVIOUS
<1>2. \A j \in Item : notes[j] # o
  BY DEF Request, IInv, NotesAreAnswered
<1>3. resolve' = [resolve EXCEPT ![o] = q] /\ UNCHANGED <<live, deleted, notes, scan>>
  BY <1>1 DEF Request
<1>4. /\ q \in Resolution
      /\ q.at = "close" /\ q.answer = 0
  BY <1>1 DEF Resolution
<1>5. FitsNotes(o, q)
  BY <1>2, <1>4 DEF FitsNotes
<1> QED
  BY <1>3, <1>4, <1>5, ResolveStep

\* An answer ends the request, which keeps its item.
LEMMA AnswerRecord ==
    ASSUME IInv, NEW o \in Operator, NEW code \in {200, 404, 409, 500}, Answer(o, code)
    PROVE  \E q \in Resolution :
              /\ q.at = "idle" /\ q.item = resolve[o].item /\ q.answer = code
              /\ resolve' = [resolve EXCEPT ![o] = q]
<1>1. PICK x : x = resolve[o]
  OBVIOUS
<1>2. x \in Resolution
  BY <1>1 DEF IInv, TypeOK
<1>3. x = [at |-> x.at, item |-> x.item, answer |-> x.answer]
  BY <1>2 DEF Resolution
<1>4. PICK x1 : x1 = [x EXCEPT !.at = "idle"]
  OBVIOUS
<1>5. x1 = [at |-> "idle", item |-> x.item, answer |-> x.answer]
  BY <1>3, <1>4
<1>6. PICK q : q = [x1 EXCEPT !.answer = code]
  OBVIOUS
<1>7. q = [at |-> "idle", item |-> x.item, answer |-> code]
  BY <1>5, <1>6
<1>8. PICK f1 : f1 = [resolve EXCEPT ![o].at = "idle"]
  OBVIOUS
<1>9. f1 = [resolve EXCEPT ![o] = x1] /\ f1[o] = x1 /\ DOMAIN f1 = Operator
  BY <1>1, <1>4, <1>8 DEF IInv, TypeOK
<1>10. resolve' = [f1 EXCEPT ![o].answer = code]
  BY <1>8 DEF Answer
<1>11. resolve' = [f1 EXCEPT ![o] = q]
  BY <1>6, <1>9, <1>10
<1>12. resolve' = [resolve EXCEPT ![o] = q]
  BY <1>9, <1>11 DEF IInv, TypeOK
<1>13. q \in Resolution
  BY <1>2, <1>7 DEF Resolution
<1>14. q.at = "idle" /\ q.item = resolve[o].item /\ q.answer = code
  BY <1>1, <1>7
<1> QED
  BY <1>12, <1>13, <1>14

LEMMA AnswerInv ==
    ASSUME IInv, NEW o \in Operator, fetch_existing(o) \/ fetch_found(o)
    PROVE  IInv'
<1>1. PICK i \in Item : i = resolve[o].item
  BY DEF IInv, TypeOK, Resolution
<1>2. UNCHANGED <<live, deleted, notes, scan>>
  BY DEF fetch_existing, fetch_found
<1>3. CASE fetch_existing(o)
  <2>1. PICK code \in {404, 409} : Answer(o, code)
    <3>1. PICK code : code = IF Scoped(o, i) THEN 409 ELSE 404
      OBVIOUS
    <3> QED
      BY <1>1, <1>3, <3>1 DEF fetch_existing
  <2>2. PICK q \in Resolution :
            /\ q.at = "idle" /\ q.item = resolve[o].item /\ q.answer = code
            /\ resolve' = [resolve EXCEPT ![o] = q]
    BY <2>1, AnswerRecord
  <2>3. \A j \in Item : notes[j] # o
    BY <1>3 DEF fetch_existing, IInv, NotesAreAnswered, RequestsAreTrue
  <2>4. FitsNotes(o, q)
    BY <2>2, <2>3 DEF FitsNotes
  <2> QED
    BY <1>2, <2>2, <2>4, ResolveStep
<1>4. CASE fetch_found(o)
  <2>1. PICK code \in {200, 500} : code = IF Scoped(o, i) THEN 200 ELSE 500
    OBVIOUS
  <2>2. Answer(o, code)
    BY <1>1, <1>4, <2>1 DEF fetch_found
  <2>3. PICK q \in Resolution :
            /\ q.at = "idle" /\ q.item = i /\ q.answer = code
            /\ resolve' = [resolve EXCEPT ![o] = q]
    BY <1>1, <2>2, AnswerRecord
  <2>4. IsBreak(i) /\ Row[i].tenant = TenantOf[o] /\ (notes[i] = o \/ Row[i].tenant \in deleted)
    BY <1>1, <1>4 DEF fetch_found, IInv, RequestsAreTrue
  <2>5. \A j \in Item : notes[j] = o => j = i /\ j \in live
    <3>1. \A j \in Item : notes[j] = o => j = i
      BY <1>1 DEF IInv, NotesAreAnswered
    <3>2. \A j \in Item : notes[j] = o => j \in live
      BY ItemAssumption DEF IInv, TypeOK
    <3> QED
      BY <3>1, <3>2
  <2>6. notes[i] = o => code = 200
    BY <2>1, <2>4, <2>5 DEF Scoped
  <2>7. code = 500 => Row[i].tenant \in deleted
    BY <2>4, <2>6
  <2>8. FitsNotes(o, q)
    BY <2>3, <2>4, <2>5, <2>6, <2>7 DEF FitsNotes
  <2> QED
    BY <1>2, <2>3, <2>8, ResolveStep
<1> QED
  BY <1>3, <1>4

LEMMA CloseInv ==
    ASSUME IInv, NEW o \in Operator, close_exception(o)
    PROVE  IInv'
<1>1. PICK i \in Item : i = resolve[o].item
  BY DEF IInv, TypeOK, Resolution
<1>2. PICK found \in BOOLEAN : found <=> CanClose(o, i)
  OBVIOUS
<1>3. /\ resolve[o].at = "close" /\ UNCHANGED <<live, deleted>> /\ scan' = Owe(live', notes')
      /\ found => /\ notes' = [notes EXCEPT ![i] = o] /\ resolve' = [resolve EXCEPT ![o].at = "found"]
                  /\ notes[i] = None /\ i \in live /\ IsBreak(i) /\ Row[i].tenant = TenantOf[o]
      /\ ~found => notes' = notes /\ resolve' = [resolve EXCEPT ![o].at = "existing"]
  BY <1>1, <1>2 DEF close_exception, CanClose, Scoped
<1>4. PICK place \in {"found", "existing"} : place = IF found THEN "found" ELSE "existing"
  OBVIOUS
<1>5. /\ resolve'[o].at = place /\ resolve'[o].item = i /\ resolve'[o].answer = 0
      /\ \A p \in Operator \ {o} : resolve'[p] = resolve[p]
      /\ resolve' \in [Operator -> Resolution]
  <2>1. resolve' = [resolve EXCEPT ![o].at = place]
    BY <1>3, <1>4
  <2>2. resolve[o].answer = 0
    BY <1>3 DEF IInv, RequestsAreTrue
  <2> QED
    BY <1>1, <2>1, <2>2 DEF IInv, TypeOK, Resolution
<1>6. /\ \A j \in Item : notes'[j] = IF found /\ j = i THEN o ELSE notes[j]
      /\ notes' \in [Item -> Operator \cup {None}]
  BY <1>3 DEF IInv, TypeOK
<1>7. \A j \in Item : notes[j] # o
  BY <1>3 DEF IInv, NotesAreAnswered, RequestsAreTrue
<1>8. ScansAreSound' /\ scan' \in [Reader -> Scan \cup {NoScan}]
  BY <1>3, OweSound
<1>9. TypeOK'
  <2>1. \A j \in Item : notes'[j] # None => j \in live
    BY <1>3, <1>6 DEF IInv, TypeOK
  <2> QED
    BY <1>3, <1>5, <1>6, <1>8, <2>1 DEF IInv, TypeOK
<1>10. LiveInv'
  BY <1>3 DEF IInv, LiveInv
<1>11. NotesAreAnswered'
  <2> SUFFICES ASSUME NEW j \in Item, NEW p \in Operator, notes'[j] = p
               PROVE  /\ Row[j].tenant = TenantOf[p]
                      /\ resolve'[p].item = j /\ (resolve'[p].at = "found" \/ resolve'[p].answer = 200)
    BY DEF NotesAreAnswered
  <2>1. CASE found /\ j = i
    BY <1>3, <1>4, <1>5, <1>6, <2>1
  <2>2. CASE ~(found /\ j = i)
    <3>1. notes[j] = p /\ p # o
      BY <1>6, <1>7, <2>2
    <3> QED
      BY <1>5, <3>1 DEF IInv, NotesAreAnswered
  <2> QED
    BY <2>1, <2>2
<1>12. RequestsAreTrue'
  <2> SUFFICES ASSUME NEW p \in Operator, NEW j, j = resolve'[p].item
               PROVE  /\ resolve'[p].at # "idle" => resolve'[p].answer = 0
                      /\ resolve'[p].at = "found" =>
                            /\ IsBreak(j) /\ Row[j].tenant = TenantOf[p]
                            /\ notes'[j] = p \/ Row[j].tenant \in deleted
    BY <1>3 DEF RequestsAreTrue, IsBreak
  <2>1. CASE p = o
    BY <1>3, <1>4, <1>5, <1>6, <2>1
  <2>2. CASE p # o
    <3>1. resolve'[p] = resolve[p] /\ j \in Item
      BY <1>5, <2>2 DEF IInv, TypeOK, Resolution
    <3>2. /\ resolve[p].at # "idle" => resolve[p].answer = 0
          /\ resolve[p].at = "found" =>
                /\ IsBreak(j) /\ Row[j].tenant = TenantOf[p]
                /\ notes[j] = p \/ Row[j].tenant \in deleted
      BY <3>1 DEF IInv, RequestsAreTrue
    <3>3. notes[j] = p => notes'[j] = p
      BY <1>3, <1>6, <3>1, ItemAssumption
    <3> QED
      BY <3>1, <3>2, <3>3
  <2> QED
    BY <2>1, <2>2
<1>13. AnswersAreTrue'
  <2> SUFFICES ASSUME NEW p \in Operator, NEW j, j = resolve'[p].item
               PROVE  /\ resolve'[p].answer = 200 => notes'[j] = p \/ Row[j].tenant \in deleted
                      /\ resolve'[p].answer \in {404, 409} => notes'[j] # p
                      /\ resolve'[p].answer = 500 => Row[j].tenant \in deleted
    BY <1>3 DEF AnswersAreTrue
  <2>1. CASE p = o
    BY <1>5, <2>1
  <2>2. CASE p # o
    <3>1. resolve'[p] = resolve[p] /\ j \in Item
      BY <1>5, <2>2 DEF IInv, TypeOK, Resolution
    <3>2. /\ resolve[p].answer = 200 => notes[j] = p \/ Row[j].tenant \in deleted
          /\ resolve[p].answer \in {404, 409} => notes[j] # p
          /\ resolve[p].answer = 500 => Row[j].tenant \in deleted
      BY <3>1 DEF IInv, AnswersAreTrue
    <3>3. (notes[j] = p => notes'[j] = p) /\ (notes[j] # p => notes'[j] # p)
      BY <1>3, <1>6, <2>2, <3>1, ItemAssumption
    <3> QED
      BY <3>1, <3>2, <3>3
  <2> QED
    BY <2>1, <2>2
<1> QED
  BY <1>8, <1>9, <1>10, <1>11, <1>12, <1>13 DEF IInv

LEMMA StutterInv ==
    ASSUME IInv, UNCHANGED vars
    PROVE  IInv'
<1> USE DEF vars
<1>1. TypeOK' /\ LiveInv'
  BY DEF IInv, TypeOK, LiveInv
<1>2. ScansAreSound'
  <2>1. \A r, list : Visible(r, list)' = Visible(r, list)
    BY DEF Visible
  <2> QED
    BY <2>1 DEF IInv, ScansAreSound, ScanIsSound
<1>3. NotesAreAnswered' /\ RequestsAreTrue' /\ AnswersAreTrue'
  BY DEF IInv, NotesAreAnswered, RequestsAreTrue, AnswersAreTrue
<1> QED
  BY <1>1, <1>2, <1>3 DEF IInv

-----------------------------------------------------------------------------
(***************************************************************************)
(* The theorems.                                                           *)
(***************************************************************************)
LEMMA NextInv == IInv /\ [Next]_vars => IInv'
BY CommitInv, DeleteInv, StartScanInv, FetchInv, RequestInv, CloseInv, AnswerInv, StutterInv
   DEF Next, Resolving

(***************************************************************************)
(* The inductive invariant behind the theorems of this module.             *)
(***************************************************************************)
THEOREM Invariance == Spec => []IInv
<1> QED
  BY InitInv, NextInv, PTL DEF Spec

(***************************************************************************)
(* Scans, requests and notes are well-formed, and notes stand on live      *)
(* exceptions only: retention deletes them with their account.             *)
(***************************************************************************)
THEOREM TypeCorrect == Spec => []TypeOK
<1>1. IInv => TypeOK
  BY DEF IInv
<1> QED
  BY <1>1, Invariance, PTL

(***************************************************************************)
(* The keyset pages of list_transactions and list_exceptions return what   *)
(* stays on the list once each, for any page size and whatever is added,   *)
(* resolved or deleted between two pages.                                  *)
(***************************************************************************)
THEOREM PagesAreExactHolds == Spec => []PagesAreExact
<1>1. IInv => PagesAreExact
  BY DEF IInv, ScansAreSound, ScanIsSound, PagesAreExact
<1> QED
  BY <1>1, Invariance, PTL

(***************************************************************************)
(* No page and no resolution crosses into another account.                 *)
(***************************************************************************)
THEOREM OwnTenantOnlyHolds == Spec => []OwnTenantOnly
<1>1. ASSUME IInv PROVE OwnTenantOnly
  <2>1. \A r \in Reader : scan[r] # NoScan =>
            \A i \in scan[r].returned : Row[i].tenant = TenantOf[r]
    BY <1>1 DEF IInv, ScansAreSound, ScanIsSound
  <2>2. \A i \in Item : notes[i] # None => Row[i].tenant = TenantOf[notes[i]]
    BY <1>1 DEF IInv, TypeOK, NotesAreAnswered
  <2> QED
    BY <2>1, <2>2 DEF OwnTenantOnly
<1> QED
  BY <1>1, Invariance, PTL

(***************************************************************************)
(* resolve_exception's compare-and-set and its reads after the commit tell *)
(* each of any number of rival operators the truth.                        *)
(***************************************************************************)
THEOREM AnswersAreTrueHolds == Spec => []AnswersAreTrue
<1>1. IInv => AnswersAreTrue
  BY DEF IInv
<1> QED
  BY <1>1, Invariance, PTL

\* Counting by disjoint statuses adds up.
LEMMA CountsAddUp ==
    ASSUME NEW W, IsFiniteSet(W), NEW A, NEW B, A \cap B = {}
    PROVE  /\ Counted(W, A) \in Nat
           /\ Counted(W, A \cup B) = Counted(W, A) + Counted(W, B)
<1>1. PICK S : S = {i \in W : Row[i].status \in A}
  OBVIOUS
<1>2. PICK T : T = {i \in W : Row[i].status \in B}
  OBVIOUS
<1>3. IsFiniteSet(S) /\ IsFiniteSet(T) /\ Cardinality(S) \in Nat /\ Cardinality(T) \in Nat
  BY <1>1, <1>2, FS_Subset, FS_CardinalityType
<1>4. {i \in W : Row[i].status \in A \cup B} = S \cup T
  BY <1>1, <1>2
<1>5. S \cap T = {}
  BY <1>1, <1>2
<1>6. Cardinality(S \cup T) = Cardinality(S) + Cardinality(T) - Cardinality(S \cap T)
  BY <1>3, FS_Union
<1>7. Cardinality(S \cap T) = 0
  BY <1>5, FS_EmptySet
<1>8. Cardinality(S \cup T) = Cardinality(S) + Cardinality(T)
  BY <1>3, <1>6, <1>7
<1> QED
  BY <1>1, <1>2, <1>3, <1>4, <1>8 DEF Counted

(***************************************************************************)
(* fetch_stats counts every result of any window once: its filters part    *)
(* the statuses, and a match through the time layer is not also drift.     *)
(***************************************************************************)
THEOREM StatsCountOnceHolds == Spec => []StatsCountOnce
<1>1. ASSUME IInv PROVE StatsCountOnce
  <2> SUFFICES ASSUME NEW W \in SUBSET live
               PROVE  total(W) + duplicates(W) = Cardinality(W)
    BY DEF StatsCountOnce
  <2>0. IsFiniteSet(W)
    BY <1>1, FS_Subset DEF IInv, LiveInv
  <2>1. PICK M : M = {"matched"}
    OBVIOUS
  <2>2. PICK U : U = {"unmatched_gateway_only", "unmatched_ledger_only"}
    OBVIOUS
  <2>3. PICK D : D = {"amount_drift", "time_drift"}
    OBVIOUS
  <2>4. PICK X : X = {"duplicate"}
    OBVIOUS
  <2>5. /\ M \cap U = {} /\ (M \cup U) \cap D = {} /\ ((M \cup U) \cup D) \cap X = {}
        /\ ((M \cup U) \cup D) \cup X = Status
    BY <2>1, <2>2, <2>3, <2>4 DEF Status
  <2>6. /\ Counted(W, M \cup U) = Counted(W, M) + Counted(W, U)
        /\ Counted(W, (M \cup U) \cup D) = Counted(W, M \cup U) + Counted(W, D)
        /\ Counted(W, ((M \cup U) \cup D) \cup X) = Counted(W, (M \cup U) \cup D) + Counted(W, X)
    BY <2>0, <2>5, CountsAddUp
  <2>7. Counted(W, Status) = Cardinality(W)
    <3>1. {i \in W : Row[i].status \in Status} = W
      BY <1>1, ItemAssumption DEF IInv, TypeOK, Item
    <3> QED
      BY <3>1 DEF Counted
  <2>8. /\ matched(W) = Counted(W, M) /\ unmatched(W) = Counted(W, U)
        /\ drift(W) = Counted(W, D) /\ duplicates(W) = Counted(W, X)
    BY <2>1, <2>2, <2>3, <2>4 DEF matched, unmatched, drift, duplicates
  <2> QED
    BY <2>5, <2>6, <2>7, <2>8 DEF total
<1> QED
  BY <1>1, Invariance, PTL

=============================================================================
