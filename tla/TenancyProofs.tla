--------------------------- MODULE TenancyProofs ---------------------------
(***************************************************************************)
(* Requests reach the account they name, credentials hang off real         *)
(* accounts, and the write limiter keeps its limit: for any number of      *)
(* requests, visitors, customers and addresses, and any window.            *)
(***************************************************************************)
EXTENDS Tenancy, FiniteSetTheorems, TLAPS

-----------------------------------------------------------------------------
(***************************************************************************)
(* The inductive invariant of the accounts.                                *)
(***************************************************************************)
\* After its resolution a request holds a copy of an account row.  A key's account
\* is still there; a visitor's may have been swept, which the request remembers.
Resolved(r) ==
    /\ r.tenant \in Account
    /\ r.tenant.id < next_id
    /\ r.tenant.id \in Ids => r.tenant \in accounts
    /\ r.cred.by = "key" =>
        /\ r.tenant \in accounts /\ r.tenant.kind = "real"
        /\ \E k \in keys : k.key = r.cred.of /\ k.account = r.tenant.id
    /\ r.cred.by # "key" =>
        /\ r.tenant.name = r.cred.of
        /\ r.tenant \in accounts \/ r.swept

RequestsKnowTheirAccount ==
    \A p \in Slot : req[p].at \in {"limit", "handle"} => Resolved(req[p])

\* Between the two statements of _upsert_account only retention takes the name away.
ConflictsAreReal ==
    \A p \in Slot : req[p].at = "select" =>
        req[p].cred.by # "key" /\ (Named(req[p].cred.of) # {} \/ req[p].swept)

ActiveIsNumbered ==
    \A p \in Slot : req[p].at # "none" => req[p].no # 0

\* Ids are never used again, so an id read by an old scan is a demo account's or nobody's.
DoomedAreDemo ==
    /\ retention.at = "purged" => retention.account \in retention.doomed
    /\ \A id \in retention.doomed :
        id < next_id /\ \A a \in accounts : a.id = id => a.kind = "demo"

AccountInv ==
    /\ TypeOK
    /\ RequestsKnowTheirAccount
    /\ ConflictsAreReal
    /\ ActiveIsNumbered
    /\ DoomedAreDemo
    /\ CredentialsOnRealAccounts
    /\ WritesReachTheirAccount
    /\ FailsOnlyWhenSwept

-----------------------------------------------------------------------------
(***************************************************************************)
(* The inductive invariant of the limiter.                                 *)
(***************************************************************************)
BucketId == ({"ip"} \X Ip) \cup ({"account"} \X (1..MaxAccounts))

\* Redis still has, or let expire, the counter of a bucket and window.
Kept(bucket, window) == <<bucket, window>> \notin dropped

\* A counter outlives its window: EXPIRE is at least as long.
CountersLast ==
    \A c \in counters : c.window + Window <= c.expires

OneCounter ==
    \A c, d \in counters : c.bucket = d.bucket /\ c.window = d.window => c = d

\* INCR answers each number once per bucket and window, while Redis has the counter.
HitsAreDistinct ==
    \A h, g \in admitted :
        /\ h.bucket = g.bucket /\ h.hit = g.hit
        /\ window_start(h.at) = window_start(g.at)
        /\ Kept(h.bucket, window_start(h.at))
        => h = g

\* What was admitted in the current window is in the current counter.
HitsAreCounted ==
    \A h \in admitted :
        window_start(h.at) = window_start(clock) /\ Kept(h.bucket, window_start(clock)) =>
            \E c \in Current(h.bucket) : h.hit <= c.count

LimitInv ==
    /\ clock \in Nat
    /\ counters \subseteq [bucket : BucketId, window : Nat, count : Nat \ {0}, expires : Nat]
    /\ admitted \subseteq [bucket : BucketId, at : Nat, hit : Nat \ {0}]
    /\ \A h \in admitted : h.at <= clock /\ h.hit <= BucketLimit(h.bucket)
    /\ CountersLast
    /\ OneCounter
    /\ HitsAreDistinct
    /\ HitsAreCounted

-----------------------------------------------------------------------------
(***************************************************************************)
(* The accounts, part 1: initially, and steps of one request.              *)
(***************************************************************************)
LEMMA NoRequestType == NoRequest \in Request /\ NoRequest.at = "none" /\ NoRequest.status = 0
<1>1. (CHOOSE i \in Ip : TRUE) \in Ip
  BY LimitsAssumption
<1>2. [by |-> "nothing", of |-> Default] \in Credential
  BY DEF Credential
<1>3. 0 \in 0..MaxRequests
  BY LimitsAssumption
<1> QED
  BY <1>1, <1>2, <1>3 DEF NoRequest, Request

LEMMA AccountInit == Init => AccountInv
<1> SUFFICES ASSUME Init PROVE AccountInv
  OBVIOUS
<1>1. \A p \in Slot : req[p] = NoRequest
  BY DEF Init
<1>2. /\ accounts = {[id |-> 1, name |-> Default, kind |-> "demo"]} /\ next_id = 2
      /\ keys = {} /\ sources = {} /\ rows = {} /\ sent = 0 /\ clock = 0
      /\ req \in [Slot -> Request]
      /\ retention = Resting
  BY NoRequestType DEF Init, RateLimitInit
<1>3. TypeOK
  <2>1. [id |-> 1, name |-> Default, kind |-> "demo"] \in Account
    BY LimitsAssumption DEF Account, Name
  <2>2. next_id \in 2..(MaxAccounts + 1) /\ sent \in 0..MaxRequests /\ clock \in Nat
    BY <1>2, LimitsAssumption
  <2>3. retention \in [at : {"wait", "next", "purged"}, doomed : SUBSET (1..MaxAccounts),
                       account : 0..MaxAccounts, purged : SUBSET RawRow]
    BY <1>2, LimitsAssumption DEF Resting
  <2>4. \A a \in accounts : a.id < next_id
    BY <1>2
  <2>5. \A a, b \in accounts : a.name = b.name \/ a.id = b.id => a = b
    BY <1>2
  <2> QED
    BY <1>2, <2>1, <2>2, <2>3, <2>4, <2>5 DEF TypeOK
<1>4. RequestsKnowTheirAccount /\ ConflictsAreReal /\ ActiveIsNumbered /\ FailsOnlyWhenSwept
  BY <1>1, NoRequestType DEF RequestsKnowTheirAccount, ConflictsAreReal, ActiveIsNumbered, FailsOnlyWhenSwept
<1>5. DoomedAreDemo /\ CredentialsOnRealAccounts /\ WritesReachTheirAccount
  BY <1>2 DEF DoomedAreDemo, CredentialsOnRealAccounts, WritesReachTheirAccount, Resting
<1> QED
  BY <1>3, <1>4, <1>5 DEF AccountInv

\* What a request's own step has to show of the request it leaves.
RequestIsSound(r) ==
    /\ r \in Request
    /\ r.at \in {"limit", "handle"} => Resolved(r)
    /\ r.at = "select" => r.cred.by # "key" /\ (Named(r.cred.of) # {} \/ r.swept)
    /\ r.at # "none" => r.no # 0
    /\ r.status = 500 => r.swept

LEMMA EveryRequestIsSound ==
    ASSUME AccountInv, NEW p \in Slot
    PROVE  RequestIsSound(req[p])
BY DEF AccountInv, TypeOK, RequestsKnowTheirAccount, ConflictsAreReal, ActiveIsNumbered, FailsOnlyWhenSwept, RequestIsSound

LEMMA RequestStep ==
    ASSUME AccountInv, NEW p \in Slot, NEW r,
           req' = [req EXCEPT ![p] = r], RequestIsSound(r),
           UNCHANGED <<accountVars, rows, retention>>,
           sent' \in 0..MaxRequests, clock' \in Nat
    PROVE  AccountInv'
<1> USE DEF accountVars
<1>1. req'[p] = r /\ \A q \in Slot \ {p} : req'[q] = req[q]
  BY DEF AccountInv, TypeOK
<1>2. \A q \in Slot : RequestIsSound(req'[q])
  BY <1>1, EveryRequestIsSound
<1>3. \A x : RequestIsSound(x)' <=> RequestIsSound(x)
  BY DEF RequestIsSound, Resolved, Named, Ids
<1>4. TypeOK'
  <2>1. req' \in [Slot -> Request]
    BY DEF AccountInv, TypeOK, RequestIsSound
  <2> QED
    BY <2>1 DEF AccountInv, TypeOK
<1>5. RequestsKnowTheirAccount'
  <2>1. \A q \in Slot : req'[q].at \in {"limit", "handle"} => Resolved(req'[q])
    BY <1>2 DEF RequestIsSound
  <2>2. \A x : Resolved(x)' <=> Resolved(x)
    BY DEF Resolved, Ids
  <2> QED
    BY <2>1, <2>2 DEF RequestsKnowTheirAccount, Resolved, Ids
<1>6. ConflictsAreReal' /\ ActiveIsNumbered' /\ FailsOnlyWhenSwept'
  BY <1>2 DEF ConflictsAreReal, ActiveIsNumbered, FailsOnlyWhenSwept, RequestIsSound, Named
<1>7. DoomedAreDemo' /\ CredentialsOnRealAccounts' /\ WritesReachTheirAccount'
  BY DEF AccountInv, DoomedAreDemo, CredentialsOnRealAccounts, WritesReachTheirAccount
<1> QED
  BY <1>4, <1>5, <1>6, <1>7 DEF AccountInv

LEMMA SendInv ==
    ASSUME AccountInv, NEW p \in Slot, NEW cred \in Credential, NEW op \in {"ingest", "source"},
           NEW ip \in Ip, Send(p, cred, op, ip)
    PROVE  AccountInv'
<1>1. PICK r : r = [NoRequest EXCEPT !.at = "resolve", !.op = op, !.cred = cred, !.ip = ip, !.no = sent + 1]
  OBVIOUS
<1>2. sent + 1 \in 0..MaxRequests /\ sent + 1 # 0
  BY LimitsAssumption DEF Send, AccountInv, TypeOK
<1>3. r \in Request /\ r.at = "resolve" /\ r.status = 0 /\ r.no # 0
  <2>1. r = [at |-> "resolve", op |-> op, cred |-> cred, ip |-> ip, no |-> sent + 1,
             tenant |-> NoTenant, status |-> 0, swept |-> FALSE]
    BY <1>1 DEF NoRequest
  <2> QED
    BY <1>2, <2>1 DEF Request
<1>4. RequestIsSound(r)
  BY <1>3 DEF RequestIsSound
<1>5. req' = [req EXCEPT ![p] = r] /\ sent' = sent + 1
      /\ UNCHANGED <<accountVars, rows, retention, clock>>
  BY <1>1 DEF Send, limitVars
<1> QED
  BY <1>2, <1>4, <1>5, RequestStep DEF AccountInv, TypeOK

\* A request that is over is sound, provided a server error has its excuse.
LEMMA ReplySound ==
    ASSUME AccountInv, NEW p \in Slot, NEW status, Reply(p, status),
           status = 500 => req[p].swept
    PROVE  \E r : RequestIsSound(r) /\ req' = [req EXCEPT ![p] = r]
<1>1. req[p] \in Request
  BY DEF AccountInv, TypeOK
<1>2. CASE status # 500
  <2>1. req' = [req EXCEPT ![p] = NoRequest]
    BY <1>2 DEF Reply
  <2>2. RequestIsSound(NoRequest)
    BY NoRequestType DEF RequestIsSound
  <2> QED
    BY <2>1, <2>2
<1>3. CASE status = 500
  <2>1. PICK b : b = req[p].swept /\ b \in BOOLEAN
    BY <1>1 DEF Request
  <2>2. PICK r1 : r1 = [NoRequest EXCEPT !.status = 500]
    OBVIOUS
  <2>3. r1 \in Request /\ r1.at = "none"
    BY <2>2, NoRequestType DEF Request
  <2>4. PICK r : r = [r1 EXCEPT !.swept = b]
    OBVIOUS
  <2>5. r \in Request /\ r.at = "none" /\ r.swept = b
    BY <2>1, <2>3, <2>4 DEF Request
  <2>6. r = [NoRequest EXCEPT !.status = 500, !.swept = b]
    BY <2>2, <2>4
  <2>7. req' = [req EXCEPT ![p] = r]
    BY <1>3, <2>1, <2>6, Zenon DEF Reply
  <2>8. b
    BY <1>3, <2>1
  <2>9. RequestIsSound(r)
    BY <2>5, <2>8 DEF RequestIsSound
  <2> QED
    BY <2>7, <2>9
<1> QED
  BY <1>2, <1>3

\* Admission with an account that is there, and is the one the caller named.
LEMMA AdmitSound ==
    ASSUME AccountInv, NEW p \in Slot, NEW a \in accounts, Admit(p, a), req[p].at # "none",
           req[p].cred.by = "key" => a.kind = "real" /\ \E k \in keys : k.key = req[p].cred.of /\ k.account = a.id,
           req[p].cred.by # "key" => a.name = req[p].cred.of
    PROVE  \E r : RequestIsSound(r) /\ req' = [req EXCEPT ![p] = r]
<1>1. req[p] \in Request /\ RequestIsSound(req[p]) /\ a \in Account /\ a.id < next_id
  BY EveryRequestIsSound DEF AccountInv, TypeOK
<1>2. PICK place \in {"limit", "handle"} : place = IF req[p].op = "ingest" THEN "limit" ELSE "handle"
  OBVIOUS
<1>3. PICK r1 : r1 = [req[p] EXCEPT !.tenant = a]
  OBVIOUS
<1>4. PICK r : r = [r1 EXCEPT !.at = place]
  OBVIOUS
<1>5. /\ r1 \in Request /\ r1.tenant = a /\ r1.cred = req[p].cred /\ r1.swept = req[p].swept
      /\ r1.status = req[p].status /\ r1.no = req[p].no
  BY <1>1, <1>3 DEF Request
<1>6. /\ r \in Request /\ r.tenant = a /\ r.cred = req[p].cred /\ r.swept = req[p].swept
      /\ r.status = req[p].status /\ r.at = place /\ r.no = req[p].no
  BY <1>4, <1>5 DEF Request
<1>7. Resolved(r)
  BY <1>1, <1>6 DEF Resolved
<1>8. RequestIsSound(r)
  BY <1>1, <1>6, <1>7 DEF RequestIsSound
<1>9. req' = [req EXCEPT ![p] = r]
  BY <1>2, <1>3, <1>4 DEF Admit, AccountInv, TypeOK
<1> QED
  BY <1>8, <1>9

LEMMA MoveSound ==
    ASSUME AccountInv, NEW p \in Slot, NEW place \in {"select", "handle"},
           req' = [req EXCEPT ![p].at = place], req[p].at # "none",
           place = "handle" => req[p].at = "limit",
           place = "select" => req[p].cred.by # "key" /\ Named(req[p].cred.of) # {}
    PROVE  \E r : RequestIsSound(r) /\ req' = [req EXCEPT ![p] = r]
<1>1. req[p] \in Request /\ RequestIsSound(req[p])
  BY EveryRequestIsSound DEF AccountInv, TypeOK
<1>2. PICK r : r = [req[p] EXCEPT !.at = place]
  OBVIOUS
<1>3. /\ r \in Request /\ r.tenant = req[p].tenant /\ r.cred = req[p].cred /\ r.swept = req[p].swept
      /\ r.status = req[p].status /\ r.at = place /\ r.no = req[p].no
  BY <1>1, <1>2 DEF Request
<1>4. RequestIsSound(r)
  BY <1>1, <1>3 DEF RequestIsSound, Resolved
<1>5. req' = [req EXCEPT ![p] = r]
  BY <1>2 DEF AccountInv, TypeOK
<1> QED
  BY <1>4, <1>5

\* Every step of a request that changes no account, key, source or row.
LEMMA RequestInv ==
    ASSUME AccountInv, NEW p \in Slot,
           \/ resolve_key(p) \/ demo_account_name_rejects(p)
           \/ _upsert_account_conflicts(p) \/ _upsert_account_selects(p)
           \/ enforce_write_limit(p) \/ Unprocessable(p)
    PROVE  AccountInv'
<1>0. /\ clock \in Nat /\ sent \in 0..MaxRequests /\ RequestIsSound(req[p])
  BY EveryRequestIsSound DEF AccountInv, TypeOK
<1>1. UNCHANGED <<accountVars, rows, sent, retention, clock>>
  BY DEF resolve_key, demo_account_name_rejects, _upsert_account_conflicts, _upsert_account_selects,
         enforce_write_limit, Unprocessable, limitVars, check_refused, check_allowed, check_unavailable
<1>2. SUFFICES \E r : RequestIsSound(r) /\ req' = [req EXCEPT ![p] = r]
  BY <1>0, <1>1, RequestStep
<1>3. CASE resolve_key(p)
  <2>1. ASSUME NEW a \in resolve_api_key(req[p].cred.of), Admit(p, a)
        PROVE  \E r : RequestIsSound(r) /\ req' = [req EXCEPT ![p] = r]
    <3>1. a \in accounts /\ \E k \in keys : k.key = req[p].cred.of /\ k.account = a.id
      BY DEF resolve_api_key
    <3>2. a.kind = "real"
      BY <3>1 DEF AccountInv, CredentialsOnRealAccounts, TypeOK
    <3>3. req[p].cred.by = "key" /\ req[p].at # "none"
      BY <1>3 DEF resolve_key
    <3> QED
      BY <2>1, <3>1, <3>2, <3>3, AdmitSound
  <2>2. ASSUME Reply(p, 401)
        PROVE  \E r : RequestIsSound(r) /\ req' = [req EXCEPT ![p] = r]
    BY <2>2, ReplySound
  <2> QED
    BY <1>3, <2>1, <2>2 DEF resolve_key
<1>4. CASE demo_account_name_rejects(p)
  <2>1. Reply(p, 400)
    BY <1>4 DEF demo_account_name_rejects
  <2> QED
    BY <2>1, ReplySound
<1>5. CASE _upsert_account_conflicts(p)
  <2>1. /\ req' = [req EXCEPT ![p].at = "select"]
        /\ req[p].cred.by # "key" /\ Named(req[p].cred.of) # {} /\ req[p].at # "none"
    BY <1>5 DEF _upsert_account_conflicts, ByName
  <2> QED
    BY <2>1, MoveSound
<1>6. CASE _upsert_account_selects(p)
  <2>0. req[p].at = "select" /\ req[p].cred.by # "key"
    BY <1>0, <1>6 DEF _upsert_account_selects, RequestIsSound
  <2>1. ASSUME NEW a \in Named(req[p].cred.of), Admit(p, a)
        PROVE  \E r : RequestIsSound(r) /\ req' = [req EXCEPT ![p] = r]
    <3>1. a \in accounts /\ a.name = req[p].cred.of
      BY DEF Named
    <3> QED
      BY <2>0, <2>1, <3>1, AdmitSound
  <2>2. ASSUME Named(req[p].cred.of) = {}, Reply(p, 500)
        PROVE  \E r : RequestIsSound(r) /\ req' = [req EXCEPT ![p] = r]
    <3>1. req[p].swept
      BY <1>0, <2>0, <2>2 DEF RequestIsSound
    <3> QED
      BY <2>2, <3>1, ReplySound
  <2> QED
    BY <1>6, <2>1, <2>2 DEF _upsert_account_selects
<1>7. CASE enforce_write_limit(p)
  <2>1. req[p].at = "limit" /\ (Reply(p, 429) \/ req' = [req EXCEPT ![p].at = "handle"])
    BY <1>7 DEF enforce_write_limit
  <2>2. CASE Reply(p, 429)
    BY <2>2, ReplySound
  <2>3. CASE req' = [req EXCEPT ![p].at = "handle"]
    BY <2>1, <2>3, MoveSound
  <2> QED
    BY <2>1, <2>2, <2>3
<1>8. CASE Unprocessable(p)
  <2>1. Reply(p, 422)
    BY <1>8 DEF Unprocessable
  <2> QED
    BY <2>1, ReplySound
<1> QED
  BY <1>3, <1>4, <1>5, <1>6, <1>7, <1>8

-----------------------------------------------------------------------------
(***************************************************************************)
(* The accounts, part 2: what grows.                                       *)
(***************************************************************************)
\* No account goes, new ones have new ids, and every key keeps its account.
Growth ==
    /\ accounts \subseteq accounts'
    /\ next_id <= next_id'
    /\ \A a \in accounts' : a \in accounts \/ (a.id = next_id /\ a.id < next_id')
    /\ \A k \in keys : \E l \in keys' : l.key = k.key /\ l.account = k.account

LEMMA SoundMono ==
    ASSUME AccountInv, TypeOK', Growth, NEW r, RequestIsSound(r)
    PROVE  RequestIsSound(r)'
<1>1. Resolved(r) => Resolved(r)'
  <2> SUFFICES ASSUME Resolved(r) PROVE Resolved(r)'
    OBVIOUS
  <2>1. r.tenant \in Account /\ r.tenant.id \in Nat /\ next_id \in Nat /\ next_id' \in Nat
    BY DEF Resolved, Account, AccountInv, TypeOK
  <2>2. r.tenant.id < next_id' /\ r.tenant.id # next_id
    BY <2>1 DEF Resolved, Growth
  <2>3. r.tenant.id \in Ids' => r.tenant \in accounts'
    BY <2>2 DEF Resolved, Growth, Ids
  <2>4. r.cred.by = "key" =>
            \E l \in keys' : l.key = r.cred.of /\ l.account = r.tenant.id
    BY DEF Resolved, Growth
  <2> QED
    BY <2>1, <2>2, <2>3, <2>4 DEF Resolved, Growth
<1>2. Named(r.cred.of) # {} => Named(r.cred.of)' # {}
  BY DEF Named, Growth
<1> QED
  BY <1>1, <1>2 DEF RequestIsSound

LEMMA GrowthInv ==
    ASSUME AccountInv, TypeOK', Growth,
           \A p \in Slot : \E r : RequestIsSound(r)' /\ r = req'[p],
           retention' = retention,
           CredentialsOnRealAccounts', WritesReachTheirAccount'
    PROVE  AccountInv'
<1>2. RequestsKnowTheirAccount' /\ ConflictsAreReal' /\ ActiveIsNumbered' /\ FailsOnlyWhenSwept'
  <2>1. ASSUME NEW p \in Slot, NEW r, r = req'[p], RequestIsSound(r)'
        PROVE  /\ req'[p].at \in {"limit", "handle"} => Resolved(req[p])'
               /\ req'[p].at = "select" =>
                    req'[p].cred.by # "key" /\ (Named(req[p].cred.of)' # {} \/ req'[p].swept)
               /\ req'[p].at # "none" => req'[p].no # 0
               /\ req'[p].status = 500 => req'[p].swept
    BY <2>1 DEF RequestIsSound, Resolved, Named, Ids
  <2> QED
    BY <2>1 DEF RequestsKnowTheirAccount, ConflictsAreReal, ActiveIsNumbered, FailsOnlyWhenSwept
<1>3. DoomedAreDemo'
  <2> SUFFICES ASSUME NEW id \in retention.doomed
               PROVE  id < next_id' /\ \A a \in accounts' : a.id = id => a.kind = "demo"
    BY DEF DoomedAreDemo, AccountInv
  <2>1. id < next_id /\ \A a \in accounts : a.id = id => a.kind = "demo"
    BY DEF DoomedAreDemo, AccountInv
  <2>2. id \in Nat /\ next_id \in Nat /\ next_id' \in Nat
    BY DEF AccountInv, TypeOK
  <2> QED
    BY <2>1, <2>2 DEF Growth
<1> QED
  BY <1>2, <1>3 DEF AccountInv

\* The insert's foreign key meets the account that resolution read, or nobody.
LEMMA IngestInv ==
    ASSUME AccountInv, NEW p \in Slot, ingest(p)
    PROVE  AccountInv'
<1> USE DEF accountVars
<1>0. /\ req[p].at = "handle" /\ RequestIsSound(req[p]) /\ Resolved(req[p]) /\ req[p] \in Request
      /\ UNCHANGED <<accountVars, sent, retention, limitVars>>
  BY EveryRequestIsSound DEF ingest, RequestIsSound
<1>1. CASE req[p].tenant.id \in Ids
  <2>1. /\ rows' = rows \cup {[no |-> req[p].no, account |-> req[p].tenant.id, cred |-> req[p].cred]}
        /\ Reply(p, 202)
    BY <1>1 DEF ingest
  <2>2. PICK r : RequestIsSound(r) /\ req' = [req EXCEPT ![p] = r]
    BY <2>1, ReplySound
  <2>3. PICK row : row = [no |-> req[p].no, account |-> req[p].tenant.id, cred |-> req[p].cred]
    OBVIOUS
  <2>4. \E a \in accounts :
            /\ a.id = row.account
            /\ IF row.cred.by = "key"
               THEN \E k \in keys : k.key = row.cred.of /\ k.account = a.id
               ELSE a.name = row.cred.of
    BY <1>0, <1>1, <2>3 DEF Resolved
  <2>5. WritesReachTheirAccount'
    BY <1>0, <2>1, <2>3, <2>4 DEF AccountInv, WritesReachTheirAccount
  <2>6. \A q \in Slot : \E x : RequestIsSound(x) /\ x = req'[q]
    BY <2>2, EveryRequestIsSound DEF AccountInv, TypeOK
  <2>7. TypeOK'
    <3>1. row \in RawRow
      <4>1. req[p].no \in 1..MaxRequests /\ req[p].cred \in Credential
        BY <1>0, LimitsAssumption DEF RequestIsSound, Request
      <4>2. req[p].tenant.id \in 1..MaxAccounts
        BY <1>0 DEF Resolved, Account
      <4> QED
        BY <2>3, <4>1, <4>2 DEF RawRow
    <3>2. req' \in [Slot -> Request]
      BY <2>2 DEF AccountInv, TypeOK, RequestIsSound
    <3> QED
      BY <1>0, <2>1, <2>3, <3>1, <3>2 DEF AccountInv, TypeOK, limitVars
  <2> QED
    <3>1. next_id <= next_id'
      BY <1>0 DEF AccountInv, TypeOK
    <3>2. Growth
      BY <1>0, <3>1 DEF Growth
    <3>3. CredentialsOnRealAccounts'
      BY <1>0 DEF AccountInv, CredentialsOnRealAccounts
    <3> QED
      BY <1>0, <2>5, <2>6, <2>7, <3>2, <3>3, SoundMono, GrowthInv
<1>2. CASE req[p].tenant.id \notin Ids
  <2>1. Reply(p, 500) /\ rows' = rows
    BY <1>2 DEF ingest
  <2>2. req[p].swept
    BY <1>0, <1>2 DEF Resolved, Ids
  <2>3. PICK r : RequestIsSound(r) /\ req' = [req EXCEPT ![p] = r]
    BY <2>1, <2>2, ReplySound
  <2> QED
    BY <1>0, <2>1, <2>3, RequestStep DEF AccountInv, TypeOK, limitVars
<1> QED
  BY <1>1, <1>2

LEMMA SourceInv ==
    ASSUME AccountInv, NEW p \in Slot, create_gateway_source(p)
    PROVE  AccountInv'
<1>0. /\ req[p].at = "handle" /\ Resolved(req[p])
      /\ UNCHANGED <<accounts, next_id, keys, rows, sent, retention, limitVars>>
  BY EveryRequestIsSound DEF create_gateway_source, RequestIsSound
<1>1. /\ Reply(p, 403) \/ Reply(p, 201)
      /\ \A id \in sources' : id \in sources \/ (id = req[p].tenant.id /\ req[p].tenant.kind = "real" /\ id \in Ids)
  BY DEF create_gateway_source
<1>2. PICK r : RequestIsSound(r) /\ req' = [req EXCEPT ![p] = r]
  BY <1>1, ReplySound
<1>3. \A q \in Slot : \E x : RequestIsSound(x) /\ x = req'[q]
  BY <1>2, EveryRequestIsSound DEF AccountInv, TypeOK
<1>4. TypeOK'
  <2>1. req' \in [Slot -> Request]
    BY <1>2 DEF AccountInv, TypeOK, RequestIsSound
  <2>2. sources' \subseteq 1..MaxAccounts
    BY <1>0, <1>1 DEF AccountInv, TypeOK, Resolved, Account
  <2> QED
    BY <1>0, <2>1, <2>2 DEF AccountInv, TypeOK, limitVars
<1>5. CredentialsOnRealAccounts'
  <2> SUFFICES ASSUME NEW id \in sources' \cup {k.account : k \in keys}
               PROVE  \E a \in accounts : a.id = id /\ a.kind = "real"
    BY <1>0 DEF CredentialsOnRealAccounts
  <2>1. CASE id \in sources \cup {k.account : k \in keys}
    BY <2>1 DEF AccountInv, CredentialsOnRealAccounts
  <2>2. CASE id = req[p].tenant.id /\ req[p].tenant.kind = "real" /\ id \in Ids
    BY <1>0, <2>2 DEF Resolved
  <2> QED
    BY <1>1, <2>1, <2>2
<1>6. WritesReachTheirAccount'
  BY <1>0 DEF AccountInv, WritesReachTheirAccount
<1>7. Growth
  BY <1>0 DEF Growth, AccountInv, TypeOK
<1> QED
  BY <1>0, <1>3, <1>4, <1>5, <1>6, <1>7, SoundMono, GrowthInv

\* A new account, by a visitor or by the operator, with any keys added to it.
LEMMA NewAccount ==
    ASSUME AccountInv, NEW name \in Name, NEW kind \in {"demo", "real"}, NameIsFree(name),
           next_id <= MaxAccounts, next_id' = next_id + 1,
           accounts' = accounts \cup {[id |-> next_id, name |-> name, kind |-> kind]}
    PROVE  /\ accounts' \subseteq Account
           /\ \A a, b \in accounts' : a.name = b.name \/ a.id = b.id => a = b
           /\ next_id' \in 2..(MaxAccounts + 1)
           /\ \A a \in accounts' : a.id < next_id'
           /\ \A a \in accounts' : a \in accounts \/ (a.id = next_id /\ a.id < next_id')
           /\ accounts \subseteq accounts' /\ next_id <= next_id'
<1>1. PICK new : new = [id |-> next_id, name |-> name, kind |-> kind]
  OBVIOUS
<1>2. next_id \in Nat /\ next_id \in 1..MaxAccounts /\ next_id < next_id'
      /\ next_id' \in 2..(MaxAccounts + 1) /\ next_id <= next_id'
  BY LimitsAssumption DEF AccountInv, TypeOK
<1>3. new \in Account /\ new.id = next_id /\ new.name = name
  BY <1>1, <1>2 DEF Account
<1>4. \A a \in accounts : a.id \in Nat /\ a.id < next_id /\ a.name # name
  BY DEF AccountInv, TypeOK, Account, NameIsFree, Named
<1>5. \A a \in accounts : a.id # next_id /\ a.id < next_id'
  BY <1>2, <1>4
<1>6. accounts' = accounts \cup {new}
  BY <1>1
<1>7. \A a, b \in accounts' : a.name = b.name \/ a.id = b.id => a = b
  BY <1>3, <1>4, <1>5, <1>6 DEF AccountInv, TypeOK
<1> QED
  BY <1>2, <1>3, <1>5, <1>6, <1>7 DEF AccountInv, TypeOK

LEMMA InsertInv ==
    ASSUME AccountInv, NEW p \in Slot, _upsert_account_inserts(p)
    PROVE  AccountInv'
<1>1. PICK name : name = req[p].cred.of
  OBVIOUS
<1>2. PICK new : new = [id |-> next_id, name |-> name, kind |-> "demo"]
  OBVIOUS
<1>3. /\ req[p].at = "resolve" /\ req[p].cred.by \in {"session", "nothing"}
      /\ NameIsFree(name) /\ next_id <= MaxAccounts
      /\ accounts' = accounts \cup {new} /\ next_id' = next_id + 1
      /\ Admit(p, new)
      /\ UNCHANGED <<keys, sources, rows, sent, retention, limitVars>>
  BY <1>1, <1>2 DEF _upsert_account_inserts, ByName
<1>4. req[p] \in Request /\ RequestIsSound(req[p])
  BY EveryRequestIsSound DEF AccountInv, TypeOK
<1>5. name \in Name
  BY <1>1, <1>3, <1>4 DEF Request, Credential, Name
<1>6. /\ accounts' \subseteq Account
      /\ \A a, b \in accounts' : a.name = b.name \/ a.id = b.id => a = b
      /\ next_id' \in 2..(MaxAccounts + 1)
      /\ \A a \in accounts' : a.id < next_id'
      /\ \A a \in accounts' : a \in accounts \/ (a.id = next_id /\ a.id < next_id')
      /\ accounts \subseteq accounts' /\ next_id <= next_id'
  BY <1>2, <1>3, <1>5, NewAccount
<1>7. Growth
  BY <1>3, <1>6 DEF Growth
<1>8. PICK r1 : r1 = [req[p] EXCEPT !.tenant = new]
  OBVIOUS
<1>9. PICK place \in {"limit", "handle"} : place = IF req[p].op = "ingest" THEN "limit" ELSE "handle"
  OBVIOUS
<1>10. PICK r : r = [r1 EXCEPT !.at = place]
  OBVIOUS
<1>11. new \in accounts' /\ new \in Account /\ new.name = name /\ new.id = next_id
  BY <1>2, <1>3, <1>6
<1>12. /\ r1 \in Request /\ r1.tenant = new /\ r1.cred = req[p].cred /\ r1.no = req[p].no
       /\ r1.status = req[p].status /\ r1.swept = req[p].swept
  BY <1>4, <1>8, <1>11 DEF Request
<1>13. /\ r \in Request /\ r.tenant = new /\ r.cred = req[p].cred /\ r.no = req[p].no
       /\ r.status = req[p].status /\ r.swept = req[p].swept /\ r.at = place
  BY <1>10, <1>12 DEF Request
<1>14. req' = [req EXCEPT ![p] = r]
  BY <1>3, <1>8, <1>9, <1>10 DEF Admit, AccountInv, TypeOK
<1>15. TypeOK'
  <2>1. req' \in [Slot -> Request]
    BY <1>13, <1>14 DEF AccountInv, TypeOK
  <2> QED
    BY <1>3, <1>6, <2>1 DEF AccountInv, TypeOK, limitVars
<1>16. RequestIsSound(r)'
  <2>1. Resolved(r)'
    BY <1>1, <1>3, <1>6, <1>11, <1>13 DEF Resolved
  <2> QED
    BY <1>3, <1>4, <1>13, <2>1 DEF RequestIsSound
<1>17. \A q \in Slot : \E x : RequestIsSound(x)' /\ x = req'[q]
  <2> SUFFICES ASSUME NEW q \in Slot PROVE \E x : RequestIsSound(x)' /\ x = req'[q]
    OBVIOUS
  <2>1. CASE q = p
    BY <1>14, <1>16, <2>1 DEF AccountInv, TypeOK
  <2>2. CASE q # p
    <3>1. req'[q] = req[q]
      BY <1>14, <2>2 DEF AccountInv, TypeOK
    <3>2. RequestIsSound(req[q])
      BY EveryRequestIsSound
    <3>3. PICK x : x = req[q]
      OBVIOUS
    <3>4. RequestIsSound(x)'
      BY <1>7, <1>15, <3>2, <3>3, SoundMono
    <3> QED
      BY <3>1, <3>3, <3>4
  <2> QED
    BY <2>1, <2>2
<1>18. CredentialsOnRealAccounts'
  BY <1>3 DEF AccountInv, CredentialsOnRealAccounts
<1>19. WritesReachTheirAccount'
  BY <1>3 DEF AccountInv, WritesReachTheirAccount
<1> QED
  BY <1>3, <1>7, <1>15, <1>17, <1>18, <1>19, GrowthInv

\* The operator's steps leave every request alone.
LEMMA RequestsStaySound ==
    ASSUME AccountInv, TypeOK', Growth, req' = req
    PROVE  \A p \in Slot : \E r : RequestIsSound(r)' /\ r = req'[p]
<1> SUFFICES ASSUME NEW p \in Slot PROVE \E r : RequestIsSound(r)' /\ r = req'[p]
  OBVIOUS
<1>1. PICK r : r = req[p]
  OBVIOUS
<1>2. RequestIsSound(r)
  BY <1>1, EveryRequestIsSound
<1>3. RequestIsSound(r)'
  BY <1>2, SoundMono
<1> QED
  BY <1>1, <1>3

\* A credential added to a real account, old or new.
LEMMA CredentialStep ==
    ASSUME AccountInv, TypeOK', Growth, req' = req, rows' = rows, retention' = retention,
           \A id \in sources' \cup {k.account : k \in keys'} :
                \/ id \in sources \cup {k.account : k \in keys}
                \/ \E a \in accounts' : a.id = id /\ a.kind = "real"
    PROVE  AccountInv'
<1>1. CredentialsOnRealAccounts'
  <2> SUFFICES ASSUME NEW id \in sources' \cup {k.account : k \in keys'}
               PROVE  \E a \in accounts' : a.id = id /\ a.kind = "real"
    BY DEF CredentialsOnRealAccounts
  <2>1. id \in sources \cup {k.account : k \in keys} => \E a \in accounts : a.id = id /\ a.kind = "real"
    BY DEF AccountInv, CredentialsOnRealAccounts
  <2> QED
    BY <2>1 DEF Growth
<1>2. WritesReachTheirAccount'
  <2> SUFFICES ASSUME NEW row \in rows
               PROVE  \E a \in accounts' :
                        /\ a.id = row.account
                        /\ IF row.cred.by = "key"
                           THEN \E k \in keys' : k.key = row.cred.of /\ k.account = a.id
                           ELSE a.name = row.cred.of
    BY DEF WritesReachTheirAccount
  <2>1. PICK a \in accounts :
            /\ a.id = row.account
            /\ IF row.cred.by = "key"
               THEN \E k \in keys : k.key = row.cred.of /\ k.account = a.id
               ELSE a.name = row.cred.of
    BY DEF AccountInv, WritesReachTheirAccount
  <2>2. a \in accounts'
    BY DEF Growth
  <2>3. CASE row.cred.by = "key"
    <3>1. PICK k \in keys : k.key = row.cred.of /\ k.account = a.id
      BY <2>1, <2>3
    <3>2. \E l \in keys' : l.key = row.cred.of /\ l.account = a.id
      BY <3>1 DEF Growth
    <3> QED
      BY <2>1, <2>2, <2>3, <3>2
  <2>4. CASE row.cred.by # "key"
    BY <2>1, <2>2, <2>4
  <2> QED
    BY <2>3, <2>4
<1> QED
  BY <1>1, <1>2, RequestsStaySound, GrowthInv

LEMMA KeyInv ==
    ASSUME AccountInv, NEW name \in Name, NEW key \in Key, issue_api_key(name, key)
    PROVE  AccountInv'
<1>0. /\ \A k \in keys : k.key # key
      /\ UNCHANGED <<sources, rows, req, sent, retention, limitVars>>
  BY DEF issue_api_key
<1>1. CASE \E a \in Reusable(name) :
                /\ keys' = keys \cup {[key |-> key, account |-> a.id, revoked |-> FALSE]}
                /\ UNCHANGED <<accounts, next_id>>
  <2>1. PICK a \in accounts :
            /\ a.kind = "real"
            /\ keys' = keys \cup {[key |-> key, account |-> a.id, revoked |-> FALSE]}
            /\ UNCHANGED <<accounts, next_id>>
    BY <1>1 DEF Reusable, Named
  <2>2. PICK new : new = [key |-> key, account |-> a.id, revoked |-> FALSE]
    OBVIOUS
  <2>3. /\ new \in [key : Key, account : 1..MaxAccounts, revoked : BOOLEAN]
        /\ new.key = key /\ new.account = a.id
    BY <2>2 DEF AccountInv, TypeOK, Account
  <2>4. keys' = keys \cup {new}
    BY <2>1, <2>2
  <2>5. TypeOK'
    BY <1>0, <2>1, <2>3, <2>4 DEF AccountInv, TypeOK, limitVars
  <2>6. Growth
    BY <2>1, <2>4 DEF Growth, AccountInv, TypeOK
  <2> QED
    BY <1>0, <2>1, <2>3, <2>4, <2>5, <2>6, CredentialStep
<1>2. CASE /\ NameIsFree(name)
           /\ next_id <= MaxAccounts
           /\ accounts' = accounts \cup {[id |-> next_id, name |-> name, kind |-> "real"]}
           /\ next_id' = next_id + 1
           /\ keys' = keys \cup {[key |-> key, account |-> next_id, revoked |-> FALSE]}
  <2>1. PICK new : new = [key |-> key, account |-> next_id, revoked |-> FALSE]
    OBVIOUS
  <2>2. /\ accounts' \subseteq Account
        /\ \A a, b \in accounts' : a.name = b.name \/ a.id = b.id => a = b
        /\ next_id' \in 2..(MaxAccounts + 1)
        /\ \A a \in accounts' : a.id < next_id'
        /\ \A a \in accounts' : a \in accounts \/ (a.id = next_id /\ a.id < next_id')
        /\ accounts \subseteq accounts' /\ next_id <= next_id'
    BY <1>2, NewAccount
  <2>3. next_id \in 1..MaxAccounts
    BY <1>2, LimitsAssumption DEF AccountInv, TypeOK
  <2>4. /\ new \in [key : Key, account : 1..MaxAccounts, revoked : BOOLEAN]
        /\ new.key = key /\ new.account = next_id /\ keys' = keys \cup {new}
    BY <1>2, <2>1, <2>3
  <2>5. TypeOK'
    BY <1>0, <2>2, <2>4 DEF AccountInv, TypeOK, limitVars
  <2>6. Growth
    BY <2>2, <2>4 DEF Growth
  <2>7. \E a \in accounts' : a.id = new.account /\ a.kind = "real"
    <3>1. PICK a : a = [id |-> next_id, name |-> name, kind |-> "real"]
      OBVIOUS
    <3> QED
      BY <1>2, <2>4, <3>1
  <2> QED
    BY <1>0, <2>4, <2>5, <2>6, <2>7, CredentialStep
<1> QED
  BY <1>1, <1>2 DEF issue_api_key

LEMMA RegisterInv ==
    ASSUME AccountInv, NEW name \in Name, register(name)
    PROVE  AccountInv'
<1>1. PICK a \in accounts : a.kind = "real" /\ sources' = sources \cup {a.id}
  BY DEF register, Named
<1>2. UNCHANGED <<accounts, next_id, keys, rows, req, sent, retention, limitVars>>
  BY DEF register
<1>3. TypeOK'
  BY <1>1, <1>2 DEF AccountInv, TypeOK, Account, limitVars
<1>4. Growth
  BY <1>2 DEF Growth, AccountInv, TypeOK
<1> QED
  BY <1>1, <1>2, <1>3, <1>4, CredentialStep

LEMMA RevokeInv ==
    ASSUME AccountInv, NEW k \in keys, Revoke(k)
    PROVE  AccountInv'
<1>1. PICK l : l = [k EXCEPT !.revoked = TRUE]
  OBVIOUS
<1>2. /\ keys' = (keys \ {k}) \cup {l}
      /\ UNCHANGED <<accounts, next_id, sources, rows, req, sent, retention, limitVars>>
  BY <1>1 DEF Revoke
<1>3. /\ l \in [key : Key, account : 1..MaxAccounts, revoked : BOOLEAN]
      /\ l.key = k.key /\ l.account = k.account
  <2>1. k \in [key : Key, account : 1..MaxAccounts, revoked : BOOLEAN]
    BY DEF AccountInv, TypeOK
  <2> QED
    BY <1>1, <2>1
<1>4. TypeOK'
  <2>1. \A x, y \in keys' : x.key = y.key => x = y
    BY <1>2, <1>3 DEF AccountInv, TypeOK
  <2> QED
    BY <1>2, <1>3, <2>1 DEF AccountInv, TypeOK, limitVars
<1>5. Growth
  BY <1>2, <1>3 DEF Growth, AccountInv, TypeOK
<1> QED
  BY <1>2, <1>3, <1>4, <1>5, CredentialStep

-----------------------------------------------------------------------------
(***************************************************************************)
(* The accounts, part 3: retention.                                        *)
(***************************************************************************)
\* Steps of the pass that touch nothing but the pass.
LEMMA RetentionStep ==
    ASSUME AccountInv,
           UNCHANGED <<accountVars, rows, req, sent, clock>>,
           retention' \in [at : {"wait", "next", "purged"}, doomed : SUBSET (1..MaxAccounts),
                           account : 0..MaxAccounts, purged : SUBSET RawRow],
           DoomedAreDemo'
    PROVE  AccountInv'
<1> USE DEF accountVars
<1>1. TypeOK'
  BY DEF AccountInv, TypeOK
<1>2. RequestsKnowTheirAccount'
  BY DEF AccountInv, RequestsKnowTheirAccount, Resolved, Ids
<1>3. ConflictsAreReal' /\ ActiveIsNumbered' /\ FailsOnlyWhenSwept'
  BY DEF AccountInv, ConflictsAreReal, ActiveIsNumbered, FailsOnlyWhenSwept, Named
<1>4. CredentialsOnRealAccounts' /\ WritesReachTheirAccount'
  BY DEF AccountInv, CredentialsOnRealAccounts, WritesReachTheirAccount
<1> QED
  BY <1>1, <1>2, <1>3, <1>4 DEF AccountInv

LEMMA RestingType ==
    /\ Resting \in [at : {"wait", "next", "purged"}, doomed : SUBSET (1..MaxAccounts),
                    account : 0..MaxAccounts, purged : SUBSET RawRow]
    /\ Resting.doomed = {} /\ Resting.at = "wait"
BY LimitsAssumption DEF Resting

LEMMA PassInv ==
    ASSUME AccountInv, Scan \/ (\E id \in retention.doomed : Purge(id)) \/ DeleteAccount_fails \/ RetentionCrash
    PROVE  AccountInv'
<1>1. UNCHANGED <<accountVars, rows, req, sent, clock>>
  BY DEF Scan, Purge, DeleteAccount_fails, RetentionCrash, limitVars
<1>2. CASE Scan
  <2>1. PICK D \in SUBSET MayBeStale : retention' = [Resting EXCEPT !.at = "next", !.doomed = D]
    BY <1>2 DEF Scan
  <2>2. retention' = [at |-> "next", doomed |-> D, account |-> 0, purged |-> {}]
    BY <2>1 DEF Resting
  <2>3. D \in SUBSET (1..MaxAccounts)
    BY DEF MayBeStale, AccountInv, TypeOK, Account
  <2>4. \A id \in D : id < next_id /\ \A a \in accounts : a.id = id => a.kind = "demo"
    BY DEF MayBeStale, AccountInv, TypeOK
  <2>5. DoomedAreDemo'
    BY <1>1, <2>2, <2>4 DEF DoomedAreDemo, accountVars
  <2> QED
    BY <1>1, <2>2, <2>3, <2>5, RetentionStep, LimitsAssumption
<1>3. CASE \E id \in retention.doomed : Purge(id)
  <2>1. PICK id \in retention.doomed :
            retention' = [retention EXCEPT !.at = "purged", !.account = id, !.purged = OwnedBy(id)]
    BY <1>3 DEF Purge
  <2>2. PICK gone : gone = OwnedBy(id)
    OBVIOUS
  <2>3. gone \in SUBSET RawRow /\ id \in 0..MaxAccounts
    BY <2>2 DEF OwnedBy, AccountInv, TypeOK
  <2>4. retention' = [at |-> "purged", doomed |-> retention.doomed, account |-> id, purged |-> gone]
    BY <2>1, <2>2 DEF AccountInv, TypeOK
  <2>5. DoomedAreDemo'
    BY <1>1, <2>4 DEF DoomedAreDemo, AccountInv, accountVars
  <2> QED
    BY <1>1, <2>3, <2>4, <2>5, RetentionStep DEF AccountInv, TypeOK
<1>4. CASE DeleteAccount_fails \/ RetentionCrash
  <2>1. retention' = Resting
    BY <1>4 DEF DeleteAccount_fails, RetentionCrash
  <2>2. DoomedAreDemo'
    BY <2>1, RestingType DEF DoomedAreDemo
  <2> QED
    BY <1>1, <2>1, <2>2, RestingType, RetentionStep
<1> QED
  BY <1>2, <1>3, <1>4

\* The account goes with its keys, its sources and its rows, in one transaction.
LEMMA DeleteAccountInv ==
    ASSUME AccountInv, DeleteAccount
    PROVE  AccountInv'
<1>1. PICK id : id = retention.account
  OBVIOUS
<1>2. PICK lost : lost = {a.name : a \in {b \in accounts : b.id = id}}
  OBVIOUS
<1>3. PICK left : left = retention.doomed \ {id}
  OBVIOUS
<1>4. /\ rows' = {r \in rows : r.account # id}
      /\ accounts' = {a \in accounts : a.id # id}
      /\ keys' = {k \in keys : k.account # id}
      /\ sources' = sources \ {id}
      /\ req' = [p \in Slot |-> [req[p] EXCEPT
                    !.swept = @ \/ (req[p].at # "none" /\ req[p].cred.of \in lost)]]
      /\ retention' = IF left = {} THEN Resting ELSE [Resting EXCEPT !.at = "next", !.doomed = left]
      /\ UNCHANGED <<next_id, sent, limitVars>>
  BY <1>1, <1>2, <1>3 DEF DeleteAccount, OwnedBy
<1>5. \A a \in accounts : a.id = id => a.kind = "demo"
  BY <1>1 DEF DeleteAccount, AccountInv, DoomedAreDemo
<1>6. ASSUME NEW p \in Slot, NEW r, r = req'[p]
      PROVE  /\ r \in Request /\ r.at = req[p].at /\ r.cred = req[p].cred /\ r.no = req[p].no
             /\ r.tenant = req[p].tenant /\ r.status = req[p].status
             /\ req[p].swept => r.swept
             /\ req[p].at # "none" /\ req[p].cred.of \in lost => r.swept
  <2>1. req[p] \in Request
    BY DEF AccountInv, TypeOK
  <2>2. PICK flag \in BOOLEAN : flag = (req[p].swept \/ (req[p].at # "none" /\ req[p].cred.of \in lost))
    OBVIOUS
  <2>3. r = [req[p] EXCEPT !.swept = flag]
    BY <1>4, <1>6, <2>2
  <2>4. /\ r \in Request /\ r.at = req[p].at /\ r.cred = req[p].cred /\ r.no = req[p].no
        /\ r.tenant = req[p].tenant /\ r.status = req[p].status /\ r.swept = flag
    BY <2>1, <2>3 DEF Request
  <2> QED
    BY <2>2, <2>4
<1>7. TypeOK'
  <2>1. req' \in [Slot -> Request]
    <3>1. \A p \in Slot : req'[p] \in Request
      BY <1>6
    <3>2. req' = [p \in Slot |-> req'[p]]
      BY <1>4
    <3> QED
      BY <3>1, <3>2
  <2>2. retention' \in [at : {"wait", "next", "purged"}, doomed : SUBSET (1..MaxAccounts),
                        account : 0..MaxAccounts, purged : SUBSET RawRow]
    <3>1. left \in SUBSET (1..MaxAccounts)
      BY <1>3 DEF AccountInv, TypeOK
    <3>2. retention' = Resting \/ retention' = [at |-> "next", doomed |-> left, account |-> 0, purged |-> {}]
      BY <1>4 DEF Resting
    <3>3. CASE retention' = Resting
      BY <3>3, RestingType
    <3>4. CASE retention' = [at |-> "next", doomed |-> left, account |-> 0, purged |-> {}]
      <4>1. 0 \in 0..MaxAccounts /\ {} \in SUBSET RawRow
        BY LimitsAssumption
      <4> QED
        BY <3>1, <3>4, <4>1
    <3> QED
      BY <3>2, <3>3, <3>4
  <2> QED
    BY <1>4, <2>1, <2>2 DEF AccountInv, TypeOK, limitVars
<1>8. ASSUME NEW p \in Slot, NEW r, r = req'[p]
      PROVE  RequestIsSound(r)'
  <2>1. /\ r \in Request /\ r.at = req[p].at /\ r.cred = req[p].cred /\ r.no = req[p].no
        /\ r.tenant = req[p].tenant /\ r.status = req[p].status
        /\ req[p].swept => r.swept
        /\ req[p].at # "none" /\ req[p].cred.of \in lost => r.swept
    BY <1>6, <1>8
  <2>2. RequestIsSound(req[p])
    BY EveryRequestIsSound
  <2>3. r.at \in {"limit", "handle"} => Resolved(r)'
    <3> SUFFICES ASSUME r.at \in {"limit", "handle"} PROVE Resolved(r)'
      OBVIOUS
    <3>1. /\ r.tenant \in Account
          /\ r.tenant.id < next_id
          /\ r.tenant.id \in Ids => r.tenant \in accounts
          /\ r.cred.by = "key" =>
                /\ r.tenant \in accounts /\ r.tenant.kind = "real"
                /\ \E k \in keys : k.key = r.cred.of /\ k.account = r.tenant.id
          /\ r.cred.by # "key" =>
                /\ r.tenant.name = r.cred.of
                /\ r.tenant \in accounts \/ req[p].swept
      BY <2>1, <2>2 DEF RequestIsSound, Resolved
    <3>2. r.tenant.id \in Ids' => r.tenant \in accounts'
      BY <1>4, <3>1 DEF Ids
    <3>3. r.cred.by = "key" =>
            /\ r.tenant \in accounts'
            /\ \E k \in keys' : k.key = r.cred.of /\ k.account = r.tenant.id
      BY <1>4, <1>5, <3>1
    <3>4. r.cred.by # "key" => r.tenant \in accounts' \/ r.swept
      <4> SUFFICES ASSUME r.cred.by # "key", r.tenant \in accounts, r.tenant.id = id PROVE r.swept
        BY <1>4, <2>1, <3>1
      <4>1. r.tenant.name \in lost
        BY <1>2
      <4> QED
        BY <2>1, <3>1, <4>1
    <3> QED
      BY <1>4, <3>1, <3>2, <3>3, <3>4 DEF Resolved
  <2>4. r.at = "select" => r.cred.by # "key" /\ (Named(r.cred.of)' # {} \/ r.swept)
    <3> SUFFICES ASSUME r.at = "select", NEW a \in accounts, a.name = r.cred.of
                 PROVE  Named(r.cred.of)' # {} \/ r.swept
      BY <2>1, <2>2 DEF RequestIsSound, Named
    <3>1. CASE a.id # id
      BY <1>4, <3>1 DEF Named
    <3>2. CASE a.id = id
      <4>1. a.name \in lost
        BY <1>2, <3>2
      <4> QED
        BY <2>1, <4>1
    <3> QED
      BY <3>1, <3>2
  <2> QED
    BY <2>1, <2>2, <2>3, <2>4 DEF RequestIsSound
<1>9. RequestsKnowTheirAccount' /\ ConflictsAreReal' /\ ActiveIsNumbered' /\ FailsOnlyWhenSwept'
  <2>1. ASSUME NEW p \in Slot
        PROVE  /\ req'[p].at \in {"limit", "handle"} => Resolved(req[p])'
               /\ req'[p].at = "select" =>
                    req'[p].cred.by # "key" /\ (Named(req[p].cred.of)' # {} \/ req'[p].swept)
               /\ req'[p].at # "none" => req'[p].no # 0
               /\ req'[p].status = 500 => req'[p].swept
    <3>1. PICK r : r = req'[p]
      OBVIOUS
    <3>2. RequestIsSound(r)'
      BY <1>8, <3>1
    <3> QED
      BY <3>1, <3>2 DEF RequestIsSound, Resolved, Named, Ids
  <2> QED
    BY <2>1 DEF RequestsKnowTheirAccount, ConflictsAreReal, ActiveIsNumbered, FailsOnlyWhenSwept
<1>10. DoomedAreDemo'
  <2>1. retention'.doomed \subseteq retention.doomed /\ retention'.at # "purged"
    BY <1>3, <1>4, RestingType DEF Resting
  <2> QED
    BY <1>4, <2>1 DEF AccountInv, DoomedAreDemo
<1>11. CredentialsOnRealAccounts'
  <2> SUFFICES ASSUME NEW c \in sources' \cup {k.account : k \in keys'}
               PROVE  \E a \in accounts' : a.id = c /\ a.kind = "real"
    BY DEF CredentialsOnRealAccounts
  <2>1. c \in sources \cup {k.account : k \in keys} /\ c # id
    BY <1>4
  <2>2. PICK a \in accounts : a.id = c /\ a.kind = "real"
    BY <2>1 DEF AccountInv, CredentialsOnRealAccounts
  <2> QED
    BY <1>4, <2>1, <2>2
<1>12. WritesReachTheirAccount'
  <2> SUFFICES ASSUME NEW row \in rows'
               PROVE  \E a \in accounts' :
                        /\ a.id = row.account
                        /\ IF row.cred.by = "key"
                           THEN \E k \in keys' : k.key = row.cred.of /\ k.account = a.id
                           ELSE a.name = row.cred.of
    BY DEF WritesReachTheirAccount
  <2>1. row \in rows /\ row.account # id
    BY <1>4
  <2>2. PICK a \in accounts :
            /\ a.id = row.account
            /\ IF row.cred.by = "key"
               THEN \E k \in keys : k.key = row.cred.of /\ k.account = a.id
               ELSE a.name = row.cred.of
    BY <2>1 DEF AccountInv, WritesReachTheirAccount
  <2> QED
    BY <1>4, <2>1, <2>2
<1> QED
  BY <1>7, <1>9, <1>10, <1>11, <1>12 DEF AccountInv

-----------------------------------------------------------------------------
(***************************************************************************)
(* The accounts: the theorems.                                             *)
(***************************************************************************)
LEMMA StutterInv ==
    ASSUME AccountInv, LimiterMoves \/ UNCHANGED vars
    PROVE  AccountInv'
<1>1. UNCHANGED <<accountVars, rows, req, sent, retention>> /\ clock' \in Nat
  BY DEF LimiterMoves, Tick, LoseCounters, vars, limitVars, AccountInv, TypeOK
<1> USE DEF accountVars
<1>2. TypeOK'
  BY <1>1 DEF AccountInv, TypeOK
<1>3. RequestsKnowTheirAccount'
  BY <1>1 DEF AccountInv, RequestsKnowTheirAccount, Resolved, Ids
<1>4. ConflictsAreReal' /\ ActiveIsNumbered' /\ FailsOnlyWhenSwept' /\ DoomedAreDemo'
  BY <1>1 DEF AccountInv, ConflictsAreReal, ActiveIsNumbered, FailsOnlyWhenSwept, Named, DoomedAreDemo
<1>5. CredentialsOnRealAccounts' /\ WritesReachTheirAccount'
  BY <1>1 DEF AccountInv, CredentialsOnRealAccounts, WritesReachTheirAccount
<1> QED
  BY <1>2, <1>3, <1>4, <1>5 DEF AccountInv

LEMMA AccountStep == AccountInv /\ [Next]_vars => AccountInv'
<1> SUFFICES ASSUME AccountInv, [Next]_vars PROVE AccountInv'
  OBVIOUS
<1>1. ASSUME NEW p \in Slot, NEW cred \in Credential, NEW op \in {"ingest", "source"}, NEW ip \in Ip,
             Send(p, cred, op, ip)
      PROVE  AccountInv'
  BY <1>1, SendInv
<1>2. ASSUME NEW p \in Slot, Resolve(p) \/ Handle(p)
      PROVE  AccountInv'
  BY <1>2, RequestInv, InsertInv, IngestInv, SourceInv DEF Resolve, Handle
<1>3. CASE Operator
  BY <1>3, KeyInv, RegisterInv, RevokeInv DEF Operator
<1>4. CASE Retention
  BY <1>4, PassInv, DeleteAccountInv DEF Retention
<1>5. CASE LimiterMoves \/ UNCHANGED vars
  BY <1>5, StutterInv
<1> QED
  BY <1>1, <1>2, <1>3, <1>4, <1>5 DEF Next

(***************************************************************************)
(* The inductive invariant behind the theorems on accounts.                *)
(***************************************************************************)
THEOREM AccountInvariance == Spec => []AccountInv
<1> QED
  BY AccountInit, AccountStep, PTL DEF Spec

(***************************************************************************)
(* resolve_tenant, the limiter, the handlers, the operator and retention   *)
(* keep every record well-formed; names and ids identify accounts.         *)
(***************************************************************************)
THEOREM TypeCorrect == Spec => []TypeOK
<1>1. AccountInv => TypeOK
  BY DEF AccountInv
<1> QED
  BY <1>1, AccountInvariance, PTL

(***************************************************************************)
(* resolve_tenant commits before the insert, and still every stored row    *)
(* belongs to the account its sender named: an id that was read is that    *)
(* account's or, after retention, nobody's.                                *)
(***************************************************************************)
THEOREM WritesReachTheirAccountHolds == Spec => []WritesReachTheirAccount
<1>1. AccountInv => WritesReachTheirAccount
  BY DEF AccountInv
<1> QED
  BY <1>1, AccountInvariance, PTL

(***************************************************************************)
(* issue_api_key and register attach keys and sources to real accounts     *)
(* only, and sweep_demo_accounts leaves those alone.                       *)
(***************************************************************************)
THEOREM CredentialsOnRealAccountsHolds == Spec => []CredentialsOnRealAccounts
<1>1. AccountInv => CredentialsOnRealAccounts
  BY DEF AccountInv
<1> QED
  BY <1>1, AccountInvariance, PTL

(***************************************************************************)
(* The .one() after _upsert_account's conflict and the foreign key of the  *)
(* ingested rows raise only when retention deleted the account meanwhile.  *)
(***************************************************************************)
THEOREM FailsOnlyWhenSweptHolds == Spec => []FailsOnlyWhenSwept
<1>1. AccountInv => FailsOnlyWhenSwept
  BY DEF AccountInv
<1> QED
  BY <1>1, AccountInvariance, PTL

(***************************************************************************)
(* sweep_demo_accounts deletes by ids it read earlier, and no step of the  *)
(* system takes a real account.                                            *)
(***************************************************************************)
THEOREM RealAccountsStayHolds == Spec => RealAccountsStay
<1>1. AccountInv /\ [Next]_vars => [\A a \in accounts \ accounts' : a.kind = "demo"]_vars
  <2> SUFFICES ASSUME AccountInv, Next, NEW a \in accounts \ accounts' PROVE a.kind = "demo"
    OBVIOUS
  <2>1. accounts \subseteq accounts' \/ DeleteAccount
    BY DEF Next, Send, Resolve, resolve_key, demo_account_name_rejects, _upsert_account_inserts,
           _upsert_account_conflicts, _upsert_account_selects, Handle, enforce_write_limit,
           Unprocessable, ingest, create_gateway_source, Operator, issue_api_key, register, Revoke,
           Retention, Scan, Purge, DeleteAccount_fails, RetentionCrash, LimiterMoves, accountVars
  <2>2. DeleteAccount /\ a.id = retention.account
    BY <2>1 DEF DeleteAccount
  <2> QED
    BY <2>2 DEF DeleteAccount, AccountInv, DoomedAreDemo
<1> QED
  BY <1>1, AccountInvariance, PTL DEF Spec, RealAccountsStay

(***************************************************************************)
(* A retention transaction takes the rows it has seen with the account, or *)
(* nothing: a row that arrived since keeps both.                           *)
(***************************************************************************)
THEOREM RowsLeaveWithTheirAccountHolds == Spec => RowsLeaveWithTheirAccount
<1>1. [Next]_vars => [\A r \in rows \ rows' : r.account \notin {a.id : a \in accounts'}]_vars
  <2> SUFFICES ASSUME Next, NEW r \in rows \ rows'
               PROVE  r.account \notin {a.id : a \in accounts'}
    OBVIOUS
  <2>1. rows \subseteq rows' \/ DeleteAccount
    BY ZenonT(40) DEF Next, Send, Resolve, resolve_key, demo_account_name_rejects, _upsert_account_inserts,
           _upsert_account_conflicts, _upsert_account_selects, Handle, enforce_write_limit,
           Unprocessable, ingest, create_gateway_source, Operator, issue_api_key, register, Revoke,
           Retention, Scan, Purge, DeleteAccount_fails, RetentionCrash, LimiterMoves
  <2>2. /\ r.account = retention.account
        /\ accounts' = {a \in accounts : a.id # retention.account}
    BY <2>1 DEF DeleteAccount, OwnedBy
  <2> QED
    BY <2>2
<1> QED
  BY <1>1, PTL DEF Spec, RowsLeaveWithTheirAccount

-----------------------------------------------------------------------------
(***************************************************************************)
(* The limiter, part 1: windows.                                           *)
(***************************************************************************)
\* Multiples of a window are a window apart.
LEMMA Multiples ==
    ASSUME NEW w \in Nat \ {0}, NEW p \in Int, NEW q \in Int, w * p < w * q
    PROVE  p + 1 <= q /\ w * p + w <= w * q
<1>1. p < q
  OBVIOUS
<1>2. w * (p + 1) <= w * q
  BY <1>1
<1>3. w * (p + 1) = w * p + w
  OBVIOUS
<1> QED
  BY <1>1, <1>2, <1>3

LEMMA WindowStart ==
    ASSUME NEW x \in Nat
    PROVE  \E q \in Nat : /\ window_start(x) = Window * q
                          /\ Window * q <= x /\ x < Window * q + Window
<1>1. PICK q \in Nat : x = Window * q + (x % Window) /\ x % Window \in 0..(Window - 1)
  <2>1. x = Window * (x \div Window) + (x % Window) /\ x % Window \in 0..(Window - 1) /\ x \div Window \in Nat
    BY WindowAssumption
  <2> QED
    BY <2>1
<1>2. PICK m \in Int : m = Window * q
  BY WindowAssumption
<1>3. x = m + (x % Window)
  BY <1>1, <1>2
<1>4. window_start(x) = m /\ m <= x /\ x < m + Window
  BY <1>1, <1>2, <1>3, WindowAssumption DEF window_start
<1> QED
  BY <1>2, <1>4

\* What window_start computes: the last multiple of the window, in order.
LEMMA WindowsAreApart ==
    ASSUME NEW x \in Nat, NEW y \in Nat
    PROVE  /\ window_start(x) \in Nat /\ window_start(x) <= x /\ x < window_start(x) + Window
           /\ x <= y => window_start(x) <= window_start(y)
           /\ window_start(x) < window_start(y) => window_start(x) + Window <= window_start(y)
<1>1. PICK p \in Nat : /\ window_start(x) = Window * p
                       /\ Window * p <= x /\ x < Window * p + Window
  BY WindowStart
<1>2. PICK q \in Nat : /\ window_start(y) = Window * q
                       /\ Window * q <= y /\ y < Window * q + Window
  BY WindowStart
<1>3. PICK m \in Nat : m = Window * p
  BY WindowAssumption
<1>4. PICK n \in Nat : n = Window * q
  BY WindowAssumption
<1>5. (m < n => m + Window <= n) /\ (n < m => n + Window <= m)
  BY <1>3, <1>4, Multiples, WindowAssumption
<1> QED
  BY <1>1, <1>2, <1>3, <1>4, <1>5, WindowAssumption

-----------------------------------------------------------------------------
(***************************************************************************)
(* The limiter, part 2: counting.                                          *)
(***************************************************************************)
LEMMA LimitInit == Init => LimitInv
BY DEF Init, RateLimitInit, LimitInv, CountersLast, OneCounter, HitsAreDistinct, HitsAreCounted

\* INCR answers one more than what it found, or 1.
LEMMA HitsValue ==
    ASSUME LimitInv, NEW bucket
    PROVE  /\ Hits(bucket) \in Nat \ {0}
           /\ \A c \in Current(bucket) : Hits(bucket) = c.count + 1
<1>1. CASE Current(bucket) = {}
  BY <1>1 DEF Hits
<1>2. CASE Current(bucket) # {}
  <2>1. PICK c : c = CHOOSE d \in Current(bucket) : TRUE
    OBVIOUS
  <2>2. c \in Current(bucket) /\ Hits(bucket) = c.count + 1
    BY <1>2, <2>1 DEF Hits
  <2>3. c.count \in Nat \ {0}
    BY <2>2 DEF Current, LimitInv
  <2>4. \A d \in Current(bucket) : d = c
    BY <2>2 DEF Current, LimitInv, OneCounter
  <2> QED
    BY <2>2, <2>3, <2>4
<1> QED
  BY <1>1, <1>2

\* The step of the counter: it is replaced by one that is one higher.
LEMMA CountStep ==
    ASSUME LimitInv, NEW bucket \in BucketId, Count(bucket), UNCHANGED <<clock, dropped>>,
           NEW new, new = [bucket |-> bucket, window |-> window_start(clock),
                           count |-> Hits(bucket), expires |-> clock + Window]
    PROVE  /\ counters' = (counters \ Current(bucket)) \cup {new}
           /\ counters' \subseteq [bucket : BucketId, window : Nat, count : Nat \ {0}, expires : Nat]
           /\ CountersLast' /\ OneCounter'
           /\ \A h \in admitted : window_start(h.at) = window_start(clock) /\ Kept(h.bucket, window_start(clock)) =>
                \E c \in counters' : /\ c.bucket = h.bucket /\ c.window = window_start(clock)
                                     /\ h.hit <= c.count
<1>1. counters' = (counters \ Current(bucket)) \cup {new}
  BY DEF Count
<1>2. clock \in Nat /\ window_start(clock) \in Nat /\ window_start(clock) <= clock
  BY WindowsAreApart DEF LimitInv
<1>3. /\ new \in [bucket : BucketId, window : Nat, count : Nat \ {0}, expires : Nat]
      /\ new.bucket = bucket /\ new.window = window_start(clock)
      /\ new.count = Hits(bucket) /\ new.expires = clock + Window
  BY <1>2, HitsValue, WindowAssumption
<1>4. CountersLast'
  BY <1>1, <1>2, <1>3, WindowAssumption DEF LimitInv, CountersLast
<1>5. OneCounter'
  BY <1>1, <1>3 DEF LimitInv, OneCounter, Current
<1>6. ASSUME NEW h \in admitted, window_start(h.at) = window_start(clock),
             Kept(h.bucket, window_start(clock))
      PROVE  \E c \in counters' : /\ c.bucket = h.bucket /\ c.window = window_start(clock)
                                  /\ h.hit <= c.count
  <2>1. PICK c \in Current(h.bucket) : h.hit <= c.count
    BY <1>6 DEF LimitInv, HitsAreCounted
  <2>2. CASE c \in Current(bucket)
    <3>1. h.hit \in Nat /\ c.count \in Nat /\ new.count = c.count + 1
      BY <1>3, <2>2, HitsValue DEF LimitInv, Current
    <3>2. new.bucket = h.bucket /\ h.hit <= new.count
      BY <1>3, <2>1, <2>2, <3>1 DEF Current
    <3> QED
      BY <1>1, <1>3, <3>2
  <2>3. CASE c \notin Current(bucket)
    BY <1>1, <2>1, <2>3 DEF Current
  <2> QED
    BY <2>2, <2>3
<1> QED
  BY <1>1, <1>3, <1>4, <1>5, <1>6 DEF LimitInv

LEMMA UncountedInv ==
    ASSUME LimitInv, UNCHANGED limitVars
    PROVE  LimitInv'
BY DEF limitVars, LimitInv, CountersLast, OneCounter, HitsAreDistinct, HitsAreCounted, Current, Kept

LEMMA CountInv ==
    ASSUME LimitInv, NEW bucket \in BucketId,
           \/ check_refused(bucket, BucketLimit(bucket))
           \/ check_allowed(bucket, BucketLimit(bucket))
           \/ check_unavailable(bucket)
    PROVE  LimitInv'
<1>1. UNCHANGED <<clock, dropped>> /\ clock \in Nat
  BY DEF check_refused, check_allowed, check_unavailable, LimitInv
<1>2. PICK new : new = [bucket |-> bucket, window |-> window_start(clock),
                        count |-> Hits(bucket), expires |-> clock + Window]
  OBVIOUS
<1>3. CASE Count(bucket) /\ admitted' = admitted
  <2>1. /\ counters' \subseteq [bucket : BucketId, window : Nat, count : Nat \ {0}, expires : Nat]
        /\ CountersLast' /\ OneCounter'
        /\ \A h \in admitted : window_start(h.at) = window_start(clock) /\ Kept(h.bucket, window_start(clock)) =>
                \E c \in counters' : /\ c.bucket = h.bucket /\ c.window = window_start(clock)
                                     /\ h.hit <= c.count
    BY <1>1, <1>2, <1>3, CountStep
  <2>2. HitsAreCounted'
    BY <1>1, <1>3, <2>1 DEF HitsAreCounted, Current, Kept
  <2> QED
    BY <1>1, <1>3, <2>1, <2>2 DEF LimitInv, HitsAreDistinct, Kept
<1>4. CASE Count(bucket) /\ check_allowed(bucket, BucketLimit(bucket))
  <2>1. PICK g : g = [bucket |-> bucket, at |-> clock, hit |-> Hits(bucket)]
    OBVIOUS
  <2>2. admitted' = admitted \cup {g} /\ Hits(bucket) <= BucketLimit(bucket)
    BY <1>4, <2>1 DEF check_allowed
  <2>3. /\ counters' = (counters \ Current(bucket)) \cup {new}
        /\ counters' \subseteq [bucket : BucketId, window : Nat, count : Nat \ {0}, expires : Nat]
        /\ CountersLast' /\ OneCounter'
        /\ \A h \in admitted : window_start(h.at) = window_start(clock) /\ Kept(h.bucket, window_start(clock)) =>
                \E c \in counters' : /\ c.bucket = h.bucket /\ c.window = window_start(clock)
                                     /\ h.hit <= c.count
    BY <1>1, <1>2, <1>4, CountStep
  <2>4. /\ g \in [bucket : BucketId, at : Nat, hit : Nat \ {0}]
        /\ g.bucket = bucket /\ g.at = clock /\ g.hit = Hits(bucket)
    BY <1>1, <2>1, HitsValue
  <2>5. new \in counters' /\ new.bucket = bucket /\ new.window = window_start(clock) /\ new.count = g.hit
    BY <1>2, <2>3, <2>4
  <2>6. HitsAreCounted'
    <3> SUFFICES ASSUME NEW h \in admitted', window_start(h.at) = window_start(clock),
                        Kept(h.bucket, window_start(clock))
                 PROVE  \E c \in counters' : /\ c.bucket = h.bucket /\ c.window = window_start(clock)
                                             /\ h.hit <= c.count
      BY <1>1 DEF HitsAreCounted, Current, Kept
    <3>1. CASE h = g
      BY <2>4, <2>5, <3>1
    <3>2. CASE h \in admitted
      BY <2>3, <3>2
    <3> QED
      BY <2>2, <3>1, <3>2
  <2>7. Kept(bucket, window_start(clock)) =>
            \A h \in admitted : h.bucket = bucket /\ window_start(h.at) = window_start(clock) => h.hit < g.hit
    <3> SUFFICES ASSUME NEW h \in admitted, h.bucket = bucket, window_start(h.at) = window_start(clock),
                        Kept(bucket, window_start(clock))
                 PROVE  h.hit < g.hit
      OBVIOUS
    <3>1. PICK c \in Current(bucket) : h.hit <= c.count
      BY DEF LimitInv, HitsAreCounted
    <3>2. c.count \in Nat /\ h.hit \in Nat /\ g.hit = c.count + 1
      BY <2>4, <3>1, HitsValue DEF LimitInv, Current
    <3> QED
      BY <3>1, <3>2
  <2>8. HitsAreDistinct'
    <3>1. \A h \in admitted : h.hit \in Nat
      BY DEF LimitInv
    <3>2. Kept(bucket, window_start(clock)) => \A h \in admitted :
            ~(h.bucket = g.bucket /\ h.hit = g.hit /\ window_start(h.at) = window_start(g.at))
      BY <2>4, <2>7, <3>1
    <3> QED
      BY <1>1, <2>2, <2>4, <3>2 DEF LimitInv, HitsAreDistinct, Kept
  <2>9. \A h \in admitted' : h.at <= clock /\ h.hit <= BucketLimit(h.bucket)
    BY <1>1, <2>2, <2>4 DEF LimitInv
  <2> QED
    BY <1>1, <2>2, <2>3, <2>4, <2>6, <2>8, <2>9 DEF LimitInv
<1>5. CASE UNCHANGED limitVars
  BY <1>5, UncountedInv
<1> QED
  BY <1>3, <1>4, <1>5 DEF check_refused, check_allowed, check_unavailable, limitVars

\* Within a window the current counter is still there: EXPIRE outlives the window.
LEMMA TickInv ==
    ASSUME LimitInv, Tick
    PROVE  LimitInv'
<1>1. /\ clock \in Nat /\ clock' = clock + 1 /\ UNCHANGED <<admitted, dropped>>
      /\ counters' = {c \in counters : c.expires > clock + 1}
  BY DEF LimitInv, Tick
<1>2. CountersLast' /\ OneCounter' /\ HitsAreDistinct'
  BY <1>1 DEF LimitInv, CountersLast, OneCounter, HitsAreDistinct, Kept
<1>3. HitsAreCounted'
  <2> SUFFICES ASSUME NEW h \in admitted, window_start(h.at) = window_start(clock + 1),
                      Kept(h.bucket, window_start(clock + 1))
               PROVE  \E c \in counters' : /\ c.bucket = h.bucket /\ c.window = window_start(clock + 1)
                                           /\ h.hit <= c.count
    BY <1>1 DEF HitsAreCounted, Current, Kept
  <2>1. h.at \in Nat /\ h.at <= clock
    BY DEF LimitInv
  <2>2. window_start(h.at) = window_start(clock)
    BY <1>1, <2>1, WindowsAreApart
  <2>3. PICK c \in Current(h.bucket) : h.hit <= c.count
    BY <2>2 DEF LimitInv, HitsAreCounted
  <2>4. c.window + Window <= c.expires /\ c.window = window_start(clock + 1) /\ c.expires \in Nat
    BY <2>2, <2>3 DEF LimitInv, CountersLast, Current
  <2>5. c.expires > clock + 1
    BY <1>1, <2>4, WindowsAreApart, WindowAssumption
  <2> QED
    BY <1>1, <2>3, <2>4, <2>5 DEF Current
<1>4. \A h \in admitted : h.at <= clock + 1 /\ h.hit <= BucketLimit(h.bucket)
  BY <1>1 DEF LimitInv
<1> QED
  BY <1>1, <1>2, <1>3, <1>4 DEF LimitInv

\* A counter that is lost takes its window out of the account, and no other.
LEMMA LoseInv ==
    ASSUME LimitInv, LoseCounters
    PROVE  LimitInv'
<1>1. PICK L \in SUBSET counters :
        /\ counters' = counters \ L
        /\ dropped' = dropped \cup {<<c.bucket, c.window>> : c \in L}
        /\ UNCHANGED <<clock, admitted>>
  BY DEF LoseCounters
<1>2. CountersLast' /\ OneCounter'
  BY <1>1 DEF LimitInv, CountersLast, OneCounter
<1>3. \A bucket, window : Kept(bucket, window)' =>
        Kept(bucket, window) /\ ~\E c \in L : c.bucket = bucket /\ c.window = window
  BY <1>1 DEF Kept
<1>4. HitsAreDistinct'
  BY <1>1, <1>3 DEF LimitInv, HitsAreDistinct
<1>5. HitsAreCounted'
  <2> SUFFICES ASSUME NEW h \in admitted, window_start(h.at) = window_start(clock),
                      Kept(h.bucket, window_start(clock))'
               PROVE  \E c \in counters' : /\ c.bucket = h.bucket /\ c.window = window_start(clock)
                                           /\ h.hit <= c.count
    BY <1>1 DEF HitsAreCounted, Current
  <2>1. Kept(h.bucket, window_start(clock))
    BY <1>1, <1>3
  <2>2. PICK c \in Current(h.bucket) : h.hit <= c.count
    BY <2>1 DEF LimitInv, HitsAreCounted
  <2>3. c \notin L
    BY <1>1, <1>3, <2>2 DEF Current
  <2> QED
    BY <1>1, <2>2, <2>3 DEF Current
<1> QED
  BY <1>1, <1>2, <1>4, <1>5 DEF LimitInv

LEMMA LimitStep == AccountInv /\ LimitInv /\ [Next]_vars => LimitInv'
<1> SUFFICES ASSUME AccountInv, LimitInv, [Next]_vars PROVE LimitInv'
  OBVIOUS
<1>1. ASSUME NEW p \in Slot, enforce_write_limit(p)
      PROVE  LimitInv'
  <2>1. req[p] \in Request /\ req[p].tenant \in Account
    BY <1>1, EveryRequestIsSound DEF enforce_write_limit, RequestIsSound, Resolved
  <2>2. PICK bucket : bucket = Bucket(req[p])
    OBVIOUS
  <2>3. bucket \in BucketId /\ Limit(req[p]) = BucketLimit(bucket)
    BY <2>1, <2>2 DEF Bucket, Limit, BucketLimit, BucketId, IpBucket, AccountBucket, Request, Account
  <2>4. \/ check_refused(bucket, BucketLimit(bucket))
        \/ check_allowed(bucket, BucketLimit(bucket))
        \/ check_unavailable(bucket)
    BY <1>1, <2>2, <2>3 DEF enforce_write_limit
  <2> QED
    BY <2>3, <2>4, CountInv
<1>2. CASE LimiterMoves
  BY <1>2, TickInv, LoseInv DEF LimiterMoves
<1>3. CASE UNCHANGED limitVars
  BY <1>3, UncountedInv
<1>4. CASE UNCHANGED vars
  BY <1>4, UncountedInv DEF vars
<1> QED
  BY <1>1, <1>2, <1>3, <1>4
     DEF Next, Send, Resolve, resolve_key, demo_account_name_rejects, _upsert_account_inserts,
         _upsert_account_conflicts, _upsert_account_selects, Handle,
         Unprocessable, ingest, create_gateway_source, Operator, issue_api_key, register, Revoke,
         Retention, Scan, Purge, DeleteAccount, DeleteAccount_fails, RetentionCrash

-----------------------------------------------------------------------------
(***************************************************************************)
(* The limiter, part 3: the limit.                                         *)
(***************************************************************************)
\* Inside one window Redis kept, the admitted hits of a bucket are numbered from 1 to
\* its limit.
LEMMA WithinOneWindow ==
    ASSUME LimitInv, NEW bucket, NEW w, NEW S \in SUBSET admitted, BucketLimit(bucket) \in Nat,
           \A h \in S : h.bucket = bucket /\ window_start(h.at) = w,
           Kept(bucket, w)
    PROVE  IsFiniteSet(S) /\ Cardinality(S) \in Nat /\ Cardinality(S) <= BucketLimit(bucket)
<1>1. PICK T : T = 1..BucketLimit(bucket)
  OBVIOUS
<1>2. PICK f : f = [h \in S |-> h.hit]
  OBVIOUS
<1>3. \A h \in S : h.hit \in Nat \ {0} /\ h.hit <= BucketLimit(bucket)
  BY DEF LimitInv
<1>4. f \in [S -> T]
  BY <1>1, <1>2, <1>3
<1>5. \A h, g \in S : f[h] = f[g] => h = g
  BY <1>2 DEF LimitInv, HitsAreDistinct
<1>6. f \in Injection(S, T)
  BY <1>4, <1>5 DEF Injection, IsInjective
<1>7. IsFiniteSet(T) /\ Cardinality(T) = BucketLimit(bucket)
  BY <1>1, FS_Interval
<1> QED
  BY <1>6, <1>7, FS_Injection, FS_CardinalityType

\* Window ticks from t see the rest of t's window, and then at most one more window.
LEMMA TwoWindows ==
    ASSUME LimitInv, NEW bucket, NEW t \in Nat, BucketLimit(bucket) \in Nat,
           Kept(bucket, window_start(t)), Kept(bucket, window_start(t) + Window)
    PROVE  AdmittedIn(bucket, t, Window) <= 2 * BucketLimit(bucket)
<1>1. PICK S : S = {h \in admitted : h.bucket = bucket /\ h.at \in t..(t + Window - 1)}
  OBVIOUS
<1>2. PICK S1 : S1 = {h \in S : window_start(h.at) = window_start(t)}
  OBVIOUS
<1>3. PICK S2 : S2 = {h \in S : window_start(h.at) # window_start(t)}
  OBVIOUS
<1>4. PICK w : w = window_start(t) + Window
  OBVIOUS
<1>5. window_start(t) \in Nat /\ w \in Nat /\ window_start(t) <= t /\ t < w
  BY <1>4, WindowsAreApart, WindowAssumption
<1>6. ASSUME NEW h \in S2
      PROVE  window_start(h.at) = w /\ window_start(t) < t
  <2>1. h.at \in Nat /\ t <= h.at /\ h.at < t + Window /\ window_start(h.at) # window_start(t)
    BY <1>1, <1>3, WindowAssumption DEF LimitInv
  <2>2. window_start(h.at) \in Nat /\ window_start(h.at) <= h.at /\ w <= window_start(h.at)
    BY <1>4, <1>5, <2>1, WindowsAreApart
  <2>3. window_start(w) = w
    <3>1. window_start(w) \in Nat /\ window_start(w) <= w /\ w < window_start(w) + Window
          /\ window_start(t) <= window_start(w)
      BY <1>5, WindowsAreApart
    <3>2. window_start(t) < window_start(w)
      BY <1>4, <1>5, <3>1, WindowAssumption
    <3>3. window_start(t) + Window <= window_start(w)
      BY <1>5, <3>2, WindowsAreApart
    <3> QED
      BY <1>4, <1>5, <3>1, <3>3, WindowAssumption
  <2>4. ~(w < window_start(h.at))
    <3> SUFFICES ASSUME w < window_start(h.at) PROVE FALSE
      OBVIOUS
    <3>1. w + Window <= window_start(h.at)
      BY <1>5, <2>1, <2>3, WindowsAreApart
    <3> QED
      BY <1>5, <2>1, <2>2, <3>1, WindowAssumption
  <2> QED
    BY <1>4, <1>5, <2>1, <2>2, <2>4, WindowAssumption
<1>7. S1 \in SUBSET admitted /\ \A h \in S1 : h.bucket = bucket /\ window_start(h.at) = window_start(t)
  BY <1>1, <1>2
<1>8. S2 \in SUBSET admitted /\ \A h \in S2 : h.bucket = bucket /\ window_start(h.at) = w
  BY <1>1, <1>3, <1>6
<1>9. IsFiniteSet(S1) /\ Cardinality(S1) \in Nat /\ Cardinality(S1) <= BucketLimit(bucket)
  BY <1>7, WithinOneWindow
<1>10. IsFiniteSet(S2) /\ Cardinality(S2) \in Nat /\ Cardinality(S2) <= BucketLimit(bucket)
  <2>1. Kept(bucket, w)
    BY <1>4
  <2> QED
    BY <1>8, <2>1, WithinOneWindow
<1>11. S = S1 \cup S2 /\ S1 \cap S2 = {}
  BY <1>2, <1>3
<1>12. Cardinality(S) = Cardinality(S1) + Cardinality(S2)
  BY <1>9, <1>10, <1>11, FS_Union, FS_EmptySet
<1>13. AdmittedIn(bucket, t, Window) = Cardinality(S)
  BY <1>1 DEF AdmittedIn
<1> QED
  BY <1>9, <1>10, <1>12, <1>13

(***************************************************************************)
(* The inductive invariant behind the limit, next to that of the accounts, *)
(* which says whose bucket a request is counted in.                        *)
(***************************************************************************)
THEOREM LimitInvariance == Spec => [](AccountInv /\ LimitInv)
<1> QED
  BY AccountInit, AccountStep, LimitInit, LimitStep, PTL DEF Spec

(***************************************************************************)
(* ratelimit.py: a fixed window, wherever in it the requests arrive, never *)
(* admits more than the limit of one caller unless Redis lost its counter: *)
(* for any window, limits, slots and number of buckets.                    *)
(***************************************************************************)
THEOREM NoWindowOverLimitHolds == Spec => []NoWindowOverLimit
<1>1. LimitInv => NoWindowOverLimit
  <2> SUFFICES ASSUME LimitInv, NEW h \in admitted, Kept(h.bucket, WindowOf(h.at))
               PROVE  AdmittedIn(h.bucket, WindowOf(h.at), Window) <= BucketLimit(h.bucket)
    BY DEF NoWindowOverLimit, Kept
  <2>1. PICK w : w = window_start(h.at)
    OBVIOUS
  <2>2. /\ h.at \in Nat /\ BucketLimit(h.bucket) \in Nat
        /\ w \in Nat /\ WindowOf(h.at) = w
    BY <2>1, WindowsAreApart, LimitsAssumption DEF LimitInv, BucketLimit, WindowOf, window_start
  <2>3. PICK S : S = {g \in admitted : g.bucket = h.bucket /\ g.at \in w..(w + Window - 1)}
    OBVIOUS
  <2>4. window_start(w) = w
    <3>1. /\ window_start(w) <= w /\ w < window_start(w) + Window /\ window_start(w) \in Nat
          /\ w <= h.at /\ h.at < w + Window
          /\ window_start(w) < w => window_start(w) + Window <= w
      BY <2>1, <2>2, WindowsAreApart
    <3> QED
      BY <2>2, <3>1, WindowAssumption
  <2>5. ASSUME NEW g \in S PROVE window_start(g.at) = w
    <3>1. g.at \in Nat /\ w <= g.at /\ g.at < w + Window
      BY <2>2, <2>3, WindowAssumption DEF LimitInv
    <3>2. /\ window_start(g.at) \in Nat /\ window_start(g.at) <= g.at /\ w <= window_start(g.at)
          /\ w < window_start(g.at) => w + Window <= window_start(g.at)
      BY <2>2, <2>4, <3>1, WindowsAreApart
    <3> QED
      BY <2>2, <3>1, <3>2, WindowAssumption
  <2>6. Cardinality(S) <= BucketLimit(h.bucket)
    BY <2>2, <2>3, <2>5, WithinOneWindow
  <2> QED
    BY <2>2, <2>3, <2>6 DEF AdmittedIn
<1> QED
  BY <1>1, LimitInvariance, PTL

(***************************************************************************)
(* ratelimit.py: "a fixed window admits at most 2x the configured rate     *)
(* across a window boundary": any stretch as long as a window, from any    *)
(* tick on, sees two fixed windows at most.                                *)
(***************************************************************************)
THEOREM AtMostTwiceTheLimitHolds == Spec => []AtMostTwiceTheLimit
<1>1. LimitInv => AtMostTwiceTheLimit
  <2> SUFFICES ASSUME LimitInv, NEW h \in admitted, NEW t \in 0..clock,
                      Kept(h.bucket, WindowOf(t)), Kept(h.bucket, WindowOf(t) + Window)
               PROVE  AdmittedIn(h.bucket, t, Window) <= 2 * BucketLimit(h.bucket)
    BY DEF AtMostTwiceTheLimit, Kept
  <2>1. t \in Nat /\ BucketLimit(h.bucket) \in Nat /\ WindowOf(t) = window_start(t)
    BY LimitsAssumption DEF LimitInv, BucketLimit, WindowOf, window_start
  <2> QED
    BY <2>1, TwoWindows
<1> QED
  BY <1>1, LimitInvariance, PTL

=============================================================================
