------------------------------- MODULE Tenancy -------------------------------
(***************************************************************************)
(* Whose data is this request about?  Requests resolve their caller to an  *)
(* account (api/deps.py, services/tenancy.py), are counted by the write    *)
(* limiter and write, while demo retention (worker/sweeper.py) deletes     *)
(* idle accounts and an operator issues and revokes keys.                  *)
(*                                                                         *)
(* A request is not one transaction: tenant resolution commits, and the    *)
(* write that follows uses the account id it read.                         *)
(***************************************************************************)
EXTENDS RateLimit

CONSTANTS
    Slot,             \* requests that can be in flight at once
    DemoName,         \* names "demo:<uuid>" of the visitors' sessions
    RealName, Key, Ip,
    AnonLimit,        \* rate_limit_anon_writes_per_min
    KeyedLimit,       \* rate_limit_keyed_writes_per_min
    BatchLimit,       \* accounts one retention pass deletes
    MaxAccounts,      \* bound: accounts ever created
    MaxRequests       \* bound: requests ever sent

ASSUME LimitsAssumption ==
    /\ Ip # {}
    /\ AnonLimit \in Nat /\ KeyedLimit \in Nat /\ BatchLimit \in Nat
    /\ MaxAccounts \in Nat \ {0} /\ MaxRequests \in Nat

Default == "default"
Name == {Default} \cup DemoName \cup RealName

\* The headers that matter: a bearer key, a demo session, a malformed one, none.
Credential ==
    [by : {"key"}, of : Key] \cup [by : {"session"}, of : DemoName]
        \cup {[by |-> "malformed_session", of |-> "x"], [by |-> "nothing", of |-> Default]}

VARIABLES
    accounts,         \* [id, name, kind]
    next_id,
    keys,             \* [key, account, revoked]
    sources,          \* ids of accounts that own a webhook source
    rows,             \* raw rows: [no, account, cred]
    req,              \* per slot: the request in flight, or none
    sent,             \* requests sent so far
    retention         \* the retention pass

accountVars == <<accounts, next_id, keys, sources>>
vars == <<accountVars, rows, req, sent, retention, limitVars>>

NoTenant == [id |-> 0, name |-> Default, kind |-> "none"]
RawRow == [no : 1..MaxRequests, account : 1..MaxAccounts, cred : Credential]
Account == [id : 1..MaxAccounts, name : Name, kind : {"demo", "real"}]
Request == [at : {"none", "resolve", "select", "limit", "handle"},
            op : {"ingest", "source"}, cred : Credential, ip : Ip, no : 0..MaxRequests,
            tenant : Account \cup {NoTenant}, status : {0, 500}, swept : BOOLEAN]
Named(name) == {a \in accounts : a.name = name}
Ids == {a.id : a \in accounts}

NameIsFree_no_index(name) == TRUE    \* defect variant: no unique index on name

\* uq_accounts_name, the index that decides every insert of an account.
NameIsFree(name) == Named(name) = {}

NoRequest == [at |-> "none", op |-> "ingest", cred |-> [by |-> "nothing", of |-> Default],
              ip |-> CHOOSE i \in Ip : TRUE, no |-> 0, tenant |-> NoTenant,
              status |-> 0, swept |-> FALSE]

Resting == [at |-> "wait", doomed |-> {}, account |-> 0, purged |-> {}]

\* The migration leaves one account, the shared demo tenant.
Init ==
    /\ accounts = {[id |-> 1, name |-> Default, kind |-> "demo"]}
    /\ next_id = 2
    /\ keys = {}
    /\ sources = {}
    /\ rows = {}
    /\ req = [p \in Slot |-> NoRequest]
    /\ sent = 0
    /\ retention = Resting
    /\ RateLimitInit

-----------------------------------------------------------------------------
(***************************************************************************)
(* resolve_tenant.                                                         *)
(***************************************************************************)
Send(p, cred, op, ip) ==
    /\ req[p].at = "none"
    /\ sent < MaxRequests
    /\ sent' = sent + 1
    /\ req' = [req EXCEPT ![p] = [NoRequest EXCEPT
                !.at = "resolve", !.op = op, !.cred = cred, !.ip = ip, !.no = sent + 1]]
    /\ UNCHANGED <<accountVars, rows, retention, limitVars>>

\* The request is over.  Only a server error is remembered, for FailsOnlyWhenSwept.
Reply(p, status) ==
    req' = [req EXCEPT ![p] = IF status = 500
                              THEN [NoRequest EXCEPT !.status = 500, !.swept = req[p].swept]
                              ELSE NoRequest]

\* The commit; only ingestion is rate limited.
Admit(p, account) ==
    req' = [req EXCEPT ![p].tenant = account,
                       ![p].at = IF req[p].op = "ingest" THEN "limit" ELSE "handle"]

\* Defect variant: an unresolved key falls through to the shared demo tenant.
resolve_api_key_fallback(key) ==
    LET live == {a \in accounts : \E k \in keys : k.key = key /\ k.account = a.id /\ ~k.revoked}
    IN  IF live = {} THEN Named(Default) ELSE live

\* The account of a live key; none when it is unknown or revoked.
resolve_api_key(key) ==
    {a \in accounts : \E k \in keys : k.key = key /\ k.account = a.id /\ ~k.revoked}

resolve_key(p) ==
    /\ req[p].at = "resolve"
    /\ req[p].cred.by = "key"
    /\ \/ \E a \in resolve_api_key(req[p].cred.of) : Admit(p, a)
       \/ resolve_api_key(req[p].cred.of) = {} /\ Reply(p, 401)
    /\ UNCHANGED <<accountVars, rows, sent, retention, limitVars>>

demo_account_name_rejects(p) ==
    /\ req[p].at = "resolve"
    /\ req[p].cred.by = "malformed_session"
    /\ Reply(p, 400)
    /\ UNCHANGED <<accountVars, rows, sent, retention, limitVars>>

ByName(p) == req[p].at = "resolve" /\ req[p].cred.by \in {"session", "nothing"}

\* INSERT ... ON CONFLICT (name) DO NOTHING.  A rival insert of the same name waits
\* for this transaction, so the new account appears together with the commit.
_upsert_account_inserts(p) ==
    LET account == [id |-> next_id, name |-> req[p].cred.of, kind |-> "demo"] IN
    /\ ByName(p)
    /\ NameIsFree(req[p].cred.of)
    /\ next_id <= MaxAccounts
    /\ accounts' = accounts \cup {account}
    /\ next_id' = next_id + 1
    /\ Admit(p, account)
    /\ UNCHANGED <<keys, sources, rows, sent, retention, limitVars>>

\* Defect variant: a plain INSERT, which raises when the name is taken.
_upsert_account_conflicts_raises(p) ==
    /\ ByName(p)
    /\ Named(req[p].cred.of) # {}
    /\ Reply(p, 500)
    /\ UNCHANGED <<accountVars, rows, sent, retention, limitVars>>

_upsert_account_conflicts(p) ==
    /\ ByName(p)
    /\ Named(req[p].cred.of) # {}
    /\ req' = [req EXCEPT ![p].at = "select"]
    /\ UNCHANGED <<accountVars, rows, sent, retention, limitVars>>

\* The SELECT is a statement of its own, with a later snapshot: .one() raises when
\* retention deleted the account that the INSERT ran into.
_upsert_account_selects(p) ==
    /\ req[p].at = "select"
    /\ \/ \E a \in Named(req[p].cred.of) : Admit(p, a)
       \/ Named(req[p].cred.of) = {} /\ Reply(p, 500)
    /\ UNCHANGED <<accountVars, rows, sent, retention, limitVars>>

-----------------------------------------------------------------------------
(***************************************************************************)
(* enforce_write_limit, then the handler.                                  *)
(***************************************************************************)
IpBucket(ip) == <<"ip", ip>>
AccountBucket(id) == <<"account", id>>

Bucket(r) == IF r.tenant.kind = "demo" THEN IpBucket(r.ip) ELSE AccountBucket(r.tenant.id)
Limit(r)  == IF r.tenant.kind = "demo" THEN AnonLimit ELSE KeyedLimit

enforce_write_limit(p) ==
    LET r == req[p] IN
    /\ r.at = "limit"
    /\ \/ /\ check_refused(Bucket(r), Limit(r))
          /\ Reply(p, 429)
       \/ /\ \/ check_allowed(Bucket(r), Limit(r))
             \/ check_unavailable(Bucket(r))
          /\ req' = [req EXCEPT ![p].at = "handle"]
    /\ UNCHANGED <<accountVars, rows, sent, retention>>

\* No Idempotency-Key, or a body that does not validate.
Unprocessable(p) ==
    /\ req[p].at = "handle"
    /\ Reply(p, 422)
    /\ UNCHANGED <<accountVars, rows, sent, retention, limitVars>>

\* gateway_webhook and ledger_sync: the insert references the account.
ingest(p) ==
    LET r == req[p] IN
    /\ r.at = "handle"
    /\ r.op = "ingest"
    /\ \/ /\ r.tenant.id \in Ids
          /\ rows' = rows \cup {[no |-> r.no, account |-> r.tenant.id, cred |-> r.cred]}
          /\ Reply(p, 202)
       \/ /\ r.tenant.id \notin Ids
          /\ Reply(p, 500)
          /\ UNCHANGED rows
    /\ UNCHANGED <<accountVars, sent, retention, limitVars>>

create_gateway_source(p) ==
    LET r == req[p] IN
    /\ r.at = "handle"
    /\ r.op = "source"
    /\ \/ /\ r.tenant.kind = "demo"
          /\ Reply(p, 403)
          /\ UNCHANGED sources
       \/ /\ r.tenant.kind = "real" /\ r.tenant.id \in Ids
          /\ sources' = sources \cup {r.tenant.id}
          /\ Reply(p, 201)
    /\ UNCHANGED <<accounts, next_id, keys, rows, sent, retention, limitVars>>

-----------------------------------------------------------------------------
(***************************************************************************)
(* The operator: scripts/create_api_key.py, scripts/create_webhook_source  *)
(* and revocation, which sets revoked_at by hand.                          *)
(***************************************************************************)
Reusable_any_kind(name) == Named(name)    \* defect variant: kind is not checked

\* The accounts issue_api_key may reuse: a demo account of that name is refused.
Reusable(name) == {a \in Named(name) : a.kind = "real"}

issue_api_key(name, key) ==
    /\ \A k \in keys : k.key # key
    /\ \/ \E a \in Reusable(name) :
          /\ keys' = keys \cup {[key |-> key, account |-> a.id, revoked |-> FALSE]}
          /\ UNCHANGED <<accounts, next_id>>
       \/ /\ NameIsFree(name)
          /\ next_id <= MaxAccounts
          /\ accounts' = accounts \cup {[id |-> next_id, name |-> name, kind |-> "real"]}
          /\ next_id' = next_id + 1
          /\ keys' = keys \cup {[key |-> key, account |-> next_id, revoked |-> FALSE]}
    /\ UNCHANGED <<sources, rows, req, sent, retention, limitVars>>

register(name) ==
    /\ \E a \in Named(name) : a.kind = "real" /\ sources' = sources \cup {a.id}
    /\ UNCHANGED <<accounts, next_id, keys, rows, req, sent, retention, limitVars>>

Revoke(k) ==
    /\ k \in keys /\ ~k.revoked
    /\ keys' = (keys \ {k}) \cup {[k EXCEPT !.revoked = TRUE]}
    /\ UNCHANGED <<accounts, next_id, sources, rows, req, sent, retention, limitVars>>

-----------------------------------------------------------------------------
(***************************************************************************)
(* sweep_demo_accounts: one scan, then one transaction per account, whose  *)
(* deletes are separate statements.                                        *)
(***************************************************************************)
\* Defect variant: no filter on kind.
MayBeStale_any_kind == Ids

\* The accounts retention may find past its cutoff.  last_seen_at is left out: a visit
\* moves it, but time passes at any point, so every demo account may be stale, or not.
MayBeStale == {a.id : a \in {b \in accounts : b.kind = "demo"}}

Scan ==
    /\ retention.at = "wait"
    /\ \E D \in SUBSET MayBeStale :
        /\ Cardinality(D) \in 1..BatchLimit
        /\ retention' = [Resting EXCEPT !.at = "next", !.doomed = D]
    /\ UNCHANGED <<accountVars, rows, req, sent, limitVars>>

OwnedBy(id) == {r \in rows : r.account = id}

\* The deletes of the owned rows: those that are there when the statement runs.
Purge(id) ==
    /\ retention.at = "next"
    /\ id \in retention.doomed
    /\ retention' = [retention EXCEPT !.at = "purged", !.account = id, !.purged = OwnedBy(id)]
    /\ UNCHANGED <<accountVars, rows, req, sent, limitVars>>

\* DELETE FROM accounts and the commit; the account's keys and sources cascade.
DeleteAccount ==
    LET id   == retention.account
        left == retention.doomed \ {id}
        lost == {a.name : a \in {b \in accounts : b.id = id}}
    IN
    /\ retention.at = "purged"
    /\ OwnedBy(id) \subseteq retention.purged
    /\ rows' = rows \ OwnedBy(id)
    /\ accounts' = {a \in accounts : a.id # id}
    /\ keys' = {k \in keys : k.account # id}
    /\ sources' = sources \ {id}
    /\ req' = [p \in Slot |-> [req[p] EXCEPT
                !.swept = @ \/ (req[p].at # "none" /\ req[p].cred.of \in lost)]]
    /\ retention' = IF left = {} THEN Resting ELSE [Resting EXCEPT !.at = "next", !.doomed = left]
    /\ UNCHANGED <<next_id, sent, limitVars>>

\* Defect variant: the deletes commit one by one, and only the last one fails.
DeleteAccount_fails_halfway ==
    /\ retention.at = "purged"
    /\ ~(OwnedBy(retention.account) \subseteq retention.purged)
    /\ rows' = rows \ retention.purged
    /\ retention' = Resting
    /\ UNCHANGED <<accountVars, req, sent, limitVars>>

\* A row arrived since: the foreign key refuses the delete, the transaction rolls
\* back, and the exception ends the pass.
DeleteAccount_fails ==
    /\ retention.at = "purged"
    /\ ~(OwnedBy(retention.account) \subseteq retention.purged)
    /\ retention' = Resting
    /\ UNCHANGED <<accountVars, rows, req, sent, limitVars>>

\* A crash or a lost connection: the open transaction leaves nothing.
RetentionCrash ==
    /\ retention # Resting
    /\ retention' = Resting
    /\ UNCHANGED <<accountVars, rows, req, sent, limitVars>>

-----------------------------------------------------------------------------
Resolve(p) ==
    \/ resolve_key(p)
    \/ demo_account_name_rejects(p)
    \/ _upsert_account_inserts(p)
    \/ _upsert_account_conflicts(p)
    \/ _upsert_account_selects(p)

Handle(p) ==
    \/ enforce_write_limit(p)
    \/ Unprocessable(p)
    \/ ingest(p)
    \/ create_gateway_source(p)

Operator ==
    \/ \E name \in Name, key \in Key : issue_api_key(name, key)
    \/ \E name \in Name : register(name)
    \/ \E k \in keys : Revoke(k)

Retention ==
    \/ Scan
    \/ \E id \in retention.doomed : Purge(id)
    \/ DeleteAccount
    \/ DeleteAccount_fails
    \/ RetentionCrash

\* Only a request about to be counted reads the clock and the counters, so they
\* change only then.
LimiterMoves ==
    /\ \E p \in Slot : req[p].at = "limit"
    /\ Tick \/ LoseCounters
    /\ UNCHANGED <<accountVars, rows, req, sent, retention>>

Next ==
    \/ \E p \in Slot, cred \in Credential, op \in {"ingest", "source"}, ip \in Ip :
            Send(p, cred, op, ip)
    \/ \E p \in Slot : Resolve(p) \/ Handle(p)
    \/ Operator
    \/ Retention
    \/ LimiterMoves

Spec == Init /\ [][Next]_vars

-----------------------------------------------------------------------------
(***************************************************************************)
(* Type invariant; names and ids identify accounts (uq_accounts_name).     *)
(***************************************************************************)
TypeOK ==
    /\ accounts \subseteq Account
    /\ \A a, b \in accounts : a.name = b.name \/ a.id = b.id => a = b
    /\ next_id \in 2..(MaxAccounts + 1)
    /\ \A a \in accounts : a.id < next_id
    /\ keys \subseteq [key : Key, account : 1..MaxAccounts, revoked : BOOLEAN]
    /\ \A k, l \in keys : k.key = l.key => k = l
    /\ sources \subseteq 1..MaxAccounts
    /\ rows \subseteq RawRow
    /\ req \in [Slot -> Request]
    /\ sent \in 0..MaxRequests
    /\ retention \in [at : {"wait", "next", "purged"}, doomed : SUBSET (1..MaxAccounts),
                       account : 0..MaxAccounts, purged : SUBSET RawRow]
    /\ clock \in Nat

(***************************************************************************)
(* Every stored row belongs to an existing account, the one its sender     *)
(* named: the account of the key, or the account of the session's name.    *)
(* The account may be deleted, and created again under the same name,      *)
(* between tenant resolution and the insert.                               *)
(***************************************************************************)
WritesReachTheirAccount ==
    \A r \in rows : \E a \in accounts :
        /\ a.id = r.account
        /\ IF r.cred.by = "key"
           THEN \E k \in keys : k.key = r.cred.of /\ k.account = a.id
           ELSE a.name = r.cred.of

(***************************************************************************)
(* Keys and webhook sources hang off existing real accounts only, whatever *)
(* the order of first visits, issued keys and retention passes: a demo     *)
(* account would take the credential with it when it expires.              *)
(***************************************************************************)
CredentialsOnRealAccounts ==
    \A id \in sources \cup {k.account : k \in keys} :
        \E a \in accounts : a.id = id /\ a.kind = "real"

(***************************************************************************)
(* Retention never deletes a real account, although it deletes by an id it *)
(* read earlier and never looks at the account again.                      *)
(***************************************************************************)
RealAccountsStay == [][\A a \in accounts \ accounts' : a.kind = "demo"]_vars

(***************************************************************************)
(* An accepted row disappears only together with its account: a retention  *)
(* transaction that loses to an insert takes nothing.                      *)
(***************************************************************************)
RowsLeaveWithTheirAccount == [][\A r \in rows \ rows' : r.account \notin {a.id : a \in accounts'}]_vars

(***************************************************************************)
(* A request fails with a 500 only when retention deleted the account of   *)
(* its own name while it was in flight; rival first requests never do.     *)
(***************************************************************************)
FailsOnlyWhenSwept == \A p \in Slot : req[p].status = 500 => req[p].swept

\* The tick at which the fixed window of tick t begins.
WindowOf(t) == t - (t % Window)

BucketLimit(bucket) == IF bucket[1] = "ip" THEN AnonLimit ELSE KeyedLimit

(***************************************************************************)
(* ratelimit.py: no fixed window admits more of a caller's requests than   *)
(* the limit, of those Redis counted, whichever slots they arrive on and   *)
(* wherever in the window, unless Redis lost that window's counter.        *)
(***************************************************************************)
NoWindowOverLimit ==
    \A h \in admitted :
        \/ <<h.bucket, WindowOf(h.at)>> \in dropped
        \/ AdmittedIn(h.bucket, WindowOf(h.at), Window) <= BucketLimit(h.bucket)

(***************************************************************************)
(* ratelimit.py: "a fixed window admits at most 2x the configured rate     *)
(* across a window boundary": any Window ticks from tick t on see two      *)
(* windows at most, if Redis kept the counters of both.                    *)
(***************************************************************************)
AtMostTwiceTheLimit ==
    \A h \in admitted, t \in 0..clock :
        \/ <<h.bucket, WindowOf(t)>> \in dropped
        \/ <<h.bucket, WindowOf(t) + Window>> \in dropped
        \/ AdmittedIn(h.bucket, t, Window) <= 2 * BucketLimit(h.bucket)
=============================================================================
