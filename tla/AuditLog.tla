------------------------------- MODULE AuditLog -------------------------------
(* The events table: transactions of all tenants append to it, each tenant's *)
(* rows form a hash chain of their own, and clients of a tenant follow it by *)
(* polling pages behind a cursor while pages get lost. Somebody with access  *)
(* to the file may alter or remove rows behind the service's back, and, the  *)
(* hash having no key, compute hashes of altered rows as the service does.   *)
(* A table is a set of rows, which their seq puts in order.                  *)
EXTENDS Integers, Sequences, FiniteSets

CONSTANTS
  Tenants,
  Payloads,     \* what an event says, and what it may be altered to say
  Followers,    \* clients that poll /v1/events
  TenantOf,     \* [Followers -> Tenants]
  Limits,       \* page sizes the clients ask for
  PageMax,      \* the service's largest page
  None,
  MaxEvents,    \* bound: no transaction begins behind so many rows
  MaxBatch,     \* bound: events of one transaction
  MaxLost,      \* bound: pages that do not reach their client
  MaxTampering  \* bound: rows altered, removed or sealed again from outside

\* A hash stands for all that it is computed from, the events up to its own.
Entry == [tenant : Tenants, payload : Payloads]
Hash == Seq(Entry)
Genesis == <<>>
Row == [tenant : Tenants, payload : Payloads, previous : Hash, seq : Nat, hash : Hash]
Transaction == [tenant : Tenants, rows : SUBSET Row, last : Nat]
Page == [events : SUBSET Row, next : Nat]

ASSUME ConstantsAssumption ==
  /\ TenantOf \in [Followers -> Tenants]
  /\ Limits \subseteq Int /\ PageMax \in Nat \ {0}
ASSUME NoneAssumption == None \notin Transaction /\ None \notin Page

VARIABLES
  events,     \* committed rows
  sequence,   \* the last number the table has given: AUTOINCREMENT uses none again
  txn,        \* the open write transaction: its tenant, rows and last number
  log,        \* log[t]: the rows committed for t before anybody touched the file
  after,      \* after[f]: the cursor follower f sends
  copy,       \* copy[f]: the rows f has received
  page,       \* page[f]: an answer on its way to f
  lost, tampering

vars == <<events, sequence, txn, log, after, copy, page, lost, tampering>>

-------------------------------------------------------------------------------
(* Appending *)

Digest(e) == Append(e.previous, [tenant |-> e.tenant, payload |-> e.payload])

RowsOf(table, t) == {e \in table : e.tenant = t}
Newest(rows) == CHOOSE e \in rows : \A d \in rows : d.seq <= e.seq
Earlier(rows, e) == {d \in rows : d.seq < e.seq}
NewestHash(rows) == IF rows = {} THEN Genesis ELSE Newest(rows).hash

\* Mutant: the last hash of any tenant.
LastHash_AnyTenant(table, t) == NewestHash(table)
LastHash(table, t) == NewestHash(RowsOf(table, t))

Inserted(table, t, payload, seq) ==
  LET e == [tenant |-> t, payload |-> payload, previous |-> LastHash(table, t)]
  IN  [tenant |-> t, payload |-> payload, previous |-> e.previous,
       seq |-> seq, hash |-> Digest(e)]

\* The rows a transaction sees: what is committed and what it has inserted.
Visible == events \cup txn.rows

\* What only clients and their connections change.
following == <<after, copy, page, lost>>

\* Database.write takes the write lock: there is one transaction at a time.
Begin(t) ==
  /\ txn = None
  /\ Cardinality(events) < MaxEvents
  /\ txn' = [tenant |-> t, rows |-> {}, last |-> sequence]
  /\ UNCHANGED <<events, sequence, log, tampering, following>>

Audit(payload) ==
  /\ txn # None
  /\ Cardinality(txn.rows) < MaxBatch
  /\ LET e == Inserted(Visible, txn.tenant, payload, txn.last + 1)
     IN  txn' = [txn EXCEPT !.rows = @ \cup {e}, !.last = @ + 1]
  /\ UNCHANGED <<events, sequence, log, tampering, following>>

Untouched == tampering = 0

Commit ==
  /\ txn # None
  /\ events' = Visible
  /\ sequence' = txn.last
  /\ log' = IF Untouched THEN [log EXCEPT ![txn.tenant] = @ \cup txn.rows] ELSE log
  /\ txn' = None
  /\ UNCHANGED <<tampering, following>>

\* An exception or a crash before commit: the rows and their numbers are gone.
Rollback ==
  /\ txn # None
  /\ txn' = None
  /\ UNCHANGED <<events, sequence, log, tampering, following>>

\* Mutant: the links are compared, the hashes are not computed again.
CheckAudit_LinksOnly(t) ==
  LET rows == RowsOf(events, t)
  IN  \A e \in rows : e.previous = NewestHash(Earlier(rows, e))

CheckAudit(t) ==
  LET rows == RowsOf(events, t)
  IN  \A e \in rows : e.previous = NewestHash(Earlier(rows, e)) /\ Digest(e) = e.hash

-------------------------------------------------------------------------------
(* Following *)

\* Mutant: the page size is taken as it is asked for.
PageSize_AsAsked(limit) == IF limit < PageMax THEN limit ELSE PageMax
PageSize(limit) == IF limit < 1 THEN 1 ELSE IF limit < PageMax THEN limit ELSE PageMax

FirstOf(rows, n) == {e \in rows : Cardinality(Earlier(rows, e)) < n}

\* Mutant: the cursor stays at the first row of the page.
NextAfter_FirstRow(rows, cursor) ==
  IF rows = {} THEN cursor ELSE (CHOOSE e \in rows : \A d \in rows : e.seq <= d.seq).seq
NextAfter(rows, cursor) == IF rows = {} THEN cursor ELSE Newest(rows).seq

\* GET /v1/events reads one snapshot of the committed rows.
Poll(f, limit) ==
  /\ page[f] = None
  /\ LET rows == {e \in RowsOf(events, TenantOf[f]) : e.seq > after[f]}
         sent == FirstOf(rows, PageSize(limit))
     IN  page' = [page EXCEPT ![f] = [events |-> sent, next |-> NextAfter(sent, after[f])]]
  /\ UNCHANGED <<events, sequence, txn, log, after, copy, lost, tampering>>

\* The client keeps the page and its cursor together.
Receive(f) ==
  /\ page[f] # None
  /\ copy' = [copy EXCEPT ![f] = @ \cup page[f].events]
  /\ after' = [after EXCEPT ![f] = page[f].next]
  /\ page' = [page EXCEPT ![f] = None]
  /\ UNCHANGED <<events, sequence, txn, log, lost, tampering>>

\* The page never arrives: the client polls again behind the same cursor.
Lose(f) ==
  /\ page[f] # None
  /\ lost < MaxLost
  /\ lost' = lost + 1
  /\ page' = [page EXCEPT ![f] = None]
  /\ UNCHANGED <<events, sequence, txn, log, after, copy, tampering>>

-------------------------------------------------------------------------------
(* Access to the file behind the service's back *)

\* One statement at the file, its triggers dropped, makes the table hold these.
Tamper(rows) ==
  /\ txn = None
  /\ rows # events
  /\ tampering < MaxTampering
  /\ tampering' = tampering + 1
  /\ events' = rows
  /\ UNCHANGED <<sequence, txn, log, following>>

Alter(e, payload) == Tamper((events \ {e}) \cup {[e EXCEPT !.payload = payload]})

\* Any row, a tenant's newest too.
Delete(e) == Tamper(events \ {e})

\* A row's link and hash are computed again, as the service would have them of
\* what the table holds now: the digest has no key.
Reseal(e) ==
  LET linked == [e EXCEPT !.previous = NewestHash(Earlier(RowsOf(events, e.tenant), e))]
  IN  Tamper((events \ {e}) \cup {[linked EXCEPT !.hash = Digest(linked)]})

Init ==
  /\ events = {} /\ sequence = 0 /\ txn = None
  /\ log = [t \in Tenants |-> {}]
  /\ after = [f \in Followers |-> 0]
  /\ copy = [f \in Followers |-> {}]
  /\ page = [f \in Followers |-> None]
  /\ lost = 0 /\ tampering = 0

Next ==
  \/ \E t \in Tenants : Begin(t)
  \/ \E payload \in Payloads : Audit(payload)
  \/ Commit \/ Rollback
  \/ \E f \in Followers :
       \/ \E limit \in Limits : Poll(f, limit)
       \/ Receive(f) \/ Lose(f)
  \/ \E e \in events :
       \/ Delete(e) \/ Reseal(e)
       \/ \E payload \in Payloads : Alter(e, payload)

Spec == Init /\ [][Next]_vars

\* A client goes on polling, with whatever page size, and its pages arrive.
Fairness ==
  \A f \in Followers :
    /\ \A limit \in Limits : WF_vars(Poll(f, limit))
    /\ WF_vars(Receive(f))
FairSpec == Spec /\ Fairness

-------------------------------------------------------------------------------
(* What the log guarantees *)

\* While nobody touches the file, every tenant's chain checks, whatever other
\* tenants append between its events and whichever transactions roll back, and
\* the tenant's rows are exactly the events committed for it.
ChainHolds ==
  Untouched => \A t \in Tenants : CheckAudit(t) /\ RowsOf(events, t) = log[t]

Through(rows, e) == {d \in rows : d.seq <= e.seq}

\* What rows say and the links that order it; their numbers are not hashed.
Content(rows) ==
  {[payload |-> e.payload, previous |-> e.previous, hash |-> e.hash] : e \in rows}

\* A chain that checks vouches for all that is before any of its rows whose
\* hash is one the service committed: whoever kept a tenant's newest hash
\* elsewhere (the external retention of docs/operations.md 48) and still finds
\* it knows that no row up to it was altered, removed or sealed again. Without
\* a kept hash a chain that checks shows nothing: a tenant's last rows may be
\* gone, and any suffix may be other rows with hashes computed again.
KeptHashVouches ==
  \A t \in Tenants : CheckAudit(t) =>
    \A d \in log[t], e \in RowsOf(events, t) :
      e.hash = d.hash => Content(Through(RowsOf(events, t), e)) = Content(Through(log[t], d))

\* What a client has is its own tenant's log up to its cursor, and what is on
\* its way is new: no event is missed, repeated, out of order, another tenant's,
\* or rolled back later.
CopyIsPrefix ==
  Untouched =>
    \A f \in Followers :
      /\ copy[f] = {e \in log[TenantOf[f]] : e.seq <= after[f]}
      /\ page[f] # None => page[f].events \cap copy[f] = {}

\* A client that goes on polling, with whatever page size, receives every event
\* of its tenant, unless somebody touches the file.
FollowersCatchUp ==
  \A f \in Followers : \A n \in 1 .. MaxEvents + MaxBatch - 1 :
    (Cardinality(log[TenantOf[f]]) >= n) ~> (Cardinality(copy[f]) >= n \/ ~Untouched)
===============================================================================
