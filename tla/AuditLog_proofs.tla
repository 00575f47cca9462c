---------------------------- MODULE AuditLog_proofs ----------------------------
(***************************************************************************)
(* What holds of AuditLog for any tenants, payloads, followers and bounds. *)
(***************************************************************************)
EXTENDS AuditLog, FiniteSetTheorems, SequenceTheorems, WellFoundedInduction, TLAPS

-------------------------------------------------------------------------------
(* Numbers *)

LEMMA LeastNatural ==
  ASSUME NEW S \in SUBSET Nat, S # {}
  PROVE  \E m \in S : \A k \in S : m <= k
<1> DEFINE R == {ss \in Nat \X Nat : ss[1] < ss[2]}
<1>1. IsWellFoundedOn(R, Nat)
  BY NatLessThanWellFounded DEF OpToRel
<1> HIDE DEF R
<1>2. PICK m \in S : \A k \in S : ~ (<<k, m>> \in R)
  BY <1>1, WFMin
<1>3. \A k \in S : ~ (k < m)
  BY <1>2 DEF R
<1> QED
  BY <1>3

LEMMA GreatestNatural ==
  ASSUME NEW S \in SUBSET Nat, S # {}, NEW b \in Nat, \A k \in S : k <= b
  PROVE  \E m \in S : \A k \in S : k <= m
<1> DEFINE T == {b - k : k \in S}
<1>1. T \in SUBSET Nat /\ T # {}
  <2>1. \A k \in S : b - k \in Nat
    OBVIOUS
  <2>2. PICK k \in S : TRUE
    OBVIOUS
  <2>3. b - k \in T
    BY <2>2
  <2> QED
    BY <2>1, <2>3
<1>2. PICK n \in T : \A k \in T : n <= k
  BY <1>1, LeastNatural
<1>3. PICK m \in S : n = b - m
  BY <1>2
<1>4. \A k \in S : b - m <= b - k
  BY <1>2, <1>3
<1> QED
  BY <1>4

-------------------------------------------------------------------------------
(* Rows and hashes *)

LEMMA RowFields ==
  ASSUME NEW e \in Row
  PROVE  /\ e.tenant \in Tenants /\ e.payload \in Payloads /\ e.previous \in Hash
         /\ e.seq \in Nat /\ e.hash \in Hash
BY DEF Row

LEMMA SameRow ==
  ASSUME NEW d \in Row, NEW e \in Row, d.tenant = e.tenant, d.payload = e.payload,
         d.previous = e.previous, d.seq = e.seq, d.hash = e.hash
  PROVE  d = e
BY DEF Row

LEMMA AppendLonger ==
  ASSUME NEW T, NEW q \in Seq(T), NEW x \in T
  PROVE  /\ Append(q, x) \in Seq(T) /\ Len(q) \in Nat
         /\ Len(Append(q, x)) = Len(q) + 1
         /\ Append(q, x)[Len(q) + 1] = x
OBVIOUS

\* A hash is longer than the one it follows, and tells its payload.
LEMMA DigestOf ==
  ASSUME NEW e, e.tenant \in Tenants, e.payload \in Payloads, e.previous \in Hash
  PROVE  /\ Digest(e) \in Hash
         /\ Len(e.previous) \in Nat /\ Len(Digest(e)) = Len(e.previous) + 1
         /\ Digest(e)[Len(e.previous) + 1] = [tenant |-> e.tenant, payload |-> e.payload]
<1>1. [tenant |-> e.tenant, payload |-> e.payload] \in Entry
  BY DEF Entry
<1>2. Digest(e) = Append(e.previous, [tenant |-> e.tenant, payload |-> e.payload])
  BY DEF Digest
<1> QED
  BY <1>1, <1>2, AppendLonger DEF Hash

\* One hash, one event and one hash before it.
LEMMA DigestTells ==
  ASSUME NEW d \in Row, NEW e \in Row, Digest(d) = Digest(e)
  PROVE  d.payload = e.payload /\ d.previous = e.previous
<1> DEFINE x == [tenant |-> d.tenant, payload |-> d.payload]
           y == [tenant |-> e.tenant, payload |-> e.payload]
<1>1. x \in Entry /\ y \in Entry /\ d.previous \in Seq(Entry) /\ e.previous \in Seq(Entry)
  BY RowFields DEF Entry, Hash
<1>2. Append(d.previous, x) = Append(e.previous, y)
  BY DEF Digest
<1>3. x.payload = d.payload /\ y.payload = e.payload
  OBVIOUS
<1> HIDE DEF x, y
<1>4. x = y /\ d.previous = e.previous
  <2>1. ASSUME NEW q \in Seq(Entry), NEW s \in Seq(Entry), Append(q, x) = Append(s, y)
        PROVE  x = y /\ q = s
    BY <1>1, <2>1, AppendInjective
  <2> QED
    BY <1>1, <1>2, <2>1
<1> QED
  BY <1>3, <1>4

-------------------------------------------------------------------------------
(* The newest of a set of rows *)

Newer(rows, n) == n \in rows /\ \A d \in rows : d.seq <= n.seq

\* h is the hash an event after all of rows has to name.
IsHashOf(rows, h) ==
  IF rows = {} THEN h = Genesis ELSE \E n \in rows : Newer(rows, n) /\ h = n.hash

LEMMA HasNewest ==
  ASSUME NEW rows \in SUBSET Row, rows # {}, NEW b \in Nat, \A e \in rows : e.seq <= b
  PROVE  \E n \in rows : Newer(rows, n)
<1> DEFINE S == {e.seq : e \in rows}
<1>1. S \in SUBSET Nat /\ S # {} /\ \A k \in S : k <= b
  BY RowFields
<1>2. PICK m \in S : \A k \in S : k <= m
  BY <1>1, GreatestNatural
<1>3. PICK n \in rows : n.seq = m
  BY <1>2
<1> QED
  BY <1>2, <1>3 DEF Newer

LEMMA NewestIs ==
  ASSUME NEW rows, NEW n \in rows, Newer(rows, n)
  PROVE  Newest(rows) \in rows /\ Newer(rows, Newest(rows))
BY DEF Newer, Newest

\* Rows of one number have one hash.
OneHash(rows) == \A d, e \in rows : d.seq = e.seq => d.hash = e.hash

LEMMA NewestHashIs ==
  ASSUME NEW rows \in SUBSET Row, NEW b \in Nat, \A e \in rows : e.seq <= b
  PROVE  /\ IsHashOf(rows, NewestHash(rows))
         /\ OneHash(rows) => \A h : IsHashOf(rows, h) => h = NewestHash(rows)
<1>1. CASE rows = {}
  BY <1>1 DEF IsHashOf, NewestHash
<1>2. CASE rows # {}
  <2>1. Newest(rows) \in rows /\ Newer(rows, Newest(rows))
    BY <1>2, HasNewest, NewestIs
  <2>2. NewestHash(rows) = Newest(rows).hash
    BY <1>2 DEF NewestHash
  <2>3. ASSUME OneHash(rows), NEW h, IsHashOf(rows, h)
        PROVE  h = NewestHash(rows)
    <3>1. PICK n \in rows : Newer(rows, n) /\ h = n.hash
      BY <1>2, <2>3 DEF IsHashOf
    <3>2. n.seq = Newest(rows).seq
      BY <2>1, <3>1, RowFields DEF Newer
    <3> QED
      BY <2>1, <2>2, <2>3, <3>1, <3>2 DEF OneHash
  <2> QED
    BY <1>2, <2>1, <2>2, <2>3 DEF IsHashOf
<1> QED
  BY <1>1, <1>2

-------------------------------------------------------------------------------
(* The chains *)

Topped(rows) == \E b \in Nat : \A e \in rows : e.seq <= b

\* The rows are a chain of t: each is sealed, and names the one before it.
Recorded(rows, t) ==
  /\ rows \in SUBSET Row /\ Topped(rows)
  /\ \A e \in rows : /\ e.tenant = t
                     /\ e.hash = Digest(e)
                     /\ IsHashOf(Earlier(rows, e), e.previous)
  /\ \A d, e \in rows : d.seq = e.seq => d = e

Logged(rows) ==
  /\ rows \in [Tenants -> SUBSET Row]
  /\ \A t \in Tenants : Recorded(rows[t], t)

\* A table, whoever wrote to it, that has given the numbers up to last.
Good(table, last) ==
  /\ table \in SUBSET Row /\ IsFiniteSet(table)
  /\ \A e \in table : 0 < e.seq /\ e.seq <= last
  /\ \A d, e \in table : d.seq = e.seq => d = e

Same(table, rows) == \A t \in Tenants : RowsOf(table, t) = rows[t]

\* The log as it will be when the transaction commits.
Extended(rows, t, new) == [rows EXCEPT ![t] = @ \cup new]

(* The followers *)

Reached(table, n) == n = 0 \/ \E e \in table : n <= e.seq

Between(rows, low, high) == {e \in rows : low < e.seq /\ e.seq <= high}
UpTo(rows, high) == {e \in rows : e.seq <= high}

Followed(f) ==
  /\ copy[f] = UpTo(log[TenantOf[f]], after[f])
  /\ Reached(events, after[f])
  /\ page[f] # None =>
       /\ after[f] <= page[f].next
       /\ page[f].events = Between(log[TenantOf[f]], after[f], page[f].next)
       /\ Reached(events, page[f].next)

Typed ==
  /\ txn \in {None} \cup Transaction /\ sequence \in Nat
  /\ after \in [Followers -> Nat]
  /\ copy \in [Followers -> SUBSET Row]
  /\ page \in [Followers -> {None} \cup Page]
  /\ lost \in Nat /\ tampering \in Nat

Later(table, new) == \A d \in table, e \in new : d.seq < e.seq

InTransaction ==
  /\ IsFiniteSet(txn.rows) /\ sequence <= txn.last
  /\ Good(Visible, txn.last)
  /\ \A e \in txn.rows : e.tenant = txn.tenant /\ sequence < e.seq
  /\ Untouched => /\ Logged(Extended(log, txn.tenant, txn.rows))
                  /\ Same(Visible, Extended(log, txn.tenant, txn.rows))

-------------------------------------------------------------------------------
(* Inserting a row *)

LEMMA GoodTops ==
  ASSUME NEW table, NEW last \in Nat, Good(table, last)
  PROVE  Topped(table)
BY DEF Good, Topped

LEMMA HashOfTyped ==
  ASSUME NEW rows \in SUBSET Row, NEW h, IsHashOf(rows, h)
  PROVE  h \in Hash
<1>1. CASE rows = {}
  BY <1>1 DEF IsHashOf, Genesis, Hash
<1>2. CASE rows # {}
  <2>1. PICK n \in rows : h = n.hash
    BY <1>2 DEF IsHashOf
  <2>2. n \in Row
    OBVIOUS
  <2> QED
    BY <2>1, <2>2, RowFields
<1> QED
  BY <1>1, <1>2

LEMMA LastHashIs ==
  ASSUME NEW t, NEW table, NEW last \in Nat, Good(table, last)
  PROVE  /\ IsHashOf(RowsOf(table, t), LastHash(table, t))
         /\ LastHash(table, t) \in Hash
<1> DEFINE rows == RowsOf(table, t)
<1>1. rows \in SUBSET Row /\ \A e \in rows : e.seq <= last
  BY DEF RowsOf, Good
<1>2. IsHashOf(rows, LastHash(table, t))
  BY <1>1, NewestHashIs DEF LastHash
<1>3. LastHash(table, t) \in Hash
  BY <1>1, <1>2, HashOfTyped
<1> QED
  BY <1>2, <1>3

LEMMA InsertedIs ==
  ASSUME NEW t \in Tenants, NEW payload \in Payloads, NEW table,
         NEW last \in Nat, Good(table, last),
         NEW r, r = Inserted(table, t, payload, last + 1)
  PROVE  /\ r \in Row /\ r.tenant = t /\ r.seq = last + 1 /\ r.hash = Digest(r)
         /\ IsHashOf(RowsOf(table, t), r.previous)
<1> DEFINE h == LastHash(table, t)
           e == [tenant |-> t, payload |-> payload, previous |-> h]
<1>1. h \in Hash /\ IsHashOf(RowsOf(table, t), h)
  BY LastHashIs
<1> HIDE DEF h
<1>3. r = [tenant |-> t, payload |-> payload, previous |-> h,
           seq |-> last + 1, hash |-> Digest(e)]
  BY DEF Inserted, h
<1>4. Digest(r) = Digest(e)
  BY <1>3 DEF Digest
<1>5. r.tenant = t /\ r.seq = last + 1 /\ r.payload = payload /\ r.previous = h
      /\ r.hash = Digest(r)
  BY <1>3, <1>4
<1>6. Digest(r) \in Hash
  BY <1>1, <1>5, DigestOf
<1>7. r \in Row
  BY <1>1, <1>3, <1>4, <1>6 DEF Row
<1> QED
  BY <1>1, <1>5, <1>7

LEMMA EarlierThanNew ==
  ASSUME NEW rows \in SUBSET Row, NEW r \in Row, \A e \in rows : e.seq < r.seq
  PROVE  /\ Earlier(rows \cup {r}, r) = rows
         /\ \A e \in rows : Earlier(rows \cup {r}, e) = Earlier(rows, e)
         /\ \A e \in rows : e.seq # r.seq /\ ~ (r.seq < e.seq)
<1>1. r.seq \in Nat /\ \A e \in rows : e.seq \in Nat
  BY RowFields
<1> QED
  BY <1>1 DEF Earlier

\* Every chain grows by a row that names its newest.
LEMMA RecordedGrows ==
  ASSUME NEW t, NEW rows, Recorded(rows, t),
         NEW r \in Row, r.tenant = t, r.hash = Digest(r),
         \A e \in rows : e.seq < r.seq, IsHashOf(rows, r.previous)
  PROVE  Recorded(rows \cup {r}, t)
<1> DEFINE more == rows \cup {r}
<1>1. rows \in SUBSET Row /\ more \in SUBSET Row
  BY DEF Recorded
<1>2. r.seq \in Nat /\ \A e \in rows : e.seq \in Nat
  BY <1>1, RowFields
<1>3. Topped(more)
  BY <1>2 DEF Topped
<1>4. /\ Earlier(more, r) = rows
      /\ \A e \in rows : Earlier(more, e) = Earlier(rows, e)
      /\ \A e \in rows : e.seq # r.seq /\ ~ (r.seq < e.seq)
  BY <1>1, EarlierThanNew
<1>5. ASSUME NEW e \in more
      PROVE  e.tenant = t /\ e.hash = Digest(e) /\ IsHashOf(Earlier(more, e), e.previous)
  <2>1. CASE e = r
    BY <1>4, <2>1
  <2>2. CASE e \in rows
    BY <1>4, <2>2 DEF Recorded
  <2> QED
    BY <2>1, <2>2
<1>6. ASSUME NEW d \in more, NEW e \in more, d.seq = e.seq
      PROVE  d = e
  BY <1>4, <1>6 DEF Recorded
<1> QED
  BY <1>1, <1>3, <1>5, <1>6 DEF Recorded

LEMMA InsertKeepsGood ==
  ASSUME NEW table, NEW last \in Nat, Good(table, last),
         NEW t \in Tenants, NEW payload \in Payloads,
         NEW r, r = Inserted(table, t, payload, last + 1)
  PROVE  /\ r \in Row /\ r.tenant = t /\ r.seq = last + 1
         /\ Good(table \cup {r}, last + 1)
<1>1. r \in Row /\ r.tenant = t /\ r.seq = last + 1
  BY InsertedIs
<1>2. table \in SUBSET Row /\ IsFiniteSet(table) /\ \A e \in table : e.seq \in Nat
  BY RowFields DEF Good
<1>3. IsFiniteSet(table \cup {r})
  BY <1>2, FS_AddElement
<1> QED
  BY <1>1, <1>2, <1>3 DEF Good

\* While the table is the log, the log with the row inserted is chains again.
LEMMA InsertKeepsLogged ==
  ASSUME NEW table, NEW last \in Nat, Good(table, last),
         NEW t \in Tenants, NEW payload \in Payloads,
         NEW r, r = Inserted(table, t, payload, last + 1),
         NEW rows, Logged(rows), Same(table, rows)
  PROVE  /\ Logged([rows EXCEPT ![t] = @ \cup {r}])
         /\ Same(table \cup {r}, [rows EXCEPT ![t] = @ \cup {r}])
<1> DEFINE more == [rows EXCEPT ![t] = @ \cup {r}]
<1>1. /\ r \in Row /\ r.tenant = t /\ r.seq = last + 1 /\ r.hash = Digest(r)
      /\ IsHashOf(rows[t], r.previous)
  BY InsertedIs DEF Same
<1>2. rows \in [Tenants -> SUBSET Row] /\ Recorded(rows[t], t)
  BY DEF Logged
<1>3. \A e \in rows[t] : e \in table
  BY DEF Same, RowsOf
<1>4. \A e \in rows[t] : e.seq < r.seq
  BY <1>1, <1>3, RowFields DEF Good
<1>5. Recorded(rows[t] \cup {r}, t)
  BY <1>1, <1>2, <1>4, RecordedGrows
<1>6. more \in [Tenants -> SUBSET Row] /\ more[t] = rows[t] \cup {r}
      /\ \A u \in Tenants \ {t} : more[u] = rows[u]
  BY <1>1, <1>2
<1> HIDE DEF more
<1>7. Logged(more)
  BY <1>5, <1>6 DEF Logged
<1>8. Same(table \cup {r}, more)
  BY <1>1, <1>6 DEF Same, RowsOf
<1> QED
  BY <1>7, <1>8 DEF more

-------------------------------------------------------------------------------
(* The chains are never lost *)

LEMMA TransactionFields ==
  ASSUME Typed, txn # None
  PROVE  txn \in Transaction /\ txn.tenant \in Tenants /\ txn.rows \in SUBSET Row
BY DEF Typed, Transaction

\* The parts of the invariant that the followers do not touch.
LogInv ==
  /\ sequence \in Nat /\ tampering \in Nat
  /\ Good(events, sequence)
  /\ Logged(log)
  /\ Untouched => Same(events, log)
  /\ txn # None => txn.last \in Nat /\ InTransaction

LEMMA LogInvInit == Init => LogInv
<1> SUFFICES ASSUME Init
             PROVE  LogInv
  OBVIOUS
<1>1. /\ events = {} /\ sequence = 0 /\ txn = None /\ tampering = 0
      /\ log = [t \in Tenants |-> {}]
  BY DEF Init
<1>2. \A t \in Tenants : log[t] = {} /\ RowsOf(events, t) = {}
  BY <1>1 DEF RowsOf
<1>3. Topped({})
  BY DEF Topped
<1>4. \A t \in Tenants : Recorded({}, t)
  BY <1>3 DEF Recorded
<1>5. Good(events, sequence)
  BY <1>1, FS_EmptySet DEF Good
<1>6. Logged(log)
  BY <1>1, <1>2, <1>4 DEF Logged
<1> QED
  BY <1>1, <1>2, <1>5, <1>6 DEF LogInv, Same

LEMMA LogInvBegin ==
  ASSUME LogInv, NEW t \in Tenants, Begin(t)
  PROVE  LogInv'
<1>1. /\ events' = events /\ sequence' = sequence /\ log' = log /\ tampering' = tampering
      /\ txn' = [tenant |-> t, rows |-> {}, last |-> sequence]
  BY DEF Begin
<1>2. txn'.tenant = t /\ txn'.rows = {} /\ txn'.last = sequence
  BY <1>1
<1>3. Visible' = events
  BY <1>1, <1>2 DEF Visible
<1>4. Extended(log', txn'.tenant, txn'.rows) = log
  BY <1>1, <1>2 DEF Extended, LogInv, Logged
<1>5. IsFiniteSet(txn'.rows) /\ sequence' <= txn'.last /\ txn'.last \in Nat
  BY <1>1, <1>2, FS_EmptySet DEF LogInv
<1>6. InTransaction'
  BY <1>1, <1>2, <1>3, <1>4, <1>5 DEF InTransaction, LogInv, Untouched
<1> QED
  BY <1>1, <1>5, <1>6 DEF LogInv, Untouched

LEMMA LogInvAudit ==
  ASSUME Typed, LogInv, NEW payload \in Payloads, Audit(payload)
  PROVE  LogInv'
<1> DEFINE t == txn.tenant
           r == Inserted(Visible, t, payload, txn.last + 1)
           extended == Extended(log, t, txn.rows)
<1>1. /\ events' = events /\ sequence' = sequence /\ log' = log /\ tampering' = tampering
      /\ txn # None /\ txn' = [txn EXCEPT !.rows = @ \cup {r}, !.last = @ + 1]
  BY DEF Audit
<1>2. txn \in Transaction /\ t \in Tenants /\ txn.rows \in SUBSET Row
  BY <1>1, TransactionFields
<1>3. InTransaction /\ txn.last \in Nat /\ sequence \in Nat
  BY <1>1 DEF LogInv
<1>4. txn'.tenant = t /\ txn'.rows = txn.rows \cup {r} /\ txn'.last = txn.last + 1
  <2> HIDE DEF r
  <2> QED
    BY <1>1, <1>2 DEF Transaction
<1>5. r \in Row /\ r.tenant = t /\ r.seq = txn.last + 1 /\ Good(Visible \cup {r}, txn.last + 1)
  BY <1>2, <1>3, InsertKeepsGood DEF InTransaction
<1>6. ASSUME Untouched
      PROVE  /\ Logged([extended EXCEPT ![t] = @ \cup {r}])
             /\ Same(Visible \cup {r}, [extended EXCEPT ![t] = @ \cup {r}])
  <2>1. Good(Visible, txn.last) /\ Logged(extended) /\ Same(Visible, extended)
    BY <1>3, <1>6 DEF InTransaction
  <2> HIDE DEF extended
  <2> QED
    BY <1>2, <1>3, <2>1, InsertKeepsLogged
<1> HIDE DEF r
<1>7. Visible' = Visible \cup {r}
  BY <1>1, <1>4 DEF Visible
<1>8. Extended(log', txn'.tenant, txn'.rows) = [extended EXCEPT ![t] = @ \cup {r}]
  BY <1>1, <1>2, <1>4 DEF Extended, LogInv, Logged
<1>9. IsFiniteSet(txn'.rows) /\ sequence' <= txn'.last /\ txn'.last \in Nat
  BY <1>1, <1>3, <1>4, FS_AddElement DEF InTransaction
<1>10. \A e \in txn'.rows : e.tenant = txn'.tenant /\ sequence' < e.seq
  BY <1>1, <1>3, <1>4, <1>5 DEF InTransaction
<1>11. Untouched' => /\ Logged(Extended(log', txn'.tenant, txn'.rows))
                     /\ Same(Visible', Extended(log', txn'.tenant, txn'.rows))
  BY <1>1, <1>6, <1>7, <1>8 DEF Untouched
<1>12. Good(Visible', txn'.last)
  BY <1>4, <1>5, <1>7
<1>13. InTransaction'
  BY <1>9, <1>10, <1>11, <1>12 DEF InTransaction
<1> QED
  BY <1>1, <1>9, <1>13 DEF LogInv, Untouched

LEMMA LogInvCommit ==
  ASSUME LogInv, Commit
  PROVE  LogInv'
<1>1. /\ txn # None /\ txn' = None /\ events' = Visible /\ tampering' = tampering
      /\ sequence' = txn.last
      /\ log' = IF Untouched THEN Extended(log, txn.tenant, txn.rows) ELSE log
  BY DEF Commit, Extended
<1> QED
  BY <1>1 DEF LogInv, InTransaction, Untouched

\* Whatever is done to the file, it is still a table.
LEMMA LogInvTamper ==
  ASSUME LogInv, NEW rows, Tamper(rows), Good(rows, sequence)
  PROVE  LogInv'
<1>1. /\ events' = rows /\ sequence' = sequence /\ log' = log /\ txn = None /\ txn' = None
      /\ tampering' = tampering + 1
  BY DEF Tamper
<1>2. tampering' \in Nat /\ ~ Untouched'
  BY <1>1 DEF Untouched, LogInv
<1> QED
  BY <1>1, <1>2 DEF LogInv

\* A row in place of one of its number.
LEMMA GoodReplaced ==
  ASSUME NEW table, NEW last, Good(table, last), NEW e \in table,
         NEW a \in Row, a.seq = e.seq
  PROVE  Good((table \ {e}) \cup {a}, last)
<1>1. table \in SUBSET Row /\ IsFiniteSet(table)
  BY DEF Good
<1>2. IsFiniteSet((table \ {e}) \cup {a})
  BY <1>1, FS_RemoveElement, FS_AddElement
<1> QED
  BY <1>2 DEF Good

LEMMA LogInvAlter ==
  ASSUME LogInv, NEW e \in events, NEW payload \in Payloads, Alter(e, payload)
  PROVE  LogInv'
<1> DEFINE a == [e EXCEPT !.payload = payload]
<1>1. Good(events, sequence)
  BY DEF LogInv
<1>2. a \in Row /\ a.seq = e.seq
  BY <1>1 DEF Row, Good
<1>3. Tamper((events \ {e}) \cup {a})
  BY DEF Alter
<1> HIDE DEF a
<1> QED
  BY <1>1, <1>2, <1>3, GoodReplaced, LogInvTamper

LEMMA LogInvReseal ==
  ASSUME LogInv, NEW e \in events, Reseal(e)
  PROVE  LogInv'
<1> DEFINE before == Earlier(RowsOf(events, e.tenant), e)
           h == NewestHash(before)
           linked == [e EXCEPT !.previous = h]
           a == [linked EXCEPT !.hash = Digest(linked)]
<1>1. Good(events, sequence) /\ sequence \in Nat
  BY DEF LogInv
<1>2. e \in Row /\ before \in SUBSET Row /\ \A d \in before : d.seq <= sequence
  BY <1>1 DEF Good, Earlier, RowsOf
<1>3. Tamper((events \ {e}) \cup {a})
  BY DEF Reseal
<1> HIDE DEF before
<1>4. IsHashOf(before, h)
  BY <1>1, <1>2, NewestHashIs
<1>5. h \in Hash
  BY <1>2, <1>4, HashOfTyped
<1> HIDE DEF h
<1>6. /\ linked.tenant \in Tenants /\ linked.payload \in Payloads /\ linked.previous \in Hash
      /\ linked.seq = e.seq /\ linked \in Row
  BY <1>2, <1>5 DEF Row
<1> HIDE DEF linked
<1>7. Digest(linked) \in Hash
  BY <1>6, DigestOf
<1>8. a \in Row /\ a.seq = e.seq
  BY <1>6, <1>7 DEF Row
<1> HIDE DEF a
<1> QED
  BY <1>1, <1>3, <1>8, GoodReplaced, LogInvTamper

LEMMA LogInvDelete ==
  ASSUME LogInv, NEW e \in events, Delete(e)
  PROVE  LogInv'
<1>1. Good(events, sequence)
  BY DEF LogInv
<1>2. IsFiniteSet(events \ {e})
  BY <1>1, FS_RemoveElement DEF Good
<1>3. Good(events \ {e}, sequence)
  BY <1>1, <1>2 DEF Good
<1> QED
  BY <1>3, LogInvTamper DEF Delete

LEMMA LogInvNext ==
  ASSUME Typed, LogInv, [Next]_vars
  PROVE  LogInv'
<1>1. CASE \E t \in Tenants : Begin(t)
  BY <1>1, LogInvBegin
<1>2. CASE \E payload \in Payloads : Audit(payload)
  BY <1>2, LogInvAudit
<1>3. CASE Commit
  BY <1>3, LogInvCommit
<1>4. CASE Rollback
  BY <1>4 DEF Rollback, following, LogInv, Untouched
<1>5. CASE /\ events' = events /\ sequence' = sequence /\ log' = log
           /\ txn' = txn /\ tampering' = tampering
  BY <1>5 DEF LogInv, Untouched, InTransaction, Visible
<1>6. CASE \E f \in Followers : Receive(f) \/ Lose(f) \/ \E limit \in Limits : Poll(f, limit)
  BY <1>5, <1>6 DEF Receive, Lose, Poll
<1>7. CASE vars' = vars
  BY <1>5, <1>7 DEF vars
<1>8. CASE \E e \in events : Delete(e)
  BY <1>8, LogInvDelete
<1>9. CASE \E e \in events : \E payload \in Payloads : Alter(e, payload)
  BY <1>9, LogInvAlter
<1>10. CASE \E e \in events : Reseal(e)
  BY <1>10, LogInvReseal
<1> QED
  BY <1>1, <1>2, <1>3, <1>4, <1>6, <1>7, <1>8, <1>9, <1>10 DEF Next

-------------------------------------------------------------------------------
(* Pages *)

LEMMA FirstOfIs ==
  ASSUME NEW rows \in SUBSET Row, IsFiniteSet(rows), NEW n \in Int,
         NEW m \in FirstOf(rows, n), Newer(FirstOf(rows, n), m)
  PROVE  FirstOf(rows, n) = {e \in rows : e.seq <= m.seq}
<1>1. ASSUME NEW e \in rows, e.seq <= m.seq
      PROVE  e \in FirstOf(rows, n)
  <2>1. m \in rows /\ Cardinality(Earlier(rows, m)) < n
    BY DEF FirstOf
  <2>2. m.seq \in Nat /\ e.seq \in Nat /\ \A d \in rows : d.seq \in Nat
    BY <2>1, RowFields
  <2>3. Earlier(rows, e) \subseteq Earlier(rows, m) /\ Earlier(rows, m) \subseteq rows
    BY <1>1, <2>2 DEF Earlier
  <2>4. IsFiniteSet(Earlier(rows, m))
    BY <2>3, FS_Subset
  <2>5. /\ Cardinality(Earlier(rows, e)) <= Cardinality(Earlier(rows, m))
        /\ IsFiniteSet(Earlier(rows, e))
    BY <2>3, <2>4, FS_Subset
  <2>6. Cardinality(Earlier(rows, m)) \in Nat /\ Cardinality(Earlier(rows, e)) \in Nat
    BY <2>4, <2>5, FS_CardinalityType
  <2> QED
    BY <2>1, <2>5, <2>6 DEF FirstOf
<1> QED
  BY <1>1 DEF FirstOf, Newer

Following(table, cursor) == {e \in table : e.seq > cursor}

IsPage(sent, next, table, cursor) ==
  /\ sent \in SUBSET Row /\ next \in Nat /\ cursor <= next
  /\ next = cursor \/ \E e \in table : next = e.seq
  /\ sent = Between(table, cursor, next)

\* A page holds what follows the cursor up to the page's own, which is that of
\* a row, or the cursor itself when nothing follows.
LEMMA PageIs ==
  ASSUME NEW table \in SUBSET Row, IsFiniteSet(table), Topped(table),
         NEW cursor \in Nat, NEW n \in Int,
         NEW sent, sent = FirstOf(Following(table, cursor), n)
  PROVE  IsPage(sent, NextAfter(sent, cursor), table, cursor)
<1> DEFINE rows == Following(table, cursor)
           next == NextAfter(sent, cursor)
<1>0. sent = FirstOf(rows, n) /\ next = NextAfter(sent, cursor)
  OBVIOUS
<1> SUFFICES /\ sent \in SUBSET Row /\ next \in Nat /\ cursor <= next
             /\ next = cursor \/ \E e \in table : next = e.seq
             /\ sent = Between(table, cursor, next)
  BY DEF IsPage
<1>1. rows \in SUBSET Row /\ IsFiniteSet(rows) /\ sent \in SUBSET rows
  BY FS_Subset DEF FirstOf, Following
<1>r. \A e : e \in rows <=> e \in table /\ e.seq > cursor
  BY DEF Following
<1> HIDE DEF rows, next
<1>2. \A e \in table : e.seq \in Nat
  BY RowFields
<1>3. CASE sent = {}
  <2>1. next = cursor
    BY <1>0, <1>3 DEF NextAfter
  <2>2. ASSUME NEW e \in table, cursor < e.seq, e.seq <= next
        PROVE  FALSE
    <3>1. e.seq \in Nat
      BY <1>2
    <3>2. e.seq <= cursor
      BY <2>1, <2>2
    <3> QED
      BY <2>2, <3>1, <3>2
  <2>3. Between(table, cursor, next) = {}
    BY <2>2 DEF Between
  <2>4. sent \in SUBSET Row /\ next \in Nat /\ cursor <= next
    BY <1>3, <2>1
  <2> QED
    BY <1>3, <2>1, <2>3, <2>4
<1>4. CASE sent # {}
  <2>1. sent \in SUBSET Row /\ \A e \in sent : e \in table
    BY <1>1, <1>r
  <2>2. PICK b \in Nat : \A e \in table : e.seq <= b
    BY DEF Topped
  <2>3. Newest(sent) \in sent /\ Newer(sent, Newest(sent))
    BY <1>4, <2>1, <2>2, HasNewest, NewestIs
  <2>4. next = Newest(sent).seq
    BY <1>0, <1>4 DEF NextAfter
  <2>5. sent = {e \in rows : e.seq <= next}
    <3>1. FirstOf(rows, n) = {e \in rows : e.seq <= Newest(sent).seq}
      <4>1. Newest(sent) \in FirstOf(rows, n) /\ Newer(FirstOf(rows, n), Newest(sent))
        BY <1>0, <2>3
      <4> DEFINE m == Newest(sent)
      <4> HIDE DEF m
      <4>2. m \in FirstOf(rows, n) /\ Newer(FirstOf(rows, n), m)
        BY <4>1 DEF m
      <4>3. FirstOf(rows, n) = {e \in rows : e.seq <= m.seq}
        BY <1>1, <4>2, FirstOfIs
      <4> QED
        BY <4>3 DEF m
    <3> QED
      BY <1>0, <2>4, <3>1
  <2>6. Newest(sent) \in rows
    BY <1>1, <2>3
  <2>7. Newest(sent) \in table /\ Newest(sent).seq > cursor
    BY <2>6, <1>r
  <2>8. next \in Nat /\ cursor <= next
    BY <1>2, <2>4, <2>7
  <2>9. sent = Between(table, cursor, next)
    BY <1>2, <1>r, <2>5, <2>8 DEF Between
  <2> QED
    BY <2>1, <2>4, <2>7, <2>8, <2>9
<1> QED
  BY <1>3, <1>4

LEMMA TypedInit == Init => Typed
BY DEF Init, Typed

LEMMA PageSizeInt ==
  ASSUME NEW limit \in Limits
  PROVE  PageSize(limit) \in Int
BY ConstantsAssumption DEF PageSize

LEMMA PollIs ==
  ASSUME Typed, LogInv, NEW f \in Followers, NEW limit \in Limits, Poll(f, limit)
  PROVE  \E sent \in SUBSET Row, next \in Nat :
           /\ page' = [page EXCEPT ![f] = [events |-> sent, next |-> next]]
           /\ after[f] <= next
           /\ next = after[f] \/ \E e \in events : next = e.seq
           /\ sent = Between(RowsOf(events, TenantOf[f]), after[f], next)
<1> DEFINE table == RowsOf(events, TenantOf[f])
           rows == {e \in table : e.seq > after[f]}
           sent == FirstOf(rows, PageSize(limit))
           next == NextAfter(sent, after[f])
<1>1. page' = [page EXCEPT ![f] = [events |-> sent, next |-> next]]
  BY DEF Poll
<1>2. events \in SUBSET Row /\ IsFiniteSet(events) /\ Topped(events)
  BY GoodTops DEF LogInv, Good
<1>3. table \subseteq events
  BY DEF RowsOf
<1>4. table \in SUBSET Row /\ IsFiniteSet(table) /\ Topped(table)
  BY <1>2, <1>3, FS_Subset DEF Topped
<1>5. after[f] \in Nat /\ PageSize(limit) \in Int
  BY PageSizeInt DEF Typed
<1> HIDE DEF table, rows, sent, next
<1>a. sent = FirstOf(Following(table, after[f]), PageSize(limit))
  BY DEF sent, rows, Following
<1>b. next = NextAfter(sent, after[f])
  BY DEF next
<1>6. IsPage(sent, next, table, after[f])
  BY <1>4, <1>5, <1>a, <1>b, PageIs
<1> QED
  BY <1>1, <1>3, <1>6 DEF table, IsPage

LEMMA TransactionExtended ==
  ASSUME NEW x \in Transaction, NEW rows \in SUBSET Row, NEW last \in Nat
  PROVE  [x EXCEPT !.rows = rows, !.last = last] \in Transaction
BY DEF Transaction

LEMMA InsertedIn ==
  ASSUME txn.last \in Nat, Good(Visible, txn.last), txn.tenant \in Tenants,
         NEW payload \in Payloads
  PROVE  Inserted(Visible, txn.tenant, payload, txn.last + 1) \in Row
<1> DEFINE t == txn.tenant
           last == txn.last
           r == Inserted(Visible, t, payload, last + 1)
<1>1. last \in Nat /\ Good(Visible, last) /\ t \in Tenants
  OBVIOUS
<1>2. r = Inserted(Visible, t, payload, last + 1)
  OBVIOUS
<1> HIDE DEF t, last, r
<1>3. r \in Row
  BY <1>1, <1>2, InsertKeepsGood
<1> QED
  BY <1>3 DEF t, last, r

LEMMA TypedNext ==
  ASSUME Typed, LogInv, [Next]_vars
  PROVE  Typed'
<1> USE DEF Typed
<1>1. ASSUME NEW t \in Tenants, Begin(t)
      PROVE  Typed'
  BY <1>1 DEF Begin, Transaction, following
<1>2. ASSUME NEW payload \in Payloads, Audit(payload)
      PROVE  Typed'
  <2>1. LogInv'
    BY <1>2, LogInvAudit
  <2>2. txn # None /\ txn \in Transaction
    BY <1>2, TransactionFields DEF Audit
  <2> DEFINE r == Inserted(Visible, txn.tenant, payload, txn.last + 1)
  <2>3. r \in Row /\ txn.last \in Nat
    <3>1. Good(Visible, txn.last) /\ txn.last \in Nat
      BY <2>2 DEF LogInv, InTransaction
    <3>2. txn.tenant \in Tenants
      BY <2>2, TransactionFields
    <3> QED
      BY <3>1, <3>2, InsertedIn
  <2> DEFINE rows == txn.rows \cup {r}
             last == txn.last + 1
  <2>4. txn' = [txn EXCEPT !.rows = rows, !.last = last]
    BY <1>2 DEF Audit
  <2>5. rows \in SUBSET Row /\ last \in Nat
    BY <2>2, <2>3, TransactionFields
  <2> HIDE DEF rows, last
  <2>6. txn' \in Transaction
    BY <2>2, <2>4, <2>5, TransactionExtended
  <2> QED
    BY <1>2, <2>6 DEF Audit, following
<1>3. CASE Commit \/ Rollback
  BY <1>3 DEF Commit, Rollback, LogInv, following
<1>4. ASSUME NEW f \in Followers, NEW limit \in Limits, Poll(f, limit)
      PROVE  Typed'
  <2>1. PICK sent \in SUBSET Row, next \in Nat :
          page' = [page EXCEPT ![f] = [events |-> sent, next |-> next]]
    BY <1>4, PollIs
  <2>2. [events |-> sent, next |-> next] \in Page
    BY DEF Page
  <2>3. page' \in [Followers -> {None} \cup Page]
    BY <2>1, <2>2
  <2> QED
    BY <1>4, <2>3 DEF Poll
<1>5. ASSUME NEW f \in Followers, Receive(f)
      PROVE  Typed'
  <2>1. page[f] \in Page
    BY <1>5 DEF Receive
  <2>2. page[f].events \in SUBSET Row /\ page[f].next \in Nat
    BY <2>1 DEF Page
  <2> QED
    BY <1>5, <2>2 DEF Receive
<1>6. ASSUME NEW f \in Followers, Lose(f)
      PROVE  Typed'
  BY <1>6 DEF Lose
<1>7. CASE \E e \in events : Delete(e) \/ Reseal(e) \/ \E payload \in Payloads : Alter(e, payload)
  BY <1>7 DEF Delete, Reseal, Alter, Tamper, following
<1>8. CASE vars' = vars
  BY <1>8 DEF vars
<1> QED
  BY <1>1, <1>2, <1>3, <1>4, <1>5, <1>6, <1>7, <1>8 DEF Next

-------------------------------------------------------------------------------
(* Followers *)

AllFollowed == Untouched => \A f \in Followers : Followed(f)

\* Rows after all that is committed are behind no cursor.
LEMMA BehindNone ==
  ASSUME NEW table \in SUBSET Row, NEW n \in Nat, Reached(table, n), NEW new \in SUBSET Row,
         Later(table, new), \A e \in new : e.seq > 0
  PROVE  \A e \in new : ~ (e.seq <= n)
<1> SUFFICES ASSUME NEW e \in new, e.seq <= n
             PROVE  FALSE
  OBVIOUS
<1>1. e.seq \in Nat /\ \A d \in table : d.seq \in Nat
  BY RowFields
<1>2. PICK d \in table : n <= d.seq
  BY <1>1 DEF Reached
<1>3. d.seq < e.seq
  BY DEF Later
<1> QED
  BY <1>1, <1>2, <1>3

LEMMA FollowedCommit ==
  ASSUME Typed, LogInv, Untouched, Commit, NEW f \in Followers, Followed(f)
  PROVE  Followed(f)'
<1> DEFINE t == TenantOf[f]
<1>1. /\ txn # None /\ events' = events \cup txn.rows
      /\ log' = [log EXCEPT ![txn.tenant] = @ \cup txn.rows]
      /\ after' = after /\ copy' = copy /\ page' = page
  BY DEF Commit, Visible, following
<1>2. txn.tenant \in Tenants /\ txn.rows \in SUBSET Row
  BY <1>1, TransactionFields
<1>3. /\ events \in SUBSET Row /\ log \in [Tenants -> SUBSET Row]
      /\ Later(events, txn.rows) /\ \A e \in txn.rows : e.seq > 0
  <2>1. /\ Good(events, sequence) /\ sequence \in Nat /\ Logged(log)
        /\ \A e \in txn.rows : sequence < e.seq
    BY <1>1 DEF LogInv, InTransaction
  <2>2. \A d \in events : d.seq \in Nat /\ d.seq <= sequence
    BY <2>1, RowFields DEF Good
  <2>3. \A e \in txn.rows : e.seq \in Nat
    BY <1>2, RowFields
  <2> QED
    BY <2>1, <2>2, <2>3 DEF Logged, Good, Later
<1>4. t \in Tenants
  BY ConstantsAssumption
<1>5. log'[t] \in {log[t], log[t] \cup txn.rows}
  BY <1>1, <1>2, <1>3, <1>4
<1>6. ASSUME NEW n \in Nat, Reached(events, n)
      PROVE  Reached(events', n) /\ UpTo(log'[t], n) = UpTo(log[t], n)
             /\ \A low : Between(log'[t], low, n) = Between(log[t], low, n)
  <2>1. Reached(events', n)
    BY <1>1, <1>6 DEF Reached
  <2>2. \A e \in txn.rows : ~ (e.seq <= n)
    BY <1>2, <1>3, <1>6, BehindNone
  <2> QED
    BY <1>5, <2>1, <2>2 DEF UpTo, Between
<1>7. after[f] \in Nat
  BY DEF Typed
<1>8. copy'[f] = UpTo(log'[t], after'[f]) /\ Reached(events', after'[f])
  BY <1>1, <1>6, <1>7 DEF Followed
<1>9. ASSUME page'[f] # None
      PROVE  /\ after'[f] <= page'[f].next
             /\ page'[f].events = Between(log'[t], after'[f], page'[f].next)
             /\ Reached(events', page'[f].next)
  <2>1. page[f] \in Page
    BY <1>1, <1>9 DEF Typed
  <2>2. page[f].next \in Nat
    BY <2>1 DEF Page
  <2> QED
    BY <1>1, <1>6, <1>9, <2>2 DEF Followed
<1> QED
  BY <1>8, <1>9 DEF Followed

LEMMA FollowedPoll ==
  ASSUME Typed, LogInv, Untouched, NEW f \in Followers, NEW limit \in Limits, Poll(f, limit),
         Followed(f)
  PROVE  Followed(f)'
<1>1. PICK sent \in SUBSET Row, next \in Nat :
           /\ page' = [page EXCEPT ![f] = [events |-> sent, next |-> next]]
           /\ after[f] <= next
           /\ next = after[f] \/ \E e \in events : next = e.seq
           /\ sent = Between(RowsOf(events, TenantOf[f]), after[f], next)
  BY PollIs
<1>2. page'[f] = [events |-> sent, next |-> next]
  BY <1>1 DEF Typed
<1>3. page'[f].events = sent /\ page'[f].next = next
  BY <1>2
<1>4. RowsOf(events, TenantOf[f]) = log[TenantOf[f]]
  BY ConstantsAssumption DEF LogInv, Same
<1>5. events' = events /\ log' = log /\ after' = after /\ copy' = copy
  BY DEF Poll
<1>6. Reached(events, next)
  BY <1>1 DEF Followed, Reached
<1> QED
  BY <1>1, <1>3, <1>4, <1>5, <1>6 DEF Followed

LEMMA FollowedReceive ==
  ASSUME Typed, LogInv, NEW f \in Followers, Receive(f), Followed(f)
  PROVE  Followed(f)'
<1> DEFINE rows == log[TenantOf[f]]
<1>1. /\ page[f] # None /\ events' = events /\ log' = log
      /\ copy'[f] = copy[f] \cup page[f].events
      /\ after'[f] = page[f].next /\ page'[f] = None
  BY DEF Receive, Typed
<1>2. page[f] \in Page /\ after[f] \in Nat
  BY <1>1 DEF Typed
<1>3. page[f].next \in Nat
  BY <1>2 DEF Page
<1>4. rows \in SUBSET Row
  BY ConstantsAssumption DEF LogInv, Logged
<1>5. \A e \in rows : e.seq \in Nat
  BY <1>4, RowFields
<1>6. /\ copy[f] = UpTo(rows, after[f])
      /\ page[f].events = Between(rows, after[f], page[f].next)
      /\ after[f] <= page[f].next /\ Reached(events, page[f].next)
  BY <1>1 DEF Followed
<1> HIDE DEF rows
<1>7. UpTo(rows, after[f]) \cup Between(rows, after[f], page[f].next) = UpTo(rows, page[f].next)
  BY <1>2, <1>3, <1>5, <1>6 DEF UpTo, Between
<1> QED
  BY <1>1, <1>6, <1>7 DEF Followed, rows

LEMMA FollowedNext ==
  ASSUME Typed, LogInv, AllFollowed, [Next]_vars
  PROVE  AllFollowed'
<1> SUFFICES ASSUME Untouched', NEW f \in Followers
             PROVE  Followed(f)'
  BY DEF AllFollowed
<1>1. CASE \E e \in events : Delete(e) \/ Reseal(e) \/ \E payload \in Payloads : Alter(e, payload)
  <2>1. tampering' = tampering + 1 /\ tampering \in Nat
    BY <1>1 DEF Delete, Reseal, Alter, Tamper, Typed
  <2> QED
    BY <2>1 DEF Untouched
<1>2. CASE Commit
  BY <1>2, FollowedCommit DEF AllFollowed, Untouched, Commit
<1>3. CASE (\E t \in Tenants : Begin(t)) \/ (\E payload \in Payloads : Audit(payload))
           \/ Rollback \/ vars' = vars
  BY <1>3 DEF Begin, Audit, Rollback, following, vars, AllFollowed, Untouched, Followed
<1>4. ASSUME NEW g \in Followers, NEW limit \in Limits, Poll(g, limit)
      PROVE  Followed(f)'
  <2>1. tampering' = tampering /\ events' = events /\ log' = log /\ after' = after /\ copy' = copy
    BY <1>4 DEF Poll
  <2>2. Untouched /\ Followed(f)
    BY <2>1 DEF AllFollowed, Untouched
  <2>3. CASE f = g
    BY <1>4, <2>2, <2>3, FollowedPoll
  <2>4. CASE f # g
    <3>1. page'[f] = page[f]
      BY <1>4, <2>4 DEF Poll, Typed
    <3> QED
      BY <2>1, <2>2, <3>1 DEF Followed
  <2> QED
    BY <2>3, <2>4
<1>5. ASSUME NEW g \in Followers, Receive(g)
      PROVE  Followed(f)'
  <2>1. tampering' = tampering /\ events' = events /\ log' = log
    BY <1>5 DEF Receive
  <2>2. Followed(f)
    BY <2>1 DEF AllFollowed, Untouched
  <2>3. CASE f = g
    BY <1>5, <2>2, <2>3, FollowedReceive
  <2>4. CASE f # g
    <3>1. page'[f] = page[f] /\ after'[f] = after[f] /\ copy'[f] = copy[f]
      BY <1>5, <2>4 DEF Receive, Typed
    <3> QED
      BY <2>1, <2>2, <3>1 DEF Followed
  <2> QED
    BY <2>3, <2>4
<1>6. ASSUME NEW g \in Followers, Lose(g)
      PROVE  Followed(f)'
  <2>1. /\ tampering' = tampering /\ events' = events /\ log' = log
        /\ after' = after /\ copy' = copy
        /\ page'[f] \in {page[f], None}
    BY <1>6 DEF Lose, Typed
  <2>2. Followed(f)
    BY <2>1 DEF AllFollowed, Untouched
  <2> QED
    BY <2>1, <2>2 DEF Followed
<1> QED
  BY <1>1, <1>2, <1>3, <1>4, <1>5, <1>6 DEF Next

LEMMA FollowedInit == Init => AllFollowed
<1> SUFFICES ASSUME Init, NEW f \in Followers
             PROVE  Followed(f)
  BY DEF AllFollowed
<1>1. TenantOf[f] \in Tenants
  BY ConstantsAssumption
<1>2. log[TenantOf[f]] = {} /\ after[f] = 0 /\ copy[f] = {} /\ page[f] = None
  BY <1>1 DEF Init
<1> QED
  BY <1>2 DEF Followed, UpTo, Reached

-------------------------------------------------------------------------------
(* The theorems *)

IInv == Typed /\ LogInv /\ AllFollowed

LEMMA IInvAlways == Spec => []IInv
<1>1. Init => IInv
  BY TypedInit, LogInvInit, FollowedInit DEF IInv
<1>2. IInv /\ [Next]_vars => IInv'
  BY TypedNext, LogInvNext, FollowedNext DEF IInv
<1> QED
  BY <1>1, <1>2, PTL DEF Spec

LEMMA RecordedChecks ==
  ASSUME NEW t \in Tenants, NEW rows, Recorded(rows, t), NEW e \in rows
  PROVE  e.previous = NewestHash(Earlier(rows, e)) /\ Digest(e) = e.hash
<1>1. Earlier(rows, e) \in SUBSET Row /\ Topped(Earlier(rows, e)) /\ OneHash(Earlier(rows, e))
  BY DEF Earlier, Recorded, Topped, OneHash
<1>2. IsHashOf(Earlier(rows, e), e.previous) /\ e.hash = Digest(e)
  BY DEF Recorded
<1> QED
  BY <1>1, <1>2, NewestHashIs DEF Topped

LEMMA ChainInv == IInv => ChainHolds
<1> SUFFICES ASSUME IInv, Untouched, NEW t \in Tenants
             PROVE  CheckAudit(t) /\ RowsOf(events, t) = log[t]
  BY DEF ChainHolds
<1>1. RowsOf(events, t) = log[t]
  BY DEF IInv, LogInv, Same
<1>2. Recorded(log[t], t)
  BY DEF IInv, LogInv, Logged
<1> QED
  BY <1>1, <1>2, RecordedChecks DEF CheckAudit

\* A table that checks is a chain, whoever wrote it.
LEMMA CheckedRows ==
  ASSUME IInv, NEW t \in Tenants, CheckAudit(t)
  PROVE  Recorded(RowsOf(events, t), t)
<1> DEFINE rows == RowsOf(events, t)
<1>1. Good(events, sequence) /\ sequence \in Nat
  BY DEF IInv, LogInv
<1>2. rows \in SUBSET Row /\ (\A e \in rows : e.seq <= sequence /\ e.tenant = t)
      /\ (\A d, e \in rows : d.seq = e.seq => d = e)
  BY <1>1 DEF Good, RowsOf
<1>3. \A e \in rows : e.previous = NewestHash(Earlier(rows, e)) /\ Digest(e) = e.hash
  BY DEF CheckAudit
<1> HIDE DEF rows
<1>4. ASSUME NEW e \in rows
      PROVE  IsHashOf(Earlier(rows, e), e.previous)
  <2>1. Earlier(rows, e) \in SUBSET Row /\ \A d \in Earlier(rows, e) : d.seq <= sequence
    BY <1>2 DEF Earlier
  <2>2. IsHashOf(Earlier(rows, e), NewestHash(Earlier(rows, e)))
    BY <1>1, <2>1, NewestHashIs
  <2> QED
    BY <1>3, <2>2
<1>5. Topped(rows)
  BY <1>1, <1>2 DEF Topped
<1>6. Recorded(rows, t)
  BY <1>2, <1>3, <1>4, <1>5 DEF Recorded
<1> QED
  BY <1>6 DEF rows

\* What a row adds to what those before it say.
Said(e) == [payload |-> e.payload, previous |-> e.previous, hash |-> e.hash]

LEMMA ContentGrows ==
  ASSUME NEW t, NEW rows, Recorded(rows, t), NEW e \in rows
  PROVE  \/ e.previous = Genesis /\ Content(Through(rows, e)) = {Said(e)}
         \/ \E n \in rows : /\ e.previous = n.hash
                            /\ Content(Through(rows, e)) = Content(Through(rows, n)) \cup {Said(e)}
<1>1. \A d \in rows : d.seq \in Nat
  BY RowFields DEF Recorded
<1>2. \A d \in rows : d.seq = e.seq => d = e
  BY DEF Recorded
<1>3. IsHashOf(Earlier(rows, e), e.previous)
  BY DEF Recorded
<1>4. CASE Earlier(rows, e) = {}
  <2>1. Through(rows, e) = {e}
    BY <1>1, <1>2, <1>4 DEF Earlier, Through
  <2> QED
    BY <1>3, <1>4, <2>1 DEF IsHashOf, Content, Said
<1>5. CASE Earlier(rows, e) # {}
  <2>1. PICK n \in Earlier(rows, e) : Newer(Earlier(rows, e), n) /\ e.previous = n.hash
    BY <1>3, <1>5 DEF IsHashOf
  <2>2. n \in rows /\ n.seq < e.seq /\ \A d \in rows : d.seq < e.seq => d.seq <= n.seq
    BY <2>1 DEF Earlier, Newer
  <2>3. Through(rows, e) = Through(rows, n) \cup {e}
    BY <1>1, <1>2, <2>2 DEF Through
  <2>4. Content(Through(rows, n) \cup {e}) = Content(Through(rows, n)) \cup {Said(e)}
    BY DEF Content, Said
  <2> QED
    BY <2>1, <2>2, <2>3, <2>4
<1> QED
  BY <1>4, <1>5

\* The last row of a chain tells all of the chain. (Were there rows of one hash
\* before which two chains differ, there would be such rows of the shortest hash.)
LEMMA HashTellsAll ==
  ASSUME NEW t \in Tenants, NEW kept, Recorded(kept, t), NEW rows, Recorded(rows, t)
  PROVE  \A d \in kept, e \in rows :
           e.hash = d.hash => Content(Through(rows, e)) = Content(Through(kept, d))
<1> DEFINE Differ(d, e) == e.hash = d.hash /\ Content(Through(rows, e)) # Content(Through(kept, d))
           S == {n \in Nat : \E d \in kept, e \in rows : Differ(d, e) /\ Len(d.hash) = n}
<1> SUFFICES ASSUME NEW d1 \in kept, NEW e1 \in rows, Differ(d1, e1)
             PROVE  FALSE
  OBVIOUS
<1>1. kept \in SUBSET Row /\ rows \in SUBSET Row
  BY DEF Recorded
<1>2. \A x \in kept \cup rows : x \in Row /\ x.hash \in Hash /\ Len(x.hash) \in Nat
  BY <1>1, RowFields DEF Hash
<1>3. S \in SUBSET Nat /\ S # {}
  BY <1>2
<1>4. PICK n \in S : \A k \in S : n <= k
  BY <1>3, LeastNatural
<1>5. PICK d \in kept, e \in rows : Differ(d, e) /\ Len(d.hash) = n
  BY <1>4
<1>6. ASSUME NEW c \in kept, NEW b \in rows, Len(c.hash) < n, b.hash = c.hash
      PROVE  Content(Through(rows, b)) = Content(Through(kept, c))
  <2>1. Len(c.hash) \in Nat
    BY <1>2
  <2>2. Len(c.hash) \notin S
    BY <1>4, <1>6, <2>1
  <2> QED
    BY <1>6, <2>1, <2>2
<1> HIDE DEF S
<1>7. d \in Row /\ e \in Row /\ d.hash = Digest(d) /\ e.hash = Digest(e)
  BY <1>2 DEF Recorded
<1>8. d.payload = e.payload /\ d.previous = e.previous
  BY <1>5, <1>7, DigestTells
<1>9. Said(d) = Said(e)
  BY <1>5, <1>8 DEF Said
<1>10. Len(d.previous) < n
  <2>1. Len(d.previous) \in Nat /\ Len(Digest(d)) = Len(d.previous) + 1
    BY <1>7, RowFields, DigestOf
  <2> QED
    BY <1>5, <1>7, <2>1
<1>11. ASSUME NEW x \in kept \cup rows
       PROVE  x.hash # Genesis
  <2>1. x \in Row /\ x.hash = Digest(x)
    BY <1>2 DEF Recorded
  <2>2. Len(x.previous) \in Nat /\ Len(x.hash) = Len(x.previous) + 1
    BY <2>1, RowFields, DigestOf
  <2>3. Len(Genesis) = 0
    BY DEF Genesis
  <2> QED
    BY <2>2, <2>3
<1>12. CASE d.previous = Genesis
  <2> HIDE DEF Differ
  <2>0. e.previous = Genesis
    BY <1>8, <1>12
  <2>1. Content(Through(kept, d)) = {Said(d)}
    BY <1>11, <1>12, ContentGrows
  <2>2. Content(Through(rows, e)) = {Said(e)}
    BY <1>11, <2>0, ContentGrows
  <2> QED
    BY <1>5, <1>9, <2>1, <2>2 DEF Differ
<1>13. CASE d.previous # Genesis
  <2>1. PICK c \in kept : /\ d.previous = c.hash
                          /\ Content(Through(kept, d)) = Content(Through(kept, c)) \cup {Said(d)}
    BY <1>13, ContentGrows
  <2>2. PICK b \in rows : /\ e.previous = b.hash
                          /\ Content(Through(rows, e)) = Content(Through(rows, b)) \cup {Said(e)}
    BY <1>8, <1>13, ContentGrows
  <2>3. b.hash = c.hash /\ Len(c.hash) < n
    BY <1>8, <1>10, <2>1, <2>2
  <2>4. Content(Through(rows, b)) = Content(Through(kept, c))
    BY <1>6, <2>3
  <2> QED
    BY <1>5, <1>9, <2>1, <2>2, <2>4
<1> QED
  BY <1>12, <1>13

LEMMA VouchesInv == IInv => KeptHashVouches
<1> SUFFICES ASSUME IInv, NEW t \in Tenants, CheckAudit(t), NEW d \in log[t],
                    NEW e \in RowsOf(events, t), e.hash = d.hash
             PROVE  Content(Through(RowsOf(events, t), e)) = Content(Through(log[t], d))
  BY DEF KeptHashVouches
<1>1. Recorded(log[t], t)
  BY DEF IInv, LogInv, Logged
<1>2. Recorded(RowsOf(events, t), t)
  BY CheckedRows
<1> QED
  BY <1>1, <1>2, HashTellsAll

LEMMA CopyInv == IInv => CopyIsPrefix
<1> SUFFICES ASSUME IInv, Untouched, NEW f \in Followers
             PROVE  /\ copy[f] = {e \in log[TenantOf[f]] : e.seq <= after[f]}
                    /\ page[f] # None => page[f].events \cap copy[f] = {}
  BY DEF CopyIsPrefix
<1>1. Followed(f) /\ after[f] \in Nat
  BY DEF IInv, AllFollowed, Typed
<1>2. log[TenantOf[f]] \in SUBSET Row
  BY ConstantsAssumption DEF IInv, LogInv, Logged
<1>3. \A e \in log[TenantOf[f]] : e.seq \in Nat
  BY <1>2, RowFields
<1>4. page[f] # None => page[f].events \cap copy[f] = {}
  BY <1>1, <1>3 DEF Followed, UpTo, Between
<1> QED
  BY <1>1, <1>4 DEF Followed, UpTo

\* While nobody touches the file, every tenant's chain checks and holds exactly
\* what was committed, however transactions of tenants alternate and roll back
\* (service.py _audit, check_audit).
THEOREM ChainAlwaysHolds == Spec => []ChainHolds
<1> QED
  BY IInvAlways, ChainInv, PTL

\* In a chain that checks, a row with a hash the service committed vouches for
\* every row up to it, whatever was altered, removed or sealed again at the
\* file; nothing is said of the rows behind the last such hash (check_audit).
THEOREM CommittedHashVouches == Spec => []KeptHashVouches
<1> QED
  BY IInvAlways, VouchesInv, PTL

\* A client behind a cursor has its tenant's log up to it, whatever pages are
\* lost and whatever their sizes (service.py events).
THEOREM FollowersHavePrefix == Spec => []CopyIsPrefix
<1> QED
  BY IInvAlways, CopyInv, PTL
===============================================================================
