----------------------------- MODULE Intake_proofs -----------------------------
(***************************************************************************)
(* What holds of Intake for any number of clients, keys, edits, copies and *)
(* faults.                                                                 *)
(***************************************************************************)
EXTENDS Intake, FiniteSetTheorems, TLAPS

-------------------------------------------------------------------------------
(* Sequences *)

LEMMA AppendToSeq ==
  ASSUME NEW T, NEW q \in Seq(T), NEW x \in T
  PROVE  /\ Append(q, x) \in Seq(T)
         /\ Len(Append(q, x)) = Len(q) + 1
         /\ DOMAIN Append(q, x) = DOMAIN q \cup {Len(q) + 1}
         /\ Append(q, x)[Len(q) + 1] = x
         /\ \A i \in DOMAIN q : Append(q, x)[i] = q[i]
OBVIOUS

LEMMA ReplaceInSeq ==
  ASSUME NEW T, NEW q \in Seq(T), NEW n \in DOMAIN q, NEW x \in T
  PROVE  LET r == [q EXCEPT ![n] = x]
         IN  /\ r \in Seq(T) /\ Len(r) = Len(q) /\ DOMAIN r = DOMAIN q
             /\ r[n] = x
             /\ \A m \in DOMAIN q : m # n => r[m] = q[m]
OBVIOUS

LEMMA FunctionIsSeq ==
  ASSUME NEW T, NEW k \in Nat, NEW f \in [1 .. k -> T]
  PROVE  f \in Seq(T) /\ Len(f) = k
OBVIOUS

LEMMA SeqDomain ==
  ASSUME NEW T, NEW q \in Seq(T)
  PROVE  DOMAIN q = 1 .. Len(q) /\ Len(q) \in Nat
OBVIOUS

-------------------------------------------------------------------------------
(* Types *)

\* TypeOK, with the answers a client has as many as its edits.
Typed ==
  /\ TypeOK
  /\ \A c \in Clients : Len(told[c]) = Len(intents[c])

\* What the service and a client know of an asked edit has its type.
LEMMA EditTyped ==
  ASSUME Typed, NEW c \in Clients, NEW n \in DOMAIN intents[c]
  PROVE  /\ intents[c][n] \in Intent /\ RequestOf(c, n) \in Request
         /\ intents[c][n].key \in Keys
         /\ <<ActorOf[c], intents[c][n].key>> \in Actors \X Keys
         /\ ActorOf[c] \in Actors
         /\ Row(c, n) \in {None} \cup StoredRow
         /\ told[c][n] \in Answer /\ n \in DOMAIN told[c]
         /\ n \in 1 .. Len(intents[c])
<1>1. intents[c] \in Seq(Intent) /\ told[c] \in Seq(Answer)
  BY DEF Typed, TypeOK
<1>2. n \in DOMAIN told[c]
  BY DEF Typed, TypeOK
<1>3. intents[c][n] \in Intent /\ told[c][n] \in Answer /\ n \in 1 .. Len(intents[c])
  BY <1>1, <1>2
<1>4. ActorOf[c] \in Actors
  BY ConstantsAssumption
<1>5. RequestOf(c, n) \in Request /\ intents[c][n].key \in Keys
  BY <1>3 DEF Intent, RequestOf
<1>6. <<ActorOf[c], intents[c][n].key>> \in Actors \X Keys
  BY <1>4, <1>5
<1>7. rows \in [Actors \X Keys -> {None} \cup StoredRow]
  BY DEF Typed, TypeOK
<1> QED
  BY <1>2, <1>3, <1>4, <1>5, <1>6, <1>7 DEF Row

LEMMA StoredRowFields ==
  ASSUME NEW row \in StoredRow
  PROVE  /\ row # None
         /\ row.request \in Request /\ row.response \in Response
         /\ row.response.version \in Nat /\ row.response.run \in Nat
BY NoneAssumption DEF StoredRow, Response

LEMMA RequestFields ==
  ASSUME NEW request \in Request
  PROVE  request.asset \in Nat /\ request.base \in Nat /\ request.content \in Contents
BY DEF Request

\* An edit that is saved, refused, denied or given up is not waiting.
LEMMA Answers ==
  /\ Waiting \in Answer /\ Refused \in Answer /\ Denied \in Answer
  /\ Abandoned \in Answer
  /\ \A response \in Response : Accepted(response) \in Answer
  /\ Waiting.outcome = "waiting" /\ Refused.outcome = "refused"
  /\ Denied.outcome = "denied" /\ Abandoned.outcome = "abandoned"
  /\ \A response : /\ Accepted(response).outcome = "saved"
                   /\ Accepted(response).response = response
<1>1. \A response \in Response :
        Accepted(response) \in [outcome : {"saved"}, response : Response]
  BY DEF Accepted
<1>2. \A response : /\ Accepted(response).outcome = "saved"
                    /\ Accepted(response).response = response
  BY DEF Accepted
<1>3. /\ Waiting.outcome = "waiting" /\ Refused.outcome = "refused"
      /\ Denied.outcome = "denied" /\ Abandoned.outcome = "abandoned"
  BY DEF Waiting, Refused, Denied, Abandoned
<1> QED
  BY <1>1, <1>2, <1>3 DEF Answer

LEMMA SavedAnswer ==
  ASSUME NEW answer \in Answer, answer.outcome = "saved"
  PROVE  answer.response \in Response
BY DEF Answer, Waiting, Refused, Denied, Abandoned

\* What an answer that arrives does to what the clients know.
Learned(c, n, answer) ==
  \A d \in Clients : \A m \in DOMAIN told[d] :
    told'[d][m] = IF d = c /\ m = n /\ told[d][m] = Waiting THEN answer
                  ELSE told[d][m]

\* What an arriving answer does to the versions the clients have in hand.
Seen(c, answer) ==
  \/ view' = view
  \/ /\ answer.outcome = "saved"
     /\ view' = [view EXCEPT ![c][versions'[answer.response.version].asset] =
                   answer.response.version]

LEMMA ToldTyped ==
  ASSUME Typed, NEW c \in Clients, NEW n \in DOMAIN intents[c], NEW answer \in Answer,
         told' = [told EXCEPT ![c][n] = IF @ = Waiting THEN answer ELSE @]
  PROVE  /\ told' \in [Clients -> Seq(Answer)]
         /\ \A d \in Clients : Len(told'[d]) = Len(told[d])
         /\ \A d \in Clients : DOMAIN told'[d] = DOMAIN told[d]
         /\ Learned(c, n, answer)
<1> DEFINE x == IF told[c][n] = Waiting THEN answer ELSE told[c][n]
<1>1. told \in [Clients -> Seq(Answer)] /\ told[c] \in Seq(Answer) /\ n \in DOMAIN told[c]
  BY EditTyped DEF Typed, TypeOK
<1>2. told' = [told EXCEPT ![c] = [told[c] EXCEPT ![n] = x]]
  OBVIOUS
<1>3. x \in Answer
  BY EditTyped
<1> HIDE DEF x
<1>4. /\ [told[c] EXCEPT ![n] = x] \in Seq(Answer)
      /\ Len([told[c] EXCEPT ![n] = x]) = Len(told[c])
      /\ DOMAIN [told[c] EXCEPT ![n] = x] = DOMAIN told[c]
      /\ [told[c] EXCEPT ![n] = x][n] = x
      /\ \A m \in DOMAIN told[c] : m # n => [told[c] EXCEPT ![n] = x][m] = told[c][m]
  BY <1>1, <1>3, ReplaceInSeq
<1>5. /\ told' \in [Clients -> Seq(Answer)]
      /\ told'[c] = [told[c] EXCEPT ![n] = x]
      /\ \A d \in Clients : d # c => told'[d] = told[d]
  BY <1>1, <1>2, <1>4
<1>6. Learned(c, n, answer)
  BY <1>4, <1>5 DEF Learned, x
<1> QED
  BY <1>4, <1>5, <1>6

LEMMA NetTyped ==
  ASSUME Typed, NEW c \in Clients, NEW n \in 1 .. MaxIntents,
         NEW k \in Nat, net' = [net EXCEPT ![c][n] = k]
  PROVE  net' \in [Clients -> [1 .. MaxIntents -> Nat]]
BY DEF Typed, TypeOK

\* Everything a client may learn from a copy that was handled.
LEMMA AnsweredEffect ==
  ASSUME Typed, NEW c \in Clients, NEW n \in 1 .. MaxIntents, Arrives(c, n),
         NEW answer \in Answer, Answered(c, n, answer)
  PROVE  /\ told' \in [Clients -> Seq(Answer)]
         /\ \A d \in Clients : /\ Len(told'[d]) = Len(told[d])
                               /\ DOMAIN told'[d] = DOMAIN told[d]
         /\ net' \in [Clients -> [1 .. MaxIntents -> Nat]]
         /\ faults' \in Nat
         /\ Learned(c, n, answer) \/ told' = told
         /\ Seen(c, answer)
<1>1. n \in DOMAIN intents[c]
  BY DEF Arrives
<1>2. net' \in [Clients -> [1 .. MaxIntents -> Nat]]
  <2>1. net[c][n] - 1 \in Nat
    <3>1. net[c][n] \in Nat /\ net[c][n] > 0
      BY DEF Arrives, Typed, TypeOK
    <3> QED
      BY <3>1
  <2>2. net' = [net EXCEPT ![c][n] = net[c][n] - 1]
    BY DEF Answered, Typed, TypeOK
  <2> QED
    BY <2>1, <2>2, NetTyped
<1>3. CASE told' = told /\ view' = view /\ faults' = faults + 1
  BY <1>2, <1>3 DEF Seen, Typed, TypeOK
<1>4. CASE /\ told' = [told EXCEPT ![c][n] = IF @ = Waiting THEN answer ELSE @]
           /\ view' = IF told[c][n] = Waiting /\ answer.outcome = "saved"
                      THEN [view EXCEPT ![c][versions'[answer.response.version].asset] =
                              answer.response.version]
                      ELSE view
           /\ faults' = faults
  <2>1. Seen(c, answer)
    BY <1>4 DEF Seen
  <2>2. faults' \in Nat
    BY <1>4 DEF Typed, TypeOK
  <2> QED
    BY <1>1, <1>2, <1>4, <2>1, <2>2, ToldTyped
<1> QED
  BY <1>3, <1>4 DEF Answered

LEMMA SeenTyped ==
  ASSUME Typed, NEW c \in Clients, NEW answer \in Answer, Seen(c, answer)
  PROVE  view' \in [Clients -> [AssetIds -> Nat]]
<1>1. view \in [Clients -> [AssetIds -> Nat]]
  BY DEF Typed, TypeOK
<1>2. CASE answer.outcome = "saved"
  <2>1. answer.response.version \in Nat
    BY <1>2, SavedAnswer DEF Response
  <2> QED
    BY <1>1, <2>1 DEF Seen
<1> QED
  BY <1>1, <1>2 DEF Seen

-------------------------------------------------------------------------------
(* What schedule() does to the assets and the runs *)

Retires(a, r) == a \in DOMAIN assets /\ r = assets[a].run

\* Every run r of old is in its place, and stale if it was or a retires it.
RunsRetired(a, old, new) ==
  \A r \in DOMAIN old :
    /\ new[r].version = old[r].version
    /\ new[r].stale <=> old[r].stale \/ Retires(a, r)

LEMMA RetireTyped ==
  ASSUME Typed, NEW a
  PROVE  LET kept == [r \in DOMAIN runs |->
                        IF a \in DOMAIN assets /\ r = assets[a].run
                        THEN [runs[r] EXCEPT !.stale = TRUE] ELSE runs[r]]
         IN  /\ kept \in Seq(Run) /\ Len(kept) = Len(runs)
             /\ DOMAIN kept = DOMAIN runs
             /\ RunsRetired(a, runs, kept)
<1> DEFINE new(r) == IF a \in DOMAIN assets /\ r = assets[a].run
                     THEN [runs[r] EXCEPT !.stale = TRUE] ELSE runs[r]
           kept == [r \in DOMAIN runs |-> new(r)]
<1>1. runs \in Seq(Run)
  BY DEF Typed, TypeOK
<1>2. DOMAIN runs = 1 .. Len(runs) /\ Len(runs) \in Nat
  BY <1>1
<1>3. ASSUME NEW r \in DOMAIN runs
      PROVE  /\ new(r) \in Run
             /\ new(r).version = runs[r].version
             /\ new(r).stale <=> runs[r].stale \/ Retires(a, r)
  <2>1. runs[r] \in Run
    BY <1>1
  <2>2. CASE Retires(a, r)
    <3>1. new(r) = [runs[r] EXCEPT !.stale = TRUE]
      BY <2>2 DEF Retires
    <3> HIDE DEF new
    <3>2. new(r) \in Run /\ new(r).version = runs[r].version /\ new(r).stale
      BY <2>1, <3>1 DEF Run
    <3> QED
      BY <2>2, <3>2
  <2>3. CASE ~Retires(a, r)
    <3>1. new(r) = runs[r]
      BY <2>3 DEF Retires
    <3> HIDE DEF new
    <3> QED
      BY <2>1, <2>3, <3>1
  <2> QED
    BY <2>2, <2>3
<1> HIDE DEF new
<1>4. kept \in [1 .. Len(runs) -> Run] /\ DOMAIN kept = DOMAIN runs
  BY <1>2, <1>3
<1>5. RunsRetired(a, runs, kept)
  BY <1>3 DEF RunsRetired
<1>6. kept \in Seq(Run) /\ Len(kept) = Len(runs)
  BY <1>2, <1>4, FunctionIsSeq
<1> QED
  BY <1>4, <1>5, <1>6 DEF new

LEMMA ScheduledRuns ==
  ASSUME Typed, NEW a, NEW v \in Nat, Scheduled(a, v)
  PROVE  /\ runs' \in Seq(Run)
         /\ DOMAIN runs' = DOMAIN runs \cup {Len(runs) + 1}
         /\ runs'[Len(runs) + 1].version = v /\ ~runs'[Len(runs) + 1].stale
         /\ RunsRetired(a, runs, runs')
<1> DEFINE kept == [r \in DOMAIN runs |->
                      IF a \in DOMAIN assets /\ r = assets[a].run
                      THEN [runs[r] EXCEPT !.stale = TRUE] ELSE runs[r]]
           new == [version |-> v, stale |-> FALSE]
<1>1. runs' = Append(kept, new)
  BY DEF Scheduled
<1>2. /\ kept \in Seq(Run) /\ Len(kept) = Len(runs)
      /\ DOMAIN kept = DOMAIN runs
      /\ RunsRetired(a, runs, kept)
  BY RetireTyped
<1>3. new \in Run /\ new.version = v /\ ~new.stale
  BY DEF Run
<1> HIDE DEF kept, new
<1>4. /\ Append(kept, new) \in Seq(Run)
      /\ DOMAIN Append(kept, new) = DOMAIN kept \cup {Len(kept) + 1}
      /\ Append(kept, new)[Len(kept) + 1] = new
      /\ \A i \in DOMAIN kept : Append(kept, new)[i] = kept[i]
  BY <1>2, <1>3, AppendToSeq
<1> QED
  BY <1>1, <1>2, <1>3, <1>4 DEF RunsRetired

LEMMA ScheduledAssets ==
  ASSUME Typed, NEW a \in 1 .. Len(assets) + 1, NEW v \in Nat, Scheduled(a, v)
  PROVE  /\ assets' \in Seq(Asset)
         /\ DOMAIN assets' = DOMAIN assets \cup {a}
         /\ Len(assets') = IF a \in DOMAIN assets THEN Len(assets) ELSE Len(assets) + 1
         /\ assets'[a].latest = v /\ assets'[a].run = Len(runs) + 1
         /\ \A b \in DOMAIN assets : b # a => assets'[b] = assets[b]
<1> DEFINE new == [latest |-> v, run |-> Len(runs) + 1]
<1>1. assets \in Seq(Asset) /\ runs \in Seq(Run)
  BY DEF Typed, TypeOK
<1>2. DOMAIN assets = 1 .. Len(assets) /\ Len(assets) \in Nat /\ Len(runs) \in Nat
  BY <1>1, SeqDomain
<1>3. new \in Asset /\ new.latest = v /\ new.run = Len(runs) + 1
  BY <1>2 DEF Asset
<1>4. assets' = IF a \in DOMAIN assets THEN [assets EXCEPT ![a] = new]
                                       ELSE Append(assets, new)
  BY DEF Scheduled
<1> HIDE DEF new
<1>5. CASE a \in DOMAIN assets
  <2>1. assets' = [assets EXCEPT ![a] = new]
    BY <1>4, <1>5
  <2>2. /\ assets' \in Seq(Asset) /\ Len(assets') = Len(assets)
        /\ DOMAIN assets' = DOMAIN assets /\ assets'[a] = new
        /\ \A b \in DOMAIN assets : b # a => assets'[b] = assets[b]
    BY <1>1, <1>3, <1>5, <2>1, ReplaceInSeq
  <2> QED
    BY <1>3, <1>5, <2>2
<1>6. CASE a \notin DOMAIN assets
  <2>1. a = Len(assets) + 1 /\ assets' = Append(assets, new)
    <3>1. a = Len(assets) + 1
      BY <1>2, <1>6
    <3>2. assets' = Append(assets, new)
      BY <1>4, <1>6
    <3> QED
      BY <3>1, <3>2
  <2>2. /\ assets' \in Seq(Asset) /\ Len(assets') = Len(assets) + 1
        /\ DOMAIN assets' = DOMAIN assets \cup {Len(assets) + 1}
        /\ assets'[Len(assets) + 1] = new
        /\ \A b \in DOMAIN assets : assets'[b] = assets[b]
    BY <1>1, <1>3, <2>1, AppendToSeq
  <2> QED
    BY <1>3, <1>6, <2>1, <2>2
<1> QED
  BY <1>5, <1>6

-------------------------------------------------------------------------------
(* The inductive invariant *)

\* Versions belong to assets and runs to versions, and no asset is without one.
Referenced ==
  /\ Len(assets) <= Len(versions)
  /\ \A v \in DOMAIN versions : versions[v].asset \in DOMAIN assets
  /\ \A r \in DOMAIN runs : runs[r].version \in DOMAIN versions

\* OneChainPerAsset, in parts.
Before(S, v) == {w \in S : w < v}

Linked(version, earlier) ==
  /\ version.ordinal = Cardinality(earlier) + 1
  /\ IF earlier = {} THEN version.previous = 0
     ELSE /\ version.previous \in earlier
          /\ \A w \in earlier : w <= version.previous

Chained(a) ==
  /\ assets[a].latest \in VersionsOf(a)
  /\ \A v \in VersionsOf(a) :
       v <= assets[a].latest /\ Linked(versions[v], Before(VersionsOf(a), v))

Assessed(a) ==
  assets[a].run \in DOMAIN runs /\ runs[assets[a].run].version = assets[a].latest

StaleUnlessCurrent(r) ==
  runs[r].stale <=> r # assets[versions[runs[r].version].asset].run

ChainsOK ==
  /\ \A a \in DOMAIN assets : Chained(a) /\ Assessed(a)
  /\ \A r \in DOMAIN runs : StaleUnlessCurrent(r)

LEMMA OneChain == OneChainPerAsset <=> ChainsOK
BY DEF OneChainPerAsset, ChainsOK, Chained, Assessed, StaleUnlessCurrent, Linked, Before

\* What a client has in hand, or builds an edit on, is a version of that asset.
Grounded(request) ==
  \/ request.asset = 0 /\ request.base = 0
  \/ request.asset \in AssetIds /\ request.base \in VersionsOf(request.asset)

EditsGrounded ==
  \A c \in Clients : \A n \in DOMAIN intents[c] : Grounded(RequestOf(c, n))

ViewsGrounded ==
  \A c \in Clients : \A a \in AssetIds :
    view[c][a] # 0 => view[c][a] \in VersionsOf(a)

\* A row of the idempotency table tells of a version that is what some client
\* asked for under its key; there is exactly one row for every version.
Key(c, n) == <<ActorOf[c], intents[c][n].key>>

RowTrue(k) ==
  LET row == rows[k]
  IN  /\ Fulfils(row.response.version, k[1], row.request)
      /\ row.response.run \in DOMAIN runs
      /\ runs[row.response.run].version = row.response.version
      /\ \E c \in Clients : \E n \in DOMAIN intents[c] :
           Key(c, n) = k /\ RequestOf(c, n) = row.request

RowsTrue == \A k \in Actors \X Keys : rows[k] # None => RowTrue(k)

RowFor(v, k) == rows[k] # None /\ rows[k].response.version = v

RowsUnique ==
  /\ \A v \in DOMAIN versions : \E k \in Actors \X Keys : RowFor(v, k)
  /\ \A j, k \in Actors \X Keys :
       rows[j] # None /\ rows[k] # None
         /\ rows[j].response.version = rows[k].response.version => j = k

\* A client is told of the row of its key, and no for good.
Doomed(c, n) ==
  \/ Row(c, n) # None /\ Row(c, n).request # RequestOf(c, n)
  \/ Row(c, n) = None /\ ~Admissible(RequestOf(c, n))

ToldTrue(c, n) ==
  /\ told[c][n].outcome = "saved" =>
       /\ Row(c, n) # None /\ Row(c, n).request = RequestOf(c, n)
       /\ Row(c, n).response = told[c][n].response
  /\ told[c][n] = Refused => Doomed(c, n)

AllToldTrue == \A c \in Clients : \A n \in DOMAIN told[c] : ToldTrue(c, n)

AskedBounded == IsFiniteSet(Asked) /\ Cardinality(Asked) <= MaxIntents

IInv ==
  /\ Typed
  /\ Referenced
  /\ ChainsOK
  /\ EditsGrounded
  /\ ViewsGrounded
  /\ RowsTrue
  /\ RowsUnique
  /\ AllToldTrue
  /\ AskedBounded

-------------------------------------------------------------------------------
(* What a save does *)

LEMMA OrdinalNat ==
  ASSUME Typed, NEW a
  PROVE  NextOrdinal(a) \in Nat /\ NextOrdinal(a) = Cardinality(VersionsOf(a)) + 1
<1>1. DOMAIN versions = 1 .. Len(versions) /\ Len(versions) \in Nat
  BY SeqDomain DEF Typed, TypeOK
<1>2. IsFiniteSet(1 .. Len(versions))
  BY <1>1, FS_Interval
<1>3. VersionsOf(a) \in SUBSET (1 .. Len(versions))
  BY <1>1 DEF VersionsOf
<1>4. IsFiniteSet(VersionsOf(a))
  BY <1>2, <1>3, FS_Subset
<1>5. Cardinality(VersionsOf(a)) \in Nat
  BY <1>4, FS_CardinalityType
<1>6. NextOrdinal(a) = Cardinality(VersionsOf(a)) + 1
  BY DEF NextOrdinal, VersionsOf
<1> QED
  BY <1>5, <1>6

\* The base an admitted edit names is the latest version of its asset.
LEMMA GroundedTarget ==
  ASSUME Typed, Referenced, ChainsOK, NEW request \in Request, Grounded(request),
         request.asset # 0
  PROVE  /\ KnownAsset(request) /\ request.asset \in DOMAIN assets
         /\ Target(request) = request.asset
         /\ Latest(request) = assets[request.asset].latest
         /\ assets[request.asset].latest \in VersionsOf(request.asset)
         /\ request.base \in VersionsOf(request.asset)
         /\ request.base <= assets[request.asset].latest
<1>1. request.base \in VersionsOf(request.asset)
  BY DEF Grounded
<1>2. request.asset \in DOMAIN assets
  BY <1>1 DEF VersionsOf, Referenced
<1>3. Chained(request.asset)
  BY <1>2 DEF ChainsOK
<1> QED
  BY <1>1, <1>2, <1>3 DEF KnownAsset, Target, Latest, Chained

LEMMA NewTarget ==
  ASSUME Typed, Referenced, NEW request \in Request, request.asset = 0
  PROVE  /\ ~KnownAsset(request) /\ Latest(request) = 0
         /\ Target(request) = Len(assets) + 1
         /\ Target(request) \notin DOMAIN assets
         /\ VersionsOf(Target(request)) = {}
<1>1. DOMAIN assets = 1 .. Len(assets) /\ Len(assets) \in Nat
  BY SeqDomain DEF Typed, TypeOK
<1>2. Target(request) = Len(assets) + 1 /\ Latest(request) = 0
  BY DEF Target, KnownAsset, Latest
<1>3. Target(request) \notin DOMAIN assets
  BY <1>1, <1>2
<1>4. VersionsOf(Target(request)) = {}
  BY <1>3 DEF VersionsOf, Referenced
<1> QED
  BY <1>2, <1>3, <1>4 DEF KnownAsset

\* The target of an edit is an asset, or the next one.
LEMMA TargetRange ==
  ASSUME Typed, Referenced, ChainsOK, NEW request \in Request, Grounded(request)
  PROVE  Target(request) \in 1 .. Len(assets) + 1 /\ Latest(request) \in Nat
<1>1. /\ DOMAIN assets = 1 .. Len(assets) /\ Len(assets) \in Nat
      /\ assets \in Seq(Asset)
  BY SeqDomain DEF Typed, TypeOK
<1>2. CASE request.asset = 0
  BY <1>1, <1>2, NewTarget
<1>3. CASE request.asset # 0
  <2>1. /\ request.asset \in DOMAIN assets
        /\ Target(request) = request.asset
        /\ Latest(request) = assets[request.asset].latest
    BY <1>3, GroundedTarget
  <2>2. assets[request.asset] \in Asset
    BY <1>1, <2>1
  <2> QED
    BY <1>1, <2>1, <2>2 DEF Asset
<1> QED
  BY <1>2, <1>3

\* The new version, its row and what else the transaction of a save writes.
SavesVersion(a, v, request, p) ==
  /\ versions' \in Seq(Version)
  /\ v = Len(versions) + 1 /\ Len(versions') = Len(versions) + 1
  /\ DOMAIN versions' = DOMAIN versions \cup {v} /\ v \notin DOMAIN versions
  /\ \A w \in DOMAIN versions : versions'[w] = versions[w] /\ w < v
  /\ versions'[v].asset = a /\ versions'[v].previous = Latest(request)
  /\ versions'[v].ordinal = Cardinality(VersionsOf(a)) + 1
  /\ versions'[v].content = request.content /\ versions'[v].by = p

SavesRow(k, request, v, r) ==
  /\ rows' \in [Actors \X Keys -> {None} \cup StoredRow]
  /\ rows[k] = None /\ rows'[k] # None
  /\ rows'[k].request = request
  /\ rows'[k].response.version = v /\ rows'[k].response.run = r
  /\ \A j \in Actors \X Keys : j # k => rows'[j] = rows[j]

LEMMA SaveEffect ==
  ASSUME IInv, NEW c \in Clients, NEW n \in 1 .. MaxIntents, Save(c, n)
  PROVE  LET request == RequestOf(c, n)
             a == Target(request)
             v == Len(versions) + 1
             r == Len(runs) + 1
         IN  /\ n \in DOMAIN intents[c] /\ Arrives(c, n)
             /\ request \in Request /\ Grounded(request) /\ Admissible(request)
             /\ a \in 1 .. Len(assets) + 1 /\ v \in Nat
             /\ Key(c, n) \in Actors \X Keys
             /\ SavesVersion(a, v, request, ActorOf[c])
             /\ Scheduled(a, v)
             /\ SavesRow(Key(c, n), request, v, r)
             /\ rows'[Key(c, n)].response = [version |-> v, run |-> r]
             /\ [version |-> v, run |-> r] \in Response
             /\ Answered(c, n, Accepted([version |-> v, run |-> r]))
             /\ UNCHANGED <<active, intents>>
<1> DEFINE request == RequestOf(c, n)
           a == Target(request)
           v == Len(versions) + 1
           r == Len(runs) + 1
           k == Key(c, n)
           response == [version |-> v, run |-> r]
           version == [asset |-> a, ordinal |-> NextOrdinal(a),
                       previous |-> Latest(request), content |-> request.content,
                       by |-> ActorOf[c]]
           row == [request |-> request, response |-> response]
<1>1. n \in DOMAIN intents[c] /\ Arrives(c, n)
  BY DEF Save, Arrives
<1>2. /\ request \in Request /\ ActorOf[c] \in Actors /\ k \in Actors \X Keys
      /\ Grounded(request)
  BY <1>1, EditTyped DEF IInv, EditsGrounded, Key
<1>3. /\ Admissible(request) /\ rows[k] = None /\ Scheduled(a, v)
      /\ versions' = Append(versions, version)
      /\ rows' = [rows EXCEPT ![k] = row]
      /\ Answered(c, n, Accepted(response))
      /\ UNCHANGED <<active, intents>>
  BY DEF Save, Row, Key
<1>4. /\ versions \in Seq(Version) /\ Len(versions) \in Nat /\ Len(runs) \in Nat
      /\ DOMAIN versions = 1 .. Len(versions)
      /\ rows \in [Actors \X Keys -> {None} \cup StoredRow]
  BY SeqDomain DEF IInv, Typed, TypeOK
<1>5. a \in 1 .. Len(assets) + 1 /\ a \in Nat /\ Latest(request) \in Nat
  BY <1>2, TargetRange DEF IInv
<1>6. NextOrdinal(a) \in Nat /\ NextOrdinal(a) = Cardinality(VersionsOf(a)) + 1
  BY OrdinalNat DEF IInv
<1>7. request.content \in Contents
  BY <1>2, RequestFields
<1>8. /\ version \in Version
      /\ version.asset = a /\ version.previous = Latest(request)
      /\ version.ordinal = NextOrdinal(a)
      /\ version.content = request.content /\ version.by = ActorOf[c]
  <2> HIDE DEF request, a
  <2> QED
    BY <1>2, <1>5, <1>6, <1>7 DEF Version
<1>9. v \in Nat /\ r \in Nat /\ response \in Response
  BY <1>4 DEF Response
<1>10. row \in StoredRow /\ row.request = request /\ row.response = response
  <2> HIDE DEF request, response
  <2> QED
    BY <1>2, <1>9 DEF StoredRow
<1>11. response.version = v /\ response.run = r
  OBVIOUS
<1> HIDE DEF request, a, k, response, version, row
<1>12. SavesVersion(a, v, request, ActorOf[c])
  <2>1. /\ versions' \in Seq(Version) /\ Len(versions') = Len(versions) + 1
        /\ DOMAIN versions' = DOMAIN versions \cup {v}
        /\ versions'[v] = version
        /\ \A w \in DOMAIN versions : versions'[w] = versions[w]
    BY <1>3, <1>4, <1>8, AppendToSeq
  <2>2. v \notin DOMAIN versions /\ \A w \in DOMAIN versions : w < v
    BY <1>4
  <2> QED
    BY <1>6, <1>8, <2>1, <2>2 DEF SavesVersion
<1>13. SavesRow(k, request, v, r) /\ rows'[k] = row
  <2>1. row # None
    BY <1>10, StoredRowFields
  <2>2. /\ rows' \in [Actors \X Keys -> {None} \cup StoredRow]
        /\ rows'[k] = row
        /\ \A j \in Actors \X Keys : j # k => rows'[j] = rows[j]
    BY <1>2, <1>3, <1>4, <1>10
  <2> QED
    BY <1>3, <1>10, <1>11, <2>1, <2>2 DEF SavesRow
<1> QED
  BY <1>1, <1>2, <1>3, <1>5, <1>9, <1>10, <1>12, <1>13
  DEF request, a, k, response

-------------------------------------------------------------------------------
(* Every save and reassessment keeps one chain per asset *)

\* Versions are never changed.
VersionsKept ==
  \A w \in DOMAIN versions : w \in DOMAIN versions' /\ versions'[w] = versions[w]

\* The new run is its asset's, the run it replaces is stale, the others stay.
LEMMA ScheduledChains ==
  ASSUME Typed, Referenced, ChainsOK, VersionsKept,
         NEW a \in 1 .. Len(assets) + 1, NEW v \in Nat, Scheduled(a, v),
         v \in DOMAIN versions', versions'[v].asset = a,
         NEW new, new = Len(runs) + 1
  PROVE  /\ \A b \in DOMAIN assets' : Assessed(b)'
         /\ \A r \in DOMAIN runs' : /\ StaleUnlessCurrent(r)'
                                    /\ runs'[r].version \in DOMAIN versions'
<1>1. /\ DOMAIN runs' = DOMAIN runs \cup {new}
      /\ runs'[new].version = v /\ ~runs'[new].stale
      /\ RunsRetired(a, runs, runs')
  BY ScheduledRuns
<1>2. /\ DOMAIN assets' = DOMAIN assets \cup {a}
      /\ assets'[a].latest = v /\ assets'[a].run = new
      /\ \A b \in DOMAIN assets : b # a => assets'[b] = assets[b]
  BY ScheduledAssets
<1>3. new \notin DOMAIN runs
  <2>1. DOMAIN runs = 1 .. Len(runs) /\ Len(runs) \in Nat
    BY SeqDomain DEF Typed, TypeOK
  <2> QED
    BY <2>1
<1>4. ASSUME NEW b \in DOMAIN assets'
      PROVE  Assessed(b)'
  <2>1. CASE b = a
    BY <1>1, <1>2, <2>1 DEF Assessed
  <2>2. CASE b # a
    <3>1. b \in DOMAIN assets /\ assets'[b] = assets[b]
      BY <1>2, <2>2
    <3>2. Assessed(b)
      BY <3>1 DEF ChainsOK
    <3> QED
      BY <1>1, <3>1, <3>2 DEF Assessed, RunsRetired
  <2> QED
    BY <2>1, <2>2
<1>5. StaleUnlessCurrent(new)' /\ runs'[new].version \in DOMAIN versions'
  BY <1>1, <1>2 DEF StaleUnlessCurrent
<1>6. ASSUME NEW r \in DOMAIN runs
      PROVE  StaleUnlessCurrent(r)' /\ runs'[r].version \in DOMAIN versions'
  <2> DEFINE w == runs[r].version
             b == versions[w].asset
  <2>1. /\ w \in DOMAIN versions /\ b \in DOMAIN assets /\ StaleUnlessCurrent(r)
        /\ Chained(b) /\ Assessed(b)
    BY DEF Referenced, ChainsOK
  <2>2. /\ runs'[r].version = w
        /\ runs'[r].stale <=> runs[r].stale \/ Retires(a, r)
    BY <1>1 DEF RunsRetired
  <2>3. w \in DOMAIN versions' /\ versions'[w].asset = b
    BY <2>1 DEF VersionsKept
  <2>4. runs[r].stale <=> r # assets[b].run
    BY <2>1 DEF StaleUnlessCurrent
  <2>5. CASE b = a
    <3>1. runs'[r].stale
      BY <2>1, <2>2, <2>4, <2>5 DEF Retires
    <3>2. r # assets'[b].run
      BY <1>2, <1>3, <2>5
    <3> QED
      BY <2>2, <2>3, <3>1, <3>2 DEF StaleUnlessCurrent
  <2>6. CASE b # a
    <3>1. ~Retires(a, r)
      <4> SUFFICES ASSUME a \in DOMAIN assets, r = assets[a].run
                   PROVE  FALSE
        BY DEF Retires
      <4>1. Chained(a) /\ Assessed(a)
        BY DEF ChainsOK
      <4>2. w \in VersionsOf(a)
        BY <4>1 DEF Chained, Assessed
      <4> QED
        BY <2>6, <4>2 DEF VersionsOf
    <3>2. assets'[b].run = assets[b].run
      BY <1>2, <2>1, <2>6
    <3> QED
      BY <2>2, <2>3, <2>4, <3>1, <3>2 DEF StaleUnlessCurrent
  <2> QED
    BY <2>2, <2>3, <2>5, <2>6
<1> QED
  BY <1>1, <1>4, <1>5, <1>6

LEMMA SaveVersionsOf ==
  ASSUME NEW a, NEW v, NEW request, NEW p, SavesVersion(a, v, request, p)
  PROVE  /\ VersionsKept
         /\ VersionsOf(a)' = VersionsOf(a) \cup {v}
         /\ \A b : b # a => VersionsOf(b)' = VersionsOf(b)
BY DEF SavesVersion, VersionsKept, VersionsOf

\* The version a new one of asset a follows.
LEMMA Predecessor ==
  ASSUME IInv, NEW request \in Request, Grounded(request),
         NEW a, a = Target(request)
  PROVE  /\ VersionsOf(a) \subseteq DOMAIN versions
         /\ IF VersionsOf(a) = {} THEN Latest(request) = 0
            ELSE /\ Latest(request) \in VersionsOf(a)
                 /\ \A w \in VersionsOf(a) : w <= Latest(request)
         /\ VersionsOf(a) # {} => a \in DOMAIN assets
<1>1. VersionsOf(a) \subseteq DOMAIN versions
  BY DEF VersionsOf
<1>2. VersionsOf(a) # {} => a \in DOMAIN assets
  BY DEF VersionsOf, IInv, Referenced
<1>3. CASE request.asset = 0
  BY <1>1, <1>3, NewTarget DEF IInv
<1>4. CASE request.asset # 0
  <2>1. a \in DOMAIN assets /\ Latest(request) = assets[a].latest
    BY <1>4, GroundedTarget DEF IInv
  <2>2. Chained(a)
    BY <2>1 DEF IInv, ChainsOK
  <2> QED
    BY <1>1, <1>2, <2>1, <2>2 DEF Chained
<1> QED
  BY <1>3, <1>4

LEMMA SavedChain ==
  ASSUME IInv, NEW request \in Request, Grounded(request), NEW p,
         NEW a \in 1 .. Len(assets) + 1, a = Target(request),
         NEW v \in Nat, SavesVersion(a, v, request, p), Scheduled(a, v)
  PROVE  Referenced' /\ ChainsOK'
<1>1. /\ DOMAIN versions' = DOMAIN versions \cup {v} /\ v \notin DOMAIN versions
      /\ v = Len(versions) + 1 /\ Len(versions') = Len(versions) + 1
      /\ \A w \in DOMAIN versions : versions'[w] = versions[w] /\ w < v
      /\ versions'[v].asset = a /\ versions'[v].previous = Latest(request)
      /\ versions'[v].ordinal = Cardinality(VersionsOf(a)) + 1
  BY DEF SavesVersion
<1>2. /\ VersionsKept
      /\ VersionsOf(a)' = VersionsOf(a) \cup {v}
      /\ \A b : b # a => VersionsOf(b)' = VersionsOf(b)
  BY SaveVersionsOf
<1>3. /\ DOMAIN assets' = DOMAIN assets \cup {a}
      /\ Len(assets') = IF a \in DOMAIN assets THEN Len(assets) ELSE Len(assets) + 1
      /\ assets'[a].latest = v
      /\ \A b \in DOMAIN assets : b # a => assets'[b] = assets[b]
  BY ScheduledAssets DEF IInv
<1>4. /\ \A b \in DOMAIN assets' : Assessed(b)'
      /\ \A r \in DOMAIN runs' : /\ StaleUnlessCurrent(r)'
                                 /\ runs'[r].version \in DOMAIN versions'
  BY <1>1, <1>2, ScheduledChains DEF IInv
<1>5. Referenced'
  <2>1. Len(assets') <= Len(versions')
    <3>1. Len(assets) <= Len(versions) /\ Len(assets) \in Nat /\ Len(versions) \in Nat
      BY SeqDomain DEF IInv, Referenced, Typed, TypeOK
    <3> QED
      BY <1>1, <1>3, <3>1
  <2>2. \A w \in DOMAIN versions' : versions'[w].asset \in DOMAIN assets'
    BY <1>1, <1>3 DEF IInv, Referenced
  <2> QED
    BY <1>4, <2>1, <2>2 DEF Referenced
<1>6. /\ VersionsOf(a) \subseteq DOMAIN versions
      /\ IF VersionsOf(a) = {} THEN Latest(request) = 0
         ELSE /\ Latest(request) \in VersionsOf(a)
              /\ \A w \in VersionsOf(a) : w <= Latest(request)
      /\ VersionsOf(a) # {} => a \in DOMAIN assets
  BY Predecessor
<1>7. ASSUME NEW b \in DOMAIN assets', b # a
      PROVE  Chained(b)'
  <2>1. b \in DOMAIN assets /\ assets'[b] = assets[b] /\ VersionsOf(b)' = VersionsOf(b)
    BY <1>2, <1>3, <1>7
  <2>2. Chained(b)
    BY <2>1 DEF IInv, ChainsOK
  <2>3. \A w \in VersionsOf(b) : versions'[w] = versions[w]
    BY <1>1 DEF VersionsOf
  <2> QED
    BY <2>1, <2>2, <2>3 DEF Chained
<1>8. Chained(a)'
  <2>1. assets'[a].latest \in VersionsOf(a)'
    BY <1>2, <1>3
  <2>2. \A x \in VersionsOf(a) : x \in Nat /\ x < v /\ versions'[x] = versions[x]
    <3>1. DOMAIN versions \subseteq Nat
      BY SeqDomain DEF IInv, Typed, TypeOK
    <3> QED
      BY <1>1, <1>6, <3>1
  <2>3. v <= assets'[a].latest /\ Linked(versions'[v], Before(VersionsOf(a)', v))
    <3>1. Before(VersionsOf(a)', v) = VersionsOf(a)
      BY <1>2, <2>2 DEF Before
    <3>2. Linked(versions'[v], VersionsOf(a))
      BY <1>1, <1>6 DEF Linked
    <3> QED
      BY <1>3, <3>1, <3>2
  <2>4. ASSUME NEW w \in VersionsOf(a)
        PROVE  w <= assets'[a].latest /\ Linked(versions'[w], Before(VersionsOf(a)', w))
    <3>1. Before(VersionsOf(a)', w) = Before(VersionsOf(a), w)
      BY <1>2, <2>2 DEF Before
    <3>2. Chained(a)
      BY <1>6 DEF IInv, ChainsOK
    <3> QED
      BY <1>3, <2>2, <3>1, <3>2 DEF Chained
  <2> QED
    BY <1>2, <2>1, <2>3, <2>4 DEF Chained
<1> QED
  BY <1>4, <1>5, <1>7, <1>8 DEF ChainsOK

LEMMA SaveChains ==
  ASSUME IInv, NEW c \in Clients, NEW n \in 1 .. MaxIntents, Save(c, n)
  PROVE  Referenced' /\ ChainsOK'
BY SaveEffect, SavedChain

LEMMA ReassessChains ==
  ASSUME IInv, NEW a \in AssetIds, Reassess(a)
  PROVE  /\ Referenced' /\ ChainsOK'
         /\ assets' \in Seq(Asset) /\ runs' \in Seq(Run)
         /\ DOMAIN assets' = DOMAIN assets
         /\ \A b \in DOMAIN assets : assets'[b].latest = assets[b].latest
         /\ \A r \in DOMAIN runs :
              r \in DOMAIN runs' /\ runs'[r].version = runs[r].version
<1> DEFINE v == assets[a].latest
<1>1. /\ assets \in Seq(Asset) /\ DOMAIN assets = 1 .. Len(assets)
      /\ Len(assets) \in Nat
  BY SeqDomain DEF IInv, Typed, TypeOK
<1>2. /\ a \in DOMAIN assets /\ Scheduled(a, v) /\ versions' = versions
  BY DEF Reassess
<1>3. Chained(a) /\ Assessed(a)
  BY <1>2 DEF IInv, ChainsOK
<1>4. v \in DOMAIN versions /\ versions[v].asset = a
  BY <1>3 DEF Chained, VersionsOf
<1>5. v \in Nat
  <2>1. assets[a] \in Asset
    BY <1>1, <1>2
  <2> QED
    BY <2>1 DEF Asset
<1>6. a \in 1 .. Len(assets) + 1
  BY <1>1, <1>2
<1> HIDE DEF v
<1>7. /\ assets' \in Seq(Asset) /\ DOMAIN assets' = DOMAIN assets \cup {a}
      /\ Len(assets') = Len(assets)
      /\ assets'[a].latest = v
      /\ \A b \in DOMAIN assets : b # a => assets'[b] = assets[b]
  BY <1>2, <1>5, <1>6, ScheduledAssets DEF IInv
<1>8. \A b \in DOMAIN assets : assets'[b].latest = assets[b].latest
  BY <1>7 DEF v
<1>9. /\ runs' \in Seq(Run) /\ RunsRetired(a, runs, runs')
      /\ DOMAIN runs' = DOMAIN runs \cup {Len(runs) + 1}
  BY <1>2, <1>5, ScheduledRuns DEF IInv
<1>10. VersionsKept
  BY <1>2 DEF VersionsKept
<1>11. /\ \A b \in DOMAIN assets' : Assessed(b)'
       /\ \A r \in DOMAIN runs' : /\ StaleUnlessCurrent(r)'
                                  /\ runs'[r].version \in DOMAIN versions'
  BY <1>2, <1>4, <1>5, <1>6, <1>10, ScheduledChains DEF IInv
<1>12. DOMAIN assets' = DOMAIN assets
  BY <1>2, <1>7
<1>13. ASSUME NEW b \in DOMAIN assets'
       PROVE  Chained(b)'
  <2>1. assets'[b].latest = assets[b].latest /\ VersionsOf(b)' = VersionsOf(b)
    BY <1>2, <1>8, <1>12 DEF VersionsOf
  <2>2. Chained(b)
    BY <1>12 DEF IInv, ChainsOK
  <2> QED
    BY <1>2, <2>1, <2>2 DEF Chained
<1>14. Referenced'
  BY <1>2, <1>7, <1>11, <1>12 DEF IInv, Referenced
<1> QED
  BY <1>7, <1>8, <1>9, <1>11, <1>12, <1>13, <1>14 DEF ChainsOK, RunsRetired

-------------------------------------------------------------------------------
(* What no step takes back *)

RunsKept ==
  \A r \in DOMAIN runs : r \in DOMAIN runs' /\ runs'[r].version = runs[r].version

RowsKept == \A k \in Actors \X Keys : rows[k] # None => rows'[k] = rows[k]

IntentsKept ==
  \A c \in Clients : \A n \in DOMAIN intents[c] :
    n \in DOMAIN intents'[c] /\ intents'[c][n] = intents[c][n]

LatestKept ==
  \A b \in DOMAIN assets : b \in DOMAIN assets' /\ assets'[b].latest = assets[b].latest

LEMMA ServiceKept ==
  ASSUME UNCHANGED service
  PROVE  VersionsKept /\ RunsKept /\ RowsKept /\ LatestKept
BY DEF service, VersionsKept, RunsKept, RowsKept, LatestKept

LEMMA ServiceInvKept ==
  ASSUME IInv, UNCHANGED service
  PROVE  Referenced' /\ ChainsOK' /\ RowsUnique'
<1>1. Referenced'
  BY DEF IInv, Referenced, service
<1>2. ChainsOK'
  BY DEF IInv, ChainsOK, Chained, Assessed, StaleUnlessCurrent, VersionsOf, service
<1>3. RowsUnique'
  BY DEF IInv, RowsUnique, RowFor, service
<1> QED
  BY <1>1, <1>2, <1>3

LEMMA GroundedKept ==
  ASSUME VersionsKept, NEW request, Grounded(request)
  PROVE  Grounded(request)'
BY DEF VersionsKept, Grounded, VersionsOf

LEMMA EditsGroundedKept ==
  ASSUME EditsGrounded, VersionsKept, intents' = intents
  PROVE  EditsGrounded'
<1> SUFFICES ASSUME NEW c \in Clients, NEW n \in DOMAIN intents[c]
             PROVE  Grounded(RequestOf(c, n))'
  BY DEF EditsGrounded
<1>1. Grounded(RequestOf(c, n))
  BY DEF EditsGrounded
<1>2. RequestOf(c, n)' = RequestOf(c, n)
  BY DEF RequestOf
<1> QED
  BY <1>1, <1>2 DEF VersionsKept, Grounded, VersionsOf

LEMMA ViewsGroundedKept ==
  ASSUME ViewsGrounded, VersionsKept, view' = view
  PROVE  ViewsGrounded'
BY DEF ViewsGrounded, VersionsKept, VersionsOf

LEMMA RowTrueKept ==
  ASSUME VersionsKept, RunsKept, IntentsKept,
         NEW k \in Actors \X Keys, RowTrue(k), rows'[k] = rows[k]
  PROVE  RowTrue(k)'
<1> DEFINE row == rows[k]
<1>1. /\ Fulfils(row.response.version, k[1], row.request)
      /\ row.response.run \in DOMAIN runs
      /\ runs[row.response.run].version = row.response.version
  BY DEF RowTrue
<1>2. Fulfils(row.response.version, k[1], row.request)'
  <2>1. /\ row.response.version \in DOMAIN versions'
        /\ versions'[row.response.version] = versions[row.response.version]
    BY <1>1 DEF Fulfils, VersionsKept
  <2> QED
    BY <1>1, <2>1 DEF Fulfils
<1>3. /\ row.response.run \in DOMAIN runs'
      /\ runs'[row.response.run].version = row.response.version
  BY <1>1 DEF RunsKept
<1>4. \E c \in Clients : \E n \in DOMAIN intents'[c] :
        Key(c, n)' = k /\ RequestOf(c, n)' = row.request
  <2>1. PICK c \in Clients : \E n \in DOMAIN intents[c] :
          Key(c, n) = k /\ RequestOf(c, n) = row.request
    BY DEF RowTrue
  <2>2. PICK n \in DOMAIN intents[c] : Key(c, n) = k /\ RequestOf(c, n) = row.request
    BY <2>1
  <2>3. n \in DOMAIN intents'[c] /\ intents'[c][n] = intents[c][n]
    BY DEF IntentsKept
  <2> QED
    BY <2>2, <2>3 DEF Key, RequestOf
<1> QED
  BY <1>2, <1>3, <1>4 DEF RowTrue

LEMMA RowsTrueKept ==
  ASSUME IInv, VersionsKept, RunsKept, IntentsKept, rows' = rows
  PROVE  RowsTrue'
<1> SUFFICES ASSUME NEW k \in Actors \X Keys, rows[k] # None
             PROVE  RowTrue(k)'
  BY DEF RowsTrue
<1> QED
  BY RowTrueKept DEF IInv, RowsTrue

LEMMA AdmissibleKept ==
  ASSUME IInv, LatestKept, NEW request \in Request, Grounded(request)
  PROVE  Admissible(request)' <=> Admissible(request)
<1>1. Latest(request)' = Latest(request)
  <2>1. CASE request.asset = 0
    BY <2>1 DEF Latest, KnownAsset
  <2>2. CASE request.asset # 0
    <3>1. /\ KnownAsset(request) /\ request.asset \in DOMAIN assets
          /\ Latest(request) = assets[request.asset].latest
      BY <2>2, GroundedTarget DEF IInv
    <3>2. Latest(request)' = assets'[request.asset].latest
      BY <2>2 DEF Latest, KnownAsset
    <3> QED
      BY <3>1, <3>2 DEF LatestKept
  <2> QED
    BY <2>1, <2>2
<1> QED
  BY <1>1 DEF Admissible, BaseIsLatest

\* What a client was told stays true while rows and latest versions stay.
LEMMA ToldTrueKept ==
  ASSUME IInv, LatestKept, rows' = rows,
         NEW c \in Clients, NEW n \in DOMAIN intents[c], ToldTrue(c, n),
         intents'[c][n] = intents[c][n], told'[c][n] = told[c][n],
         NEW request, request = RequestOf(c, n)
  PROVE  ToldTrue(c, n)'
<1>1. Row(c, n)' = Row(c, n) /\ RequestOf(c, n)' = request
  BY DEF Row, RequestOf
<1>2. request \in Request /\ Grounded(request)
  BY EditTyped DEF IInv, EditsGrounded
<1>3. Admissible(request)' <=> Admissible(request)
  BY <1>2, AdmissibleKept
<1>4. Admissible(RequestOf(c, n))' <=> Admissible(request)'
  BY <1>1 DEF Admissible, BaseIsLatest, Latest, KnownAsset
<1>5. Doomed(c, n) => Doomed(c, n)'
  BY <1>1, <1>3, <1>4 DEF Doomed
<1> QED
  BY <1>1, <1>5 DEF ToldTrue

LEMMA AllToldTrueKept ==
  ASSUME IInv, LatestKept, UNCHANGED <<rows, intents, told>>
  PROVE  AllToldTrue'
<1> SUFFICES ASSUME NEW c \in Clients, NEW n \in DOMAIN told[c]
             PROVE  ToldTrue(c, n)'
  BY DEF AllToldTrue
<1>1. n \in DOMAIN intents[c] /\ ToldTrue(c, n)
  BY DEF IInv, AllToldTrue, Typed, TypeOK
<1> QED
  BY <1>1, ToldTrueKept

LEMMA AskedKept ==
  ASSUME IInv, intents' = intents
  PROVE  AskedBounded' /\ Asked' = Asked
<1>1. Asked' = Asked
  BY DEF Asked
<1> QED
  BY <1>1 DEF IInv, AskedBounded

-------------------------------------------------------------------------------
(* The steps, by what they touch *)

\* Sending, losing a copy, and revoking a principal.
LEMMA QuietStep ==
  ASSUME IInv, UNCHANGED <<service, intents, told, view>>,
         active' \subseteq Actors, faults' \in Nat,
         net' \in [Clients -> [1 .. MaxIntents -> Nat]]
  PROVE  IInv'
<1>1. Referenced' /\ ChainsOK' /\ RowsUnique'
  BY ServiceInvKept
<1>2. VersionsKept /\ RunsKept /\ RowsKept /\ LatestKept
  BY ServiceKept
<1>3. EditsGrounded' /\ ViewsGrounded'
  BY <1>2, EditsGroundedKept, ViewsGroundedKept DEF IInv
<1>4. RowsTrue' /\ AllToldTrue' /\ AskedBounded'
  BY <1>2, RowsTrueKept, AllToldTrueKept, AskedKept DEF service, IntentsKept
<1>5. Typed'
  BY DEF IInv, Typed, TypeOK, service
<1> QED
  BY <1>1, <1>3, <1>4, <1>5 DEF IInv

LEMMA IncreasedCount ==
  ASSUME NEW S, NEW f \in [S -> Nat], NEW k
  PROVE  [f EXCEPT ![k] = @ + 1] \in [S -> Nat]
<1>1. CASE k \in S
  <2>1. f[k] + 1 \in Nat
    BY <1>1
  <2> QED
    BY <2>1
<1>2. CASE k \notin S
  <2>1. [f EXCEPT ![k] = @ + 1] = f
    BY <1>2
  <2> QED
    BY <2>1
<1> QED
  BY <1>1, <1>2

LEMMA SendStep ==
  ASSUME IInv, NEW c \in Clients, Send(c)
  PROVE  IInv'
<1>1. net' \in [Clients -> [1 .. MaxIntents -> Nat]]
  <2>1. net' = [net EXCEPT ![c] = [net[c] EXCEPT ![Current(c)] = @ + 1]]
    BY DEF Send
  <2>2. net \in [Clients -> [1 .. MaxIntents -> Nat]]
    BY DEF IInv, Typed, TypeOK
  <2>3. [net[c] EXCEPT ![Current(c)] = @ + 1] \in [1 .. MaxIntents -> Nat]
    BY <2>2, IncreasedCount
  <2> QED
    BY <2>1, <2>2, <2>3
<1>2. active' \subseteq Actors /\ faults' \in Nat
  BY DEF Send, IInv, Typed, TypeOK
<1> QED
  BY <1>1, <1>2, QuietStep DEF Send

LEMMA FailStep ==
  ASSUME IInv, NEW c \in Clients, NEW n \in 1 .. MaxIntents, Fail(c, n)
  PROVE  IInv'
<1>1. net' \in [Clients -> [1 .. MaxIntents -> Nat]]
  <2>1. net[c][n] \in Nat /\ net[c][n] > 0
    BY DEF Fail, Arrives, IInv, Typed, TypeOK
  <2>2. net[c][n] - 1 \in Nat
    BY <2>1
  <2>3. net' = [net EXCEPT ![c][n] = net[c][n] - 1]
    BY DEF Fail, IInv, Typed, TypeOK
  <2> QED
    BY <2>2, <2>3, NetTyped DEF IInv
<1>2. active' \subseteq Actors /\ faults' \in Nat
  BY DEF Fail, IInv, Typed, TypeOK
<1> QED
  BY <1>1, <1>2, QuietStep DEF Fail, Rollback

LEMMA RevokeStep ==
  ASSUME IInv, NEW p \in Actors, Revoke(p)
  PROVE  IInv'
<1>1. /\ active' \subseteq Actors /\ faults' \in Nat
      /\ net' \in [Clients -> [1 .. MaxIntents -> Nat]]
  BY DEF Revoke, IInv, Typed, TypeOK
<1> QED
  BY <1>1, QuietStep DEF Revoke

LEMMA LookStep ==
  ASSUME IInv, NEW c \in Clients, NEW a \in AssetIds, Look(c, a)
  PROVE  IInv'
<1>1. /\ UNCHANGED <<active, service, intents, told, net, faults>>
      /\ a \in DOMAIN assets
      /\ view' = [view EXCEPT ![c][a] = assets[a].latest]
  BY DEF Look
<1>2. Referenced' /\ ChainsOK' /\ RowsUnique'
  BY <1>1, ServiceInvKept
<1>3. VersionsKept /\ RunsKept /\ RowsKept /\ LatestKept
  BY <1>1, ServiceKept
<1>4. EditsGrounded'
  BY <1>1, <1>3, EditsGroundedKept DEF IInv
<1>5. RowsTrue' /\ AllToldTrue' /\ AskedBounded'
  BY <1>1, <1>3, RowsTrueKept, AllToldTrueKept, AskedKept DEF service, IntentsKept
<1>6. assets[a].latest \in VersionsOf(a) /\ assets[a].latest \in Nat
  <2>1. Chained(a)
    BY <1>1 DEF IInv, ChainsOK
  <2>2. DOMAIN versions \subseteq Nat
    BY SeqDomain DEF IInv, Typed, TypeOK
  <2> QED
    BY <2>1, <2>2 DEF Chained, VersionsOf
<1>7. view \in [Clients -> [AssetIds -> Nat]]
  BY DEF IInv, Typed, TypeOK
<1>8. ViewsGrounded'
  <2> SUFFICES ASSUME NEW d \in Clients, NEW b \in AssetIds, view'[d][b] # 0
               PROVE  view'[d][b] \in VersionsOf(b)'
    BY DEF ViewsGrounded
  <2>1. VersionsOf(b)' = VersionsOf(b)
    BY <1>1 DEF VersionsOf, service
  <2>2. view'[d][b] = view[d][b] \/ (b = a /\ view'[d][b] = assets[a].latest)
    BY <1>1, <1>7
  <2> QED
    BY <1>6, <2>1, <2>2 DEF IInv, ViewsGrounded
<1>9. Typed'
  <2>1. view' \in [Clients -> [AssetIds -> Nat]]
    BY <1>1, <1>6, <1>7
  <2> QED
    BY <1>1, <2>1 DEF IInv, Typed, TypeOK, service
<1> QED
  BY <1>2, <1>4, <1>5, <1>8, <1>9 DEF IInv

\* The client asks for one more edit, on the version it has in hand.
IntendsRequest(c, n, key, request) ==
  /\ intents' \in [Clients -> Seq(Intent)] /\ told' \in [Clients -> Seq(Answer)]
  /\ \A d \in Clients : d # c => intents'[d] = intents[d] /\ told'[d] = told[d]
  /\ DOMAIN intents'[c] = DOMAIN intents[c] \cup {n}
  /\ DOMAIN told'[c] = DOMAIN told[c] \cup {n}
  /\ Len(told'[c]) = Len(intents'[c])
  /\ \A m \in DOMAIN intents[c] : /\ intents'[c][m] = intents[c][m]
                                  /\ told'[c][m] = told[c][m]
  /\ told'[c][n] = Waiting
  /\ intents'[c][n].key = key /\ intents'[c][n].request = request

LEMMA IntendEffect ==
  ASSUME IInv, NEW c \in Clients, NEW key \in Keys, NEW a \in {0} \cup AssetIds,
         NEW content \in Contents, Intend(c, key, a, content),
         NEW n, n = Len(intents[c]) + 1
  PROVE  \E request \in Request :
           /\ request = [asset |-> a, base |-> IF a = 0 THEN 0 ELSE view[c][a],
                         content |-> content]
           /\ Grounded(request)
           /\ IntendsRequest(c, n, key, request)
<1> DEFINE request == [asset |-> a, base |-> IF a = 0 THEN 0 ELSE view[c][a],
                       content |-> content]
           intent == [key |-> key, request |-> request]
<1>1. /\ intents \in [Clients -> Seq(Intent)] /\ told \in [Clients -> Seq(Answer)]
      /\ intents[c] \in Seq(Intent) /\ told[c] \in Seq(Answer)
      /\ DOMAIN told[c] = DOMAIN intents[c]
      /\ Len(told[c]) = Len(intents[c]) /\ Len(intents[c]) \in Nat
  BY SeqDomain DEF IInv, Typed, TypeOK
<1>2. a = 0 \/ (a \in AssetIds /\ a # 0 /\ view[c][a] \in Nat /\ view[c][a] # 0)
  BY DEF Intend, IInv, Typed, TypeOK, AssetIds
<1>3. request \in Request
  <2>1. a \in Nat
    BY ConstantsAssumption DEF AssetIds
  <2> QED
    BY <1>2, <2>1 DEF Request
<1>4. intents' = [intents EXCEPT ![c] = Append(intents[c], intent)]
  BY <1>1 DEF Intend
<1>5. told' = [told EXCEPT ![c] = Append(told[c], Waiting)]
  BY <1>1 DEF Intend
<1>6. Grounded(request)
  <2>1. CASE a = 0
    BY <2>1 DEF Grounded
  <2>2. CASE a # 0
    <3>1. view[c][a] \in VersionsOf(a)
      BY <1>2, <2>2 DEF IInv, ViewsGrounded
    <3> QED
      BY <1>2, <2>2, <3>1 DEF Grounded
  <2> QED
    BY <2>1, <2>2
<1> HIDE DEF request
<1>7. intent \in Intent /\ intent.key = key /\ intent.request = request
  BY <1>3 DEF Intent
<1> HIDE DEF intent
<1>8. /\ Append(intents[c], intent) \in Seq(Intent)
      /\ Len(Append(intents[c], intent)) = Len(intents[c]) + 1
      /\ DOMAIN Append(intents[c], intent) = DOMAIN intents[c] \cup {n}
      /\ Append(intents[c], intent)[n] = intent
      /\ \A m \in DOMAIN intents[c] : Append(intents[c], intent)[m] = intents[c][m]
  BY <1>1, <1>7, AppendToSeq
<1>9. /\ Append(told[c], Waiting) \in Seq(Answer)
      /\ Len(Append(told[c], Waiting)) = Len(intents[c]) + 1
      /\ DOMAIN Append(told[c], Waiting) = DOMAIN told[c] \cup {n}
      /\ Append(told[c], Waiting)[n] = Waiting
      /\ \A m \in DOMAIN told[c] : Append(told[c], Waiting)[m] = told[c][m]
  BY <1>1, Answers, AppendToSeq
<1>10. /\ intents' \in [Clients -> Seq(Intent)]
       /\ intents'[c] = Append(intents[c], intent)
       /\ \A d \in Clients : d # c => intents'[d] = intents[d]
  BY <1>1, <1>4, <1>8
<1>11. /\ told' \in [Clients -> Seq(Answer)]
       /\ told'[c] = Append(told[c], Waiting)
       /\ \A d \in Clients : d # c => told'[d] = told[d]
  BY <1>1, <1>5, <1>9
<1>12. intents'[c][n].key = key /\ intents'[c][n].request = request
  BY <1>7, <1>8, <1>10
<1>13. IntendsRequest(c, n, key, request)
  BY <1>1, <1>8, <1>9, <1>10, <1>11, <1>12 DEF IntendsRequest
<1> QED
  BY <1>3, <1>6, <1>13 DEF request

LEMMA AskedIn ==
  ASSUME NEW f
  PROVE  \A q : q \in UNION {{<<c, n>> : n \in DOMAIN f[c]} : c \in Clients} <=>
                  \E c \in Clients : \E n \in DOMAIN f[c] : q = <<c, n>>
OBVIOUS

LEMMA InAsked ==
  /\ \A q : q \in Asked <=> \E c \in Clients : \E n \in DOMAIN intents[c] : q = <<c, n>>
  /\ \A q : q \in Asked' <=> \E c \in Clients : \E n \in DOMAIN intents'[c] : q = <<c, n>>
<1>1. \A q : q \in Asked <=> \E c \in Clients : \E n \in DOMAIN intents[c] : q = <<c, n>>
  BY AskedIn DEF Asked
<1>2. \A q : q \in Asked' <=> \E c \in Clients : \E n \in DOMAIN intents'[c] : q = <<c, n>>
  BY AskedIn DEF Asked
<1> QED
  BY <1>1, <1>2

LEMMA IntendStep ==
  ASSUME IInv, NEW c \in Clients, NEW key \in Keys, NEW a \in {0} \cup AssetIds,
         NEW content \in Contents, Intend(c, key, a, content),
         NEW n, n = Len(intents[c]) + 1
  PROVE  IInv'
<1>1. /\ UNCHANGED <<active, service, view, net, faults>>
      /\ Cardinality(Asked) < MaxIntents
  BY DEF Intend
<1>2. PICK request \in Request :
        Grounded(request) /\ IntendsRequest(c, n, key, request)
  BY IntendEffect
<1>20. /\ intents' \in [Clients -> Seq(Intent)] /\ told' \in [Clients -> Seq(Answer)]
       /\ \A d \in Clients : d # c => intents'[d] = intents[d] /\ told'[d] = told[d]
       /\ DOMAIN intents'[c] = DOMAIN intents[c] \cup {n}
       /\ DOMAIN told'[c] = DOMAIN told[c] \cup {n}
       /\ Len(told'[c]) = Len(intents'[c])
       /\ \A m \in DOMAIN intents[c] : /\ intents'[c][m] = intents[c][m]
                                       /\ told'[c][m] = told[c][m]
       /\ told'[c][n] = Waiting
  BY <1>2 DEF IntendsRequest
<1>21. intents'[c][n].request = request
  BY <1>2 DEF IntendsRequest
<1>3. IntentsKept
  BY <1>20 DEF IntentsKept
<1>4. VersionsKept /\ RunsKept /\ RowsKept /\ LatestKept
  BY <1>1, ServiceKept
<1>5. Referenced' /\ ChainsOK' /\ RowsUnique'
  BY <1>1, ServiceInvKept
<1>6. ViewsGrounded'
  BY <1>1, <1>4, ViewsGroundedKept DEF IInv
<1>7. RowsTrue'
  BY <1>1, <1>3, <1>4, RowsTrueKept DEF service
<1>8. Typed'
  <2>1. \A d \in Clients : DOMAIN told'[d] = DOMAIN intents'[d]
    BY <1>20 DEF IInv, Typed, TypeOK
  <2>2. \A d \in Clients : Len(told'[d]) = Len(intents'[d])
    BY <1>20 DEF IInv, Typed
  <2> QED
    BY <1>1, <1>20, <2>1, <2>2 DEF IInv, Typed, TypeOK, service
<1>9. EditsGrounded'
  <2> SUFFICES ASSUME NEW d \in Clients, NEW m \in DOMAIN intents'[d]
               PROVE  Grounded(RequestOf(d, m))'
    BY DEF EditsGrounded
  <2>1. Grounded(RequestOf(d, m)')
    <3>1. CASE d = c /\ m = n
      BY <1>2, <1>21, <3>1 DEF RequestOf
    <3>2. CASE ~(d = c /\ m = n)
      <4>1. m \in DOMAIN intents[d] /\ intents'[d][m] = intents[d][m]
        BY <1>20, <3>2
      <4>2. Grounded(RequestOf(d, m))
        BY <4>1 DEF IInv, EditsGrounded
      <4> QED
        BY <4>1, <4>2 DEF RequestOf
    <3> QED
      BY <3>1, <3>2
  <2> QED
    BY <1>1, <2>1 DEF Grounded, VersionsOf, service
<1>10. AllToldTrue'
  <2> SUFFICES ASSUME NEW d \in Clients, NEW m \in DOMAIN told'[d]
               PROVE  ToldTrue(d, m)'
    BY DEF AllToldTrue
  <2>1. CASE d = c /\ m = n
    BY <1>20, <2>1, Answers DEF ToldTrue
  <2>2. CASE ~(d = c /\ m = n)
    <3>1. m \in DOMAIN told[d] /\ told'[d][m] = told[d][m]
      BY <1>20, <2>2 DEF IInv, Typed, TypeOK
    <3>2. m \in DOMAIN intents[d] /\ intents'[d][m] = intents[d][m]
      BY <1>3, <3>1 DEF IInv, Typed, TypeOK, IntentsKept
    <3>3. ToldTrue(d, m)
      BY <3>1 DEF IInv, AllToldTrue
    <3> QED
      BY <1>1, <1>4, <3>1, <3>2, <3>3, ToldTrueKept DEF service
  <2> QED
    BY <2>1, <2>2
<1>11. AskedBounded'
  <2>1. Asked' = Asked \cup {<<c, n>>}
    <3>1. ASSUME NEW q \in Asked'
          PROVE  q \in Asked \cup {<<c, n>>}
      <4>1. PICK d \in Clients : \E m \in DOMAIN intents'[d] : q = <<d, m>>
        BY InAsked
      <4>2. PICK m \in DOMAIN intents'[d] : q = <<d, m>>
        BY <4>1
      <4>3. (d = c /\ m = n) \/ m \in DOMAIN intents[d]
        BY <1>20
      <4> QED
        BY <4>2, <4>3, InAsked
    <3>2. ASSUME NEW q \in Asked \cup {<<c, n>>}
          PROVE  q \in Asked'
      <4>1. CASE q = <<c, n>>
        BY <1>20, <4>1, InAsked
      <4>2. CASE q \in Asked
        <5>1. PICK d \in Clients : \E m \in DOMAIN intents[d] : q = <<d, m>>
          BY <4>2, InAsked
        <5>2. PICK m \in DOMAIN intents[d] : q = <<d, m>>
          BY <5>1
        <5>3. m \in DOMAIN intents'[d]
          BY <1>3 DEF IntentsKept
        <5> QED
          BY <5>2, <5>3, InAsked
      <4> QED
        BY <4>1, <4>2
    <3> QED
      BY <3>1, <3>2
  <2>2. IsFiniteSet(Asked)
    BY DEF IInv, AskedBounded
  <2>3. /\ IsFiniteSet(Asked')
        /\ Cardinality(Asked') = Cardinality(Asked)
           \/ Cardinality(Asked') = Cardinality(Asked) + 1
    BY <2>1, <2>2, FS_AddElement
  <2>4. Cardinality(Asked) \in Nat
    BY <2>2, FS_CardinalityType
  <2> QED
    BY <1>1, <2>3, <2>4, ConstantsAssumption DEF AskedBounded
<1> QED
  BY <1>5, <1>6, <1>7, <1>8, <1>9, <1>10, <1>11 DEF IInv

\* A client that gives up knows nothing; an empty hand is grounded.
LEMMA AbandonStep ==
  ASSUME IInv, NEW c \in Clients, Abandon(c), NEW n, n = Current(c)
  PROVE  IInv'
<1>1. /\ UNCHANGED <<active, service, intents, net>>
      /\ faults' = faults + 1 /\ n > 0
      /\ told' = [told EXCEPT ![c][n] = Abandoned]
      /\ view' = [view EXCEPT ![c] = [a \in AssetIds |-> 0]]
  BY DEF Abandon, IsWaiting
<1>2. Referenced' /\ ChainsOK' /\ RowsUnique'
  BY <1>1, ServiceInvKept
<1>3. VersionsKept /\ RunsKept /\ RowsKept /\ LatestKept
  BY <1>1, ServiceKept
<1>4. EditsGrounded' /\ RowsTrue' /\ AskedBounded'
  BY <1>1, <1>3, EditsGroundedKept, RowsTrueKept, AskedKept
  DEF IInv, service, IntentsKept
<1>5. n \in DOMAIN intents[c]
  <2>1. DOMAIN intents[c] = 1 .. Len(intents[c]) /\ Len(intents[c]) \in Nat
    BY SeqDomain DEF IInv, Typed, TypeOK
  <2> QED
    BY <1>1, <2>1 DEF Current
<1>6. /\ told' \in [Clients -> Seq(Answer)]
      /\ \A d \in Clients : Len(told'[d]) = Len(told[d]) /\ DOMAIN told'[d] = DOMAIN told[d]
      /\ told'[c][n] = Abandoned
      /\ \A d \in Clients : \A m \in DOMAIN told[d] :
           ~(d = c /\ m = n) => told'[d][m] = told[d][m]
  <2>1. told \in [Clients -> Seq(Answer)] /\ told[c] \in Seq(Answer) /\ n \in DOMAIN told[c]
    BY <1>5 DEF IInv, Typed, TypeOK
  <2>2. told' = [told EXCEPT ![c] = [told[c] EXCEPT ![n] = Abandoned]]
    BY <1>1
  <2>3. /\ [told[c] EXCEPT ![n] = Abandoned] \in Seq(Answer)
        /\ Len([told[c] EXCEPT ![n] = Abandoned]) = Len(told[c])
        /\ DOMAIN [told[c] EXCEPT ![n] = Abandoned] = DOMAIN told[c]
        /\ [told[c] EXCEPT ![n] = Abandoned][n] = Abandoned
        /\ \A m \in DOMAIN told[c] :
             m # n => [told[c] EXCEPT ![n] = Abandoned][m] = told[c][m]
    BY <2>1, Answers, ReplaceInSeq
  <2>4. /\ told' \in [Clients -> Seq(Answer)]
        /\ told'[c] = [told[c] EXCEPT ![n] = Abandoned]
        /\ \A d \in Clients : d # c => told'[d] = told[d]
    BY <2>1, <2>2, <2>3
  <2> QED
    BY <2>3, <2>4
<1>7. AllToldTrue'
  <2> SUFFICES ASSUME NEW d \in Clients, NEW m \in DOMAIN told'[d]
               PROVE  ToldTrue(d, m)'
    BY DEF AllToldTrue
  <2>1. CASE d = c /\ m = n
    BY <1>6, <2>1, Answers DEF ToldTrue
  <2>2. CASE ~(d = c /\ m = n)
    <3>1. m \in DOMAIN told[d] /\ told'[d][m] = told[d][m]
      BY <1>6, <2>2
    <3>2. m \in DOMAIN intents[d] /\ intents'[d][m] = intents[d][m]
      BY <1>1, <3>1 DEF IInv, Typed, TypeOK
    <3>3. ToldTrue(d, m)
      BY <3>1 DEF IInv, AllToldTrue
    <3> QED
      BY <1>1, <1>3, <3>1, <3>2, <3>3, ToldTrueKept DEF service
  <2> QED
    BY <2>1, <2>2
<1>8. view \in [Clients -> [AssetIds -> Nat]]
  BY DEF IInv, Typed, TypeOK
<1>9. view' \in [Clients -> [AssetIds -> Nat]]
  BY <1>1, <1>8
<1>10. ViewsGrounded'
  <2> SUFFICES ASSUME NEW d \in Clients, NEW b \in AssetIds, view'[d][b] # 0
               PROVE  view'[d][b] \in VersionsOf(b)'
    BY DEF ViewsGrounded
  <2>1. view'[d][b] = view[d][b]
    BY <1>1, <1>8
  <2>2. VersionsOf(b)' = VersionsOf(b)
    BY <1>1 DEF VersionsOf, service
  <2> QED
    BY <2>1, <2>2 DEF IInv, ViewsGrounded
<1>11. Typed'
  <2>1. /\ \A d \in Clients : DOMAIN told'[d] = DOMAIN intents'[d]
        /\ \A d \in Clients : Len(told'[d]) = Len(intents'[d])
    BY <1>1, <1>6 DEF IInv, Typed, TypeOK
  <2>2. faults' \in Nat
    BY <1>1 DEF IInv, Typed, TypeOK
  <2> QED
    BY <1>1, <1>6, <1>9, <2>1, <2>2 DEF IInv, Typed, TypeOK, service
<1> QED
  BY <1>2, <1>4, <1>7, <1>10, <1>11 DEF IInv

\* The version in hand after an answer is the one that was saved.
LEMMA SeenGrounded ==
  ASSUME IInv, VersionsKept, NEW c \in Clients, NEW answer \in Answer, Seen(c, answer),
         answer.outcome = "saved" => answer.response.version \in DOMAIN versions'
  PROVE  ViewsGrounded'
<1>1. CASE view' = view
  BY <1>1, ViewsGroundedKept DEF IInv
<1>2. CASE answer.outcome = "saved" /\ view' # view
  <2> DEFINE v == answer.response.version
  <2>1. view' = [view EXCEPT ![c][versions'[v].asset] = v] /\ v \in DOMAIN versions'
    BY <1>2 DEF Seen
  <2> HIDE DEF v
  <2> SUFFICES ASSUME NEW d \in Clients, NEW b \in AssetIds, view'[d][b] # 0
               PROVE  view'[d][b] \in VersionsOf(b)'
    BY DEF ViewsGrounded
  <2>2. view \in [Clients -> [AssetIds -> Nat]]
    BY DEF IInv, Typed, TypeOK
  <2>3. view'[d][b] = view[d][b] \/ (versions'[v].asset = b /\ view'[d][b] = v)
    BY <2>1, <2>2
  <2>4. view[d][b] # 0 => view[d][b] \in VersionsOf(b)'
    BY DEF IInv, ViewsGrounded, VersionsKept, VersionsOf
  <2>5. versions'[v].asset = b => v \in VersionsOf(b)'
    BY <2>1 DEF VersionsOf
  <2> QED
    BY <2>3, <2>4, <2>5
<1> QED
  BY <1>1, <1>2 DEF Seen

\* A copy that changes nothing: what its author is told of it is true.
LEMMA AnswerStep ==
  ASSUME IInv, NEW c \in Clients, NEW n \in 1 .. MaxIntents, Arrives(c, n),
         NEW answer \in Answer, Answered(c, n, answer),
         UNCHANGED <<active, service, intents>>,
         answer.outcome = "saved" =>
           /\ Row(c, n) # None /\ Row(c, n).request = RequestOf(c, n)
           /\ Row(c, n).response = answer.response,
         answer = Refused => Doomed(c, n)
  PROVE  IInv'
<1>1. /\ told' \in [Clients -> Seq(Answer)]
      /\ \A d \in Clients : Len(told'[d]) = Len(told[d]) /\ DOMAIN told'[d] = DOMAIN told[d]
      /\ net' \in [Clients -> [1 .. MaxIntents -> Nat]]
      /\ faults' \in Nat
      /\ Learned(c, n, answer) \/ told' = told
      /\ Seen(c, answer)
  BY AnsweredEffect DEF IInv
<1>2. Referenced' /\ ChainsOK' /\ RowsUnique'
  BY ServiceInvKept
<1>3. VersionsKept /\ RunsKept /\ RowsKept /\ LatestKept
  BY ServiceKept
<1>4. EditsGrounded' /\ RowsTrue' /\ AskedBounded'
  BY <1>3, EditsGroundedKept, RowsTrueKept, AskedKept DEF IInv, service, IntentsKept
<1>5. n \in DOMAIN intents[c]
  BY DEF Arrives
<1>6. AllToldTrue'
  <2> SUFFICES ASSUME NEW d \in Clients, NEW m \in DOMAIN told'[d]
               PROVE  ToldTrue(d, m)'
    BY DEF AllToldTrue
  <2>1. m \in DOMAIN told[d] /\ m \in DOMAIN intents[d] /\ intents'[d][m] = intents[d][m]
    BY <1>1 DEF IInv, Typed, TypeOK
  <2>2. CASE told'[d][m] = told[d][m]
    <3>1. ToldTrue(d, m)
      BY <2>1 DEF IInv, AllToldTrue
    <3> QED
      BY <1>3, <2>1, <2>2, <3>1, ToldTrueKept DEF service
  <2>3. CASE d = c /\ m = n /\ told'[d][m] = answer
    <3>1. Row(c, n)' = Row(c, n) /\ RequestOf(c, n)' = RequestOf(c, n)
      BY DEF Row, RequestOf, service
    <3>2. Admissible(RequestOf(c, n))' <=> Admissible(RequestOf(c, n))
      BY <3>1 DEF Admissible, BaseIsLatest, Latest, KnownAsset, service
    <3>3. Doomed(c, n)' <=> Doomed(c, n)
      BY <3>1, <3>2 DEF Doomed
    <3> QED
      BY <2>3, <3>1, <3>3 DEF ToldTrue
  <2> QED
    BY <1>1, <2>1, <2>2, <2>3 DEF Learned
<1>7. ViewsGrounded'
  <2>1. ASSUME answer.outcome = "saved"
        PROVE  answer.response.version \in DOMAIN versions'
    <3>1. <<ActorOf[c], intents[c][n].key>> \in Actors \X Keys
      BY <1>5, EditTyped DEF IInv
    <3>2. RowTrue(<<ActorOf[c], intents[c][n].key>>)
      BY <2>1, <3>1 DEF IInv, RowsTrue, Row
    <3> QED
      BY <2>1, <3>2 DEF RowTrue, Fulfils, Row, service
  <2> QED
    BY <1>1, <1>3, <2>1, SeenGrounded
<1>8. Typed'
  <2>1. view' \in [Clients -> [AssetIds -> Nat]]
    BY <1>1, SeenTyped DEF IInv
  <2>2. /\ \A d \in Clients : DOMAIN told'[d] = DOMAIN intents'[d]
        /\ \A d \in Clients : Len(told'[d]) = Len(intents'[d])
    BY <1>1 DEF IInv, Typed, TypeOK
  <2> QED
    BY <1>1, <2>1, <2>2 DEF IInv, Typed, TypeOK, service
<1> QED
  BY <1>2, <1>4, <1>6, <1>7, <1>8 DEF IInv

LEMMA ReplayStep ==
  ASSUME IInv, NEW c \in Clients, NEW n \in 1 .. MaxIntents, Replay(c, n),
         NEW answer, answer = Accepted(Row(c, n).response)
  PROVE  IInv'
<1>1. /\ Arrives(c, n) /\ Answered(c, n, answer) /\ UNCHANGED <<active, service, intents>>
      /\ Row(c, n) # None /\ Row(c, n).request = RequestOf(c, n)
  BY DEF Replay, SameRequest
<1>2. Row(c, n) \in StoredRow
  BY <1>1, EditTyped DEF IInv, Arrives
<1>3. answer \in Answer /\ answer.outcome = "saved" /\ answer.response = Row(c, n).response
  BY <1>2, StoredRowFields, Answers
<1>4. answer # Refused
  BY <1>3, Answers
<1> QED
  BY <1>1, <1>3, <1>4, AnswerStep

LEMMA RefuseStep ==
  ASSUME IInv, NEW c \in Clients, NEW n \in 1 .. MaxIntents, Refuse(c, n)
  PROVE  IInv' /\ Doomed(c, n)
<1>1. /\ Arrives(c, n) /\ Answered(c, n, Refused) /\ UNCHANGED <<active, service, intents>>
  BY DEF Refuse, Rollback
<1>2. Doomed(c, n)
  BY DEF Refuse, Doomed, SameRequest
<1>3. Refused \in Answer /\ Refused.outcome # "saved"
  BY Answers
<1> QED
  BY <1>1, <1>2, <1>3, AnswerStep

LEMMA DenyStep ==
  ASSUME IInv, NEW c \in Clients, NEW n \in 1 .. MaxIntents, Deny(c, n)
  PROVE  IInv'
<1>1. /\ Arrives(c, n) /\ Answered(c, n, Denied) /\ UNCHANGED <<active, service, intents>>
  BY DEF Deny
<1>2. Denied \in Answer /\ Denied.outcome # "saved" /\ Denied # Refused
  BY Answers
<1> QED
  BY <1>1, <1>2, AnswerStep

LEMMA ReassessStep ==
  ASSUME IInv, NEW a \in AssetIds, Reassess(a)
  PROVE  IInv'
<1>1. UNCHANGED <<active, versions, rows, intents, told, view, net, faults>>
  BY DEF Reassess
<1>2. /\ Referenced' /\ ChainsOK'
      /\ assets' \in Seq(Asset) /\ runs' \in Seq(Run)
      /\ LatestKept /\ RunsKept
  BY ReassessChains DEF LatestKept, RunsKept
<1>3. VersionsKept /\ IntentsKept
  BY <1>1 DEF VersionsKept, IntentsKept
<1>4. EditsGrounded' /\ ViewsGrounded' /\ RowsTrue' /\ AllToldTrue' /\ AskedBounded'
  BY <1>1, <1>2, <1>3, EditsGroundedKept, ViewsGroundedKept, RowsTrueKept,
     AllToldTrueKept, AskedKept DEF IInv
<1>5. RowsUnique'
  BY <1>1 DEF IInv, RowsUnique, RowFor
<1>6. Typed'
  BY <1>1, <1>2 DEF IInv, Typed, TypeOK
<1> QED
  BY <1>2, <1>4, <1>5, <1>6 DEF IInv

-------------------------------------------------------------------------------
(* A save *)

\* An edit that could not be saved cannot be after another one was.
LEMMA InadmissibleKept ==
  ASSUME IInv, NEW a \in 1 .. Len(assets) + 1, NEW v \in Nat, Scheduled(a, v),
         \A w \in DOMAIN versions : w < v,
         NEW request \in Request, Grounded(request), ~Admissible(request)
  PROVE  ~Admissible(request)'
<1>1. CASE request.content \in Unacceptable
  BY <1>1 DEF Admissible
<1>2. CASE request.asset = 0
  <2>1. request.base = 0 /\ ~KnownAsset(request)
    BY <1>2, ConstantsAssumption DEF Grounded, KnownAsset, AssetIds
  <2>2. BaseIsLatest(request)
    BY <2>1 DEF BaseIsLatest, Latest
  <2> QED
    BY <2>2, <1>1 DEF Admissible
<1>3. CASE request.asset # 0 /\ request.content \notin Unacceptable
  <2> DEFINE b == request.asset
  <2>1. /\ b \in DOMAIN assets /\ Latest(request) = assets[b].latest
        /\ request.base \in VersionsOf(b) /\ KnownAsset(request)
    BY <1>3, GroundedTarget DEF IInv
  <2>2. request.base # assets[b].latest
    BY <1>3, <2>1 DEF Admissible, BaseIsLatest
  <2>3. assets'[a].latest = v /\ \A x \in DOMAIN assets : x # a => assets'[x] = assets[x]
    BY ScheduledAssets DEF IInv
  <2>4. request.base # assets'[b].latest
    <3>1. CASE b = a
      <4>1. request.base \in DOMAIN versions /\ request.base \in Nat
        BY <2>1, RequestFields DEF VersionsOf
      <4> QED
        BY <2>3, <3>1, <4>1
    <3>2. CASE b # a
      BY <2>1, <2>2, <2>3, <3>2
    <3> QED
      BY <3>1, <3>2
  <2>5. Latest(request)' = assets'[b].latest
    BY <1>3 DEF Latest, KnownAsset
  <2> QED
    BY <2>4, <2>5 DEF Admissible, BaseIsLatest
<1> QED
  BY <1>1, <1>2, <1>3

LEMMA DoomedKept ==
  ASSUME IInv, NEW c \in Clients, NEW n \in 1 .. MaxIntents, Save(c, n),
         NEW d \in Clients, NEW m \in DOMAIN intents[d], Doomed(d, m),
         NEW request, request = RequestOf(d, m)
  PROVE  Doomed(d, m)'
<1> DEFINE a == Target(RequestOf(c, n))
           v == Len(versions) + 1
<1>1. /\ n \in DOMAIN intents[c] /\ Admissible(RequestOf(c, n))
      /\ a \in 1 .. Len(assets) + 1 /\ v \in Nat
      /\ SavesVersion(a, v, RequestOf(c, n), ActorOf[c]) /\ Scheduled(a, v)
      /\ SavesRow(Key(c, n), RequestOf(c, n), v, Len(runs) + 1)
      /\ intents' = intents
  BY SaveEffect
<1> HIDE DEF a, v
<1>2. /\ request \in Request /\ Grounded(request) /\ Key(d, m) \in Actors \X Keys
      /\ RequestOf(d, m)' = request /\ Key(d, m)' = Key(d, m)
      /\ Row(d, m) = rows[Key(d, m)] /\ Row(d, m)' = rows'[Key(d, m)]
  BY <1>1, EditTyped DEF IInv, EditsGrounded, RequestOf, Key, Row
<1>3. CASE Row(d, m) # None
  <2>1. Row(d, m)' = Row(d, m)
    BY <1>1, <1>2, <1>3 DEF SavesRow
  <2> QED
    BY <1>2, <1>3, <2>1 DEF Doomed
<1>4. CASE Row(d, m) = None
  <2>1. ~Admissible(request)
    BY <1>4 DEF Doomed
  <2>2. CASE Key(d, m) = Key(c, n)
    <3>1. Row(d, m)' # None /\ Row(d, m)'.request = RequestOf(c, n)
      BY <1>1, <1>2, <2>2 DEF SavesRow
    <3>2. RequestOf(c, n) # request
      BY <1>1, <2>1
    <3> QED
      BY <1>2, <3>1, <3>2 DEF Doomed
  <2>3. CASE Key(d, m) # Key(c, n)
    <3>1. Row(d, m)' = None
      BY <1>1, <1>2, <1>4, <2>3 DEF SavesRow
    <3>2. \A w \in DOMAIN versions : w < v
      BY <1>1 DEF SavesVersion
    <3>3. ~Admissible(request)'
      BY <1>1, <1>2, <2>1, <3>2, InadmissibleKept
    <3>4. ~Admissible(RequestOf(d, m))'
      BY <1>2, <3>3 DEF Admissible, BaseIsLatest, Latest, KnownAsset
    <3> QED
      BY <3>1, <3>4 DEF Doomed
  <2> QED
    BY <2>2, <2>3
<1> QED
  BY <1>3, <1>4

\* The version that is saved is what its row says, directly on the base.
LEMMA SaveFulfils ==
  ASSUME IInv, NEW request \in Request, Grounded(request), Admissible(request),
         NEW a, a = Target(request), NEW v, NEW p, SavesVersion(a, v, request, p)
  PROVE  Fulfils(v, p, request)'
<1>1. /\ v \in DOMAIN versions'
      /\ versions'[v].asset = a /\ versions'[v].previous = Latest(request)
      /\ versions'[v].ordinal = Cardinality(VersionsOf(a)) + 1
      /\ versions'[v].content = request.content /\ versions'[v].by = p
  BY DEF SavesVersion
<1>2. versions'[v].previous = request.base
  BY <1>1 DEF Admissible, BaseIsLatest
<1>3. request.asset = 0 => versions'[v].ordinal = 1
  <2> SUFFICES ASSUME request.asset = 0
               PROVE  versions'[v].ordinal = 1
    OBVIOUS
  <2>1. VersionsOf(a) = {}
    BY NewTarget DEF IInv
  <2>2. Cardinality(VersionsOf(a)) = 0
    BY <2>1, FS_EmptySet
  <2> QED
    BY <1>1, <2>2
<1>4. request.asset # 0 => versions'[v].asset = request.asset
  BY <1>1, GroundedTarget DEF IInv
<1> QED
  BY <1>1, <1>2, <1>3, <1>4 DEF Fulfils

\* A save adds the one row that tells of the new version.
LEMMA SaveRows ==
  ASSUME IInv, NEW c \in Clients, NEW n \in DOMAIN intents[c], intents' = intents,
         NEW request \in Request, request = RequestOf(c, n),
         Grounded(request), Admissible(request),
         NEW a \in 1 .. Len(assets) + 1, a = Target(request),
         NEW v \in Nat, NEW r, r = Len(runs) + 1,
         NEW k \in Actors \X Keys, k = Key(c, n),
         SavesVersion(a, v, request, ActorOf[c]), Scheduled(a, v),
         SavesRow(k, request, v, r)
  PROVE  RowsTrue' /\ RowsUnique' /\ RunsKept
<1>1. /\ VersionsKept
      /\ DOMAIN versions' = DOMAIN versions \cup {v} /\ v \notin DOMAIN versions
  BY SaveVersionsOf DEF SavesVersion
<1>2. /\ RunsKept /\ r \in DOMAIN runs' /\ runs'[r].version = v
  BY ScheduledRuns DEF IInv, RunsKept, RunsRetired
<1>3. IntentsKept
  BY DEF IntentsKept
<1>4. /\ rows[k] = None /\ rows'[k] # None
      /\ rows'[k].request = request
      /\ rows'[k].response.version = v /\ rows'[k].response.run = r
      /\ \A j \in Actors \X Keys : j # k => rows'[j] = rows[j]
  BY DEF SavesRow
<1>5. \A j \in Actors \X Keys : rows[j] # None => rows[j].response.version \in DOMAIN versions
  BY DEF IInv, RowsTrue, RowTrue, Fulfils
<1>6. RowTrue(k)'
  <2>1. k[1] = ActorOf[c]
    BY DEF Key
  <2>2. Fulfils(v, ActorOf[c], request)'
    BY SaveFulfils
  <2>3. n \in DOMAIN intents'[c] /\ Key(c, n)' = k /\ RequestOf(c, n)' = rows'[k].request
    BY <1>4 DEF Key, RequestOf
  <2> QED
    BY <1>2, <1>4, <2>1, <2>2, <2>3 DEF RowTrue, Fulfils
<1>7. RowsTrue'
  <2> SUFFICES ASSUME NEW j \in Actors \X Keys, rows'[j] # None
               PROVE  RowTrue(j)'
    BY DEF RowsTrue
  <2>1. CASE j = k
    BY <1>6, <2>1
  <2>2. CASE j # k
    <3>1. rows'[j] = rows[j] /\ RowTrue(j)
      BY <1>4, <2>2 DEF IInv, RowsTrue
    <3> QED
      BY <1>1, <1>2, <1>3, <3>1, RowTrueKept
  <2> QED
    BY <2>1, <2>2
<1>8. RowsUnique'
  <2>1. ASSUME NEW w \in DOMAIN versions'
        PROVE  \E j \in Actors \X Keys : RowFor(w, j)'
    <3>1. CASE w = v
      BY <1>4, <3>1 DEF RowFor
    <3>2. CASE w \in DOMAIN versions
      <4>1. PICK j \in Actors \X Keys : RowFor(w, j)
        BY <3>2 DEF IInv, RowsUnique
      <4>2. rows'[j] = rows[j]
        BY <1>4, <4>1 DEF RowFor
      <4> QED
        BY <4>1, <4>2 DEF RowFor
    <3> QED
      BY <1>1, <3>1, <3>2
  <2>2. ASSUME NEW i \in Actors \X Keys, NEW j \in Actors \X Keys,
               rows'[i] # None, rows'[j] # None,
               rows'[i].response.version = rows'[j].response.version
        PROVE  i = j
    <3>1. \A x \in Actors \X Keys :
            x # k /\ rows'[x] # None =>
              /\ rows'[x] = rows[x] /\ rows[x] # None
              /\ rows'[x].response.version # v
      BY <1>1, <1>4, <1>5
    <3>2. CASE i = k \/ j = k
      BY <1>4, <2>2, <3>1, <3>2
    <3>3. CASE i # k /\ j # k
      <4>1. /\ rows[i] # None /\ rows[j] # None
            /\ rows[i].response.version = rows[j].response.version
        BY <2>2, <3>1, <3>3
      <4> QED
        BY <4>1 DEF IInv, RowsUnique
    <3> QED
      BY <3>2, <3>3
  <2> QED
    BY <2>1, <2>2 DEF RowsUnique
<1> QED
  BY <1>2, <1>7, <1>8

LEMMA SaveStep ==
  ASSUME IInv, NEW c \in Clients, NEW n \in 1 .. MaxIntents, Save(c, n),
         NEW request, request = RequestOf(c, n), NEW a, a = Target(request),
         NEW v, v = Len(versions) + 1, NEW r, r = Len(runs) + 1,
         NEW k, k = Key(c, n),
         NEW response, response = [version |-> v, run |-> r]
  PROVE  IInv'
<1>1. /\ n \in DOMAIN intents[c] /\ Arrives(c, n)
      /\ request \in Request /\ Grounded(request) /\ Admissible(request)
      /\ a \in 1 .. Len(assets) + 1 /\ v \in Nat
      /\ k \in Actors \X Keys
      /\ SavesVersion(a, v, request, ActorOf[c])
      /\ Scheduled(a, v)
      /\ SavesRow(k, request, v, r)
      /\ rows'[k].response = response /\ response \in Response
      /\ Answered(c, n, Accepted(response))
      /\ UNCHANGED <<active, intents>>
  BY SaveEffect
<1>2. Referenced' /\ ChainsOK'
  BY SaveChains
<1>3. RowsTrue' /\ RowsUnique' /\ RunsKept
  BY <1>1, SaveRows
<1>4. VersionsKept
  BY <1>1, SaveVersionsOf
<1>5. EditsGrounded' /\ AskedBounded'
  BY <1>1, <1>4, EditsGroundedKept, AskedKept DEF IInv
<1>6. /\ Accepted(response) \in Answer /\ Accepted(response).outcome = "saved"
      /\ Accepted(response).response = response
      /\ response.version = v
  BY <1>1, Answers
<1>7. /\ told' \in [Clients -> Seq(Answer)]
      /\ \A d \in Clients : Len(told'[d]) = Len(told[d]) /\ DOMAIN told'[d] = DOMAIN told[d]
      /\ net' \in [Clients -> [1 .. MaxIntents -> Nat]]
      /\ faults' \in Nat
      /\ Learned(c, n, Accepted(response)) \/ told' = told
      /\ Seen(c, Accepted(response))
  BY <1>1, <1>6, AnsweredEffect DEF IInv
<1>8. ViewsGrounded'
  <2>1. v \in DOMAIN versions'
    BY <1>1 DEF SavesVersion
  <2> QED
    BY <1>4, <1>6, <1>7, <2>1, SeenGrounded
<1>9. AllToldTrue'
  <2> SUFFICES ASSUME NEW d \in Clients, NEW m \in DOMAIN told'[d]
               PROVE  ToldTrue(d, m)'
    BY DEF AllToldTrue
  <2>1. m \in DOMAIN told[d] /\ m \in DOMAIN intents[d] /\ intents'[d][m] = intents[d][m]
    BY <1>1, <1>7 DEF IInv, Typed, TypeOK
  <2>2. RequestOf(d, m)' = RequestOf(d, m) /\ Row(d, m)' = rows'[Key(d, m)]
        /\ Row(d, m) = rows[Key(d, m)] /\ Key(d, m) \in Actors \X Keys
    BY <2>1, EditTyped DEF RequestOf, Row, Key, IInv
  <2>3. CASE told'[d][m] = told[d][m]
    <3>1. ToldTrue(d, m)
      BY <2>1 DEF IInv, AllToldTrue
    <3>2. Row(d, m) # None => Row(d, m)' = Row(d, m)
      BY <1>1, <2>2 DEF SavesRow
    <3>3. Doomed(d, m) => Doomed(d, m)'
      BY <2>1, DoomedKept
    <3> QED
      BY <2>2, <2>3, <3>1, <3>2, <3>3 DEF ToldTrue
  <2>4. CASE d = c /\ m = n /\ told'[d][m] = Accepted(response)
    <3>1. /\ Row(c, n)' # None /\ Row(c, n)'.request = request
          /\ Row(c, n)'.response = response
      BY <1>1, <2>2, <2>4 DEF SavesRow
    <3>2. told'[c][n] # Refused /\ told'[c][n].response = response
      BY <1>6, <2>4, Answers
    <3> QED
      BY <2>2, <2>4, <3>1, <3>2 DEF ToldTrue
  <2> QED
    BY <1>7, <2>1, <2>3, <2>4 DEF Learned
<1>10. Typed'
  <2>1. assets' \in Seq(Asset) /\ runs' \in Seq(Run)
    BY <1>1, ScheduledAssets, ScheduledRuns DEF IInv
  <2>2. /\ versions' \in Seq(Version)
        /\ rows' \in [Actors \X Keys -> {None} \cup StoredRow]
    BY <1>1 DEF SavesVersion, SavesRow
  <2>3. view' \in [Clients -> [AssetIds -> Nat]]
    BY <1>6, <1>7, SeenTyped DEF IInv
  <2>4. /\ \A d \in Clients : DOMAIN told'[d] = DOMAIN intents'[d]
        /\ \A d \in Clients : Len(told'[d]) = Len(intents'[d])
    BY <1>1, <1>7 DEF IInv, Typed, TypeOK
  <2> QED
    BY <1>1, <1>7, <2>1, <2>2, <2>3, <2>4 DEF IInv, Typed, TypeOK
<1> QED
  BY <1>2, <1>3, <1>5, <1>8, <1>9, <1>10 DEF IInv

-------------------------------------------------------------------------------
(* The theorems *)

LEMMA InitIInv ==
  ASSUME Init
  PROVE  IInv
<1>1. /\ assets = <<>> /\ versions = <<>> /\ runs = <<>>
      /\ rows = [k \in Actors \X Keys |-> None]
      /\ intents = [c \in Clients |-> <<>>] /\ told = [c \in Clients |-> <<>>]
      /\ view = [c \in Clients |-> [a \in AssetIds |-> 0]]
  BY DEF Init
<1>2. Typed
  <2>1. /\ active \subseteq Actors /\ faults \in Nat
        /\ net \in [Clients -> [1 .. MaxIntents -> Nat]]
        /\ view \in [Clients -> [AssetIds -> Nat]]
    BY DEF Init
  <2>2. /\ assets \in Seq(Asset) /\ versions \in Seq(Version) /\ runs \in Seq(Run)
        /\ intents \in [Clients -> Seq(Intent)] /\ told \in [Clients -> Seq(Answer)]
    BY <1>1
  <2>3. rows \in [Actors \X Keys -> {None} \cup StoredRow]
    BY <1>1
  <2> QED
    BY <1>1, <2>1, <2>2, <2>3 DEF Typed, TypeOK
<1>3. Referenced /\ ChainsOK
  BY <1>1 DEF Referenced, ChainsOK
<1>4. EditsGrounded /\ ViewsGrounded /\ AllToldTrue
  BY <1>1 DEF EditsGrounded, ViewsGrounded, AllToldTrue
<1>5. RowsTrue /\ RowsUnique
  BY <1>1 DEF RowsTrue, RowsUnique
<1>6. AskedBounded
  <2>1. Asked = {}
    BY <1>1, InAsked
  <2> QED
    BY <2>1, FS_EmptySet, ConstantsAssumption DEF AskedBounded
<1> QED
  BY <1>2, <1>3, <1>4, <1>5, <1>6 DEF IInv

LEMMA NextIInv ==
  ASSUME IInv, [Next]_vars
  PROVE  IInv'
<1>1. ASSUME NEW c \in Clients, NEW a \in AssetIds, Look(c, a)
      PROVE  IInv'
  BY <1>1, LookStep
<1>2. ASSUME NEW c \in Clients, NEW key \in Keys, NEW a \in {0} \cup AssetIds,
             NEW content \in Contents, Intend(c, key, a, content)
      PROVE  IInv'
  BY <1>2, IntendStep
<1>3. ASSUME NEW c \in Clients, Send(c) \/ Abandon(c)
      PROVE  IInv'
  BY <1>3, SendStep, AbandonStep
<1>4. ASSUME NEW c \in Clients, NEW n \in 1 .. MaxIntents, Handle(c, n) \/ Fail(c, n)
      PROVE  IInv'
  <2>1. CASE Save(c, n)
    BY <2>1, SaveStep
  <2>2. CASE Replay(c, n)
    BY <2>2, ReplayStep
  <2>3. CASE Refuse(c, n) \/ Deny(c, n) \/ Fail(c, n)
    BY <2>3, RefuseStep, DenyStep, FailStep
  <2> QED
    BY <1>4, <2>1, <2>2, <2>3 DEF Handle
<1>5. ASSUME NEW a \in AssetIds, Reassess(a)
      PROVE  IInv'
  BY <1>5, ReassessStep
<1>6. ASSUME NEW p \in Actors, Revoke(p)
      PROVE  IInv'
  BY <1>6, RevokeStep
<1>7. CASE UNCHANGED vars
  <2>1. /\ UNCHANGED <<service, intents, told, view>>
        /\ active' = active /\ net' = net /\ faults' = faults
    BY <1>7 DEF vars
  <2>2. /\ active' \subseteq Actors /\ faults' \in Nat
        /\ net' \in [Clients -> [1 .. MaxIntents -> Nat]]
    BY <2>1 DEF IInv, Typed, TypeOK
  <2> QED
    BY <2>1, <2>2, QuietStep
<1> QED
  BY <1>1, <1>2, <1>3, <1>4, <1>5, <1>6, <1>7 DEF Next

LEMMA AlwaysIInv == Spec => []IInv
<1>1. Init => IInv
  BY InitIInv
<1>2. IInv /\ [Next]_vars => IInv'
  BY NextIInv
<1> QED
  BY <1>1, <1>2, PTL DEF Spec

\* Every variable of intake has its type in every reachable state.
THEOREM IntakeTyped == Spec => []TypeOK
<1>1. IInv => TypeOK
  BY DEF IInv, Typed
<1> QED
  BY <1>1, AlwaysIInv, PTL

\* Whatever is sent, lost, repeated or reassessed, the versions of an asset form
\* one gapless chain that ends in the latest, whose run alone is current.
THEOREM OneChainAlways == Spec => []OneChainPerAsset
<1>1. IInv => OneChainPerAsset
  BY OneChain DEF IInv
<1> QED
  BY <1>1, AlwaysIInv, PTL

\* However late, often or out of order it was told, a client that was told its
\* edit was saved finds it under that answer, exactly as it asked.
THEOREM ToldTheTruth == Spec => []AnswersTrue
<1>1. IInv => AnswersTrue
  <2> SUFFICES ASSUME IInv, NEW c \in Clients, NEW n \in DOMAIN told[c],
                      told[c][n].outcome = "saved",
                      NEW answer, answer = told[c][n].response
               PROVE  /\ Fulfils(answer.version, ActorOf[c], RequestOf(c, n))
                      /\ answer.run \in DOMAIN runs
                      /\ runs[answer.run].version = answer.version
                      /\ \/ runs[answer.run].stale
                         \/ assets[versions[answer.version].asset].run = answer.run
    BY DEF AnswersTrue
  <2>1. /\ Row(c, n) # None /\ Row(c, n).request = RequestOf(c, n)
        /\ Row(c, n).response = answer
    BY DEF IInv, AllToldTrue, ToldTrue
  <2>2. Key(c, n) \in Actors \X Keys /\ Row(c, n) = rows[Key(c, n)]
    BY EditTyped DEF IInv, Typed, TypeOK, Key, Row
  <2>3. RowTrue(Key(c, n)) /\ Key(c, n)[1] = ActorOf[c]
    BY <2>1, <2>2 DEF IInv, RowsTrue, Key
  <2>4. /\ Fulfils(answer.version, ActorOf[c], RequestOf(c, n))
        /\ answer.run \in DOMAIN runs
        /\ runs[answer.run].version = answer.version
    BY <2>1, <2>2, <2>3 DEF RowTrue
  <2>5. StaleUnlessCurrent(answer.run)
    BY <2>4 DEF IInv, ChainsOK
  <2> QED
    BY <2>4, <2>5 DEF StaleUnlessCurrent
<1> QED
  BY <1>1, AlwaysIInv, PTL

-------------------------------------------------------------------------------
(* Intake implements EditHistory *)

\* The edit a row tells of.
RowEdit(k, row) ==
  [actor |-> k[1], key |-> k[2], asset |-> row.request.asset,
   base |-> row.request.base, content |-> row.request.content]

LEMMA SavedEditOf ==
  ASSUME IInv, NEW v \in DOMAIN versions, NEW k \in Actors \X Keys, RowFor(v, k)
  PROVE  SavedEdit(v) = RowEdit(k, rows[k])
<1>1. RowsOf(v) = {k}
  <2>1. DOMAIN rows = Actors \X Keys
    BY DEF IInv, Typed, TypeOK
  <2> QED
    BY <2>1 DEF RowsOf, RowFor, IInv, RowsUnique
<1>2. (CHOOSE j \in RowsOf(v) : TRUE) = k
  BY <1>1
<1> QED
  BY <1>1, <1>2 DEF SavedEdit, RowEdit

\* The edit of a row is its request under its key.
LEMMA EditOfRow ==
  ASSUME NEW c \in Clients, NEW n, NEW k, k = Key(c, n), NEW row,
         row.request = RequestOf(c, n)
  PROVE  RowEdit(k, row) = EditOf(c, n)
BY DEF RowEdit, EditOf, Key

LEMMA SavedEditOfNext ==
  ASSUME IInv', NEW v, NEW k \in Actors \X Keys, RowFor(v, k)'
  PROVE  SavedEdit(v)' = RowEdit(k, rows'[k])
<1>1. RowsOf(v)' = {k}
  <2>1. DOMAIN rows' = Actors \X Keys
    BY DEF IInv, Typed, TypeOK
  <2> QED
    BY <2>1 DEF RowsOf, RowFor, IInv, RowsUnique
<1>2. (CHOOSE j \in RowsOf(v)' : TRUE) = k
  BY <1>1
<1>3. SavedEdit(v)' =
        IF RowsOf(v)' = {} THEN None
        ELSE LET j == CHOOSE j \in RowsOf(v)' : TRUE
             IN  [actor |-> j[1], key |-> j[2], asset |-> rows'[j].request.asset,
                  base |-> rows'[j].request.base, content |-> rows'[j].request.content]
  BY DEF SavedEdit
<1> QED
  BY <1>1, <1>2, <1>3 DEF RowEdit

\* What is said of a version that was saved stays.
LEMMA SavedEditKept ==
  ASSUME IInv, IInv', RowsKept, NEW v \in DOMAIN versions
  PROVE  SavedEdit(v)' = SavedEdit(v)
<1>1. PICK k \in Actors \X Keys : RowFor(v, k)
  BY DEF IInv, RowsUnique
<1>2. rows'[k] = rows[k] /\ RowFor(v, k)'
  BY <1>1 DEF RowsKept, RowFor
<1> QED
  BY <1>1, <1>2, SavedEditOf, SavedEditOfNext

\* Every row tells of an edit that was asked for, under its key.
LEMMA SavedEditAsked ==
  ASSUME IInv, NEW v \in DOMAIN versions
  PROVE  \E k \in Actors \X Keys :
           /\ RowFor(v, k) /\ SavedEdit(v) = RowEdit(k, rows[k])
           /\ \E c \in Clients : \E n \in DOMAIN intents[c] :
                Key(c, n) = k /\ RequestOf(c, n) = rows[k].request
<1>1. PICK k \in Actors \X Keys : RowFor(v, k)
  BY DEF IInv, RowsUnique
<1>2. RowTrue(k)
  BY <1>1 DEF IInv, RowsTrue, RowFor
<1> QED
  BY <1>1, <1>2, SavedEditOf DEF RowTrue

\* Members of the two sets of edits, now and after a step.
LEMMA InAskedEdits ==
  /\ \A e : e \in AskedEdits <=>
       \E c \in Clients : \E n \in DOMAIN intents[c] : e = EditOf(c, n)
  /\ \A e : e \in AskedEdits' <=>
       \E c \in Clients : \E n \in DOMAIN intents'[c] : e = EditOf(c, n)'
<1>1. \A e : e \in AskedEdits <=> \E q \in Asked : e = EditOf(q[1], q[2])
  BY DEF AskedEdits
<1>2. \A e : e \in AskedEdits' <=> \E q \in Asked' : e = EditOf(q[1], q[2])'
  BY DEF AskedEdits
<1>3. ASSUME NEW e, NEW c \in Clients, NEW n \in DOMAIN intents[c], e = EditOf(c, n)
      PROVE  e \in AskedEdits
  <2>1. <<c, n>> \in Asked
    BY InAsked
  <2> QED
    BY <1>1, <1>3, <2>1
<1>4. ASSUME NEW e \in AskedEdits
      PROVE  \E c \in Clients : \E n \in DOMAIN intents[c] : e = EditOf(c, n)
  BY <1>1, <1>4, InAsked
<1>5. ASSUME NEW e, NEW c \in Clients, NEW n \in DOMAIN intents'[c], e = EditOf(c, n)'
      PROVE  e \in AskedEdits'
  <2>1. <<c, n>> \in Asked'
    BY InAsked
  <2> QED
    BY <1>2, <1>5, <2>1
<1>6. ASSUME NEW e \in AskedEdits'
      PROVE  \E c \in Clients : \E n \in DOMAIN intents'[c] : e = EditOf(c, n)'
  BY <1>2, <1>6, InAsked
<1> QED
  BY <1>3, <1>4, <1>5, <1>6

LEMMA InRefusedEdits ==
  /\ \A e : e \in RefusedEdits <=>
       \E c \in Clients : \E n \in DOMAIN intents[c] :
         told[c][n] = Refused /\ e = EditOf(c, n)
  /\ \A e : e \in RefusedEdits' <=>
       \E c \in Clients : \E n \in DOMAIN intents'[c] :
         told'[c][n] = Refused /\ e = EditOf(c, n)'
<1>1. \A e : e \in RefusedEdits <=>
        \E q \in Asked : told[q[1]][q[2]] = Refused /\ e = EditOf(q[1], q[2])
  BY DEF RefusedEdits
<1>2. \A e : e \in RefusedEdits' <=>
        \E q \in Asked' : told'[q[1]][q[2]] = Refused' /\ e = EditOf(q[1], q[2])'
  BY DEF RefusedEdits
<1>3. Refused' = Refused
  BY DEF Refused
<1>4. ASSUME NEW e, NEW c \in Clients, NEW n \in DOMAIN intents[c],
             told[c][n] = Refused, e = EditOf(c, n)
      PROVE  e \in RefusedEdits
  <2>1. <<c, n>> \in Asked
    BY InAsked
  <2> QED
    BY <1>1, <1>4, <2>1
<1>5. ASSUME NEW e \in RefusedEdits
      PROVE  \E c \in Clients : \E n \in DOMAIN intents[c] :
               told[c][n] = Refused /\ e = EditOf(c, n)
  <2>1. PICK q \in Asked : told[q[1]][q[2]] = Refused /\ e = EditOf(q[1], q[2])
    BY <1>1, <1>5
  <2> QED
    BY <2>1, InAsked
<1>6. ASSUME NEW e, NEW c \in Clients, NEW n \in DOMAIN intents'[c],
             told'[c][n] = Refused, e = EditOf(c, n)'
      PROVE  e \in RefusedEdits'
  <2>1. <<c, n>> \in Asked'
    BY InAsked
  <2> QED
    BY <1>2, <1>3, <1>6, <2>1
<1>7. ASSUME NEW e \in RefusedEdits'
      PROVE  \E c \in Clients : \E n \in DOMAIN intents'[c] :
               told'[c][n] = Refused /\ e = EditOf(c, n)'
  <2>1. PICK q \in Asked' : told'[q[1]][q[2]] = Refused' /\ e = EditOf(q[1], q[2])'
    BY <1>2, <1>7
  <2> QED
    BY <1>3, <2>1, InAsked
<1> QED
  BY <1>4, <1>5, <1>6, <1>7

\* No two versions stem from one edit, and an edit asks for no two versions.
LEMMA VersionsBounded ==
  ASSUME IInv
  PROVE  Len(versions) \in Nat /\ Len(versions) <= MaxIntents
<1> DEFINE From(v, q) == \E k \in Actors \X Keys : RowFor(v, k) /\ Key(q[1], q[2]) = k
           f == [v \in DOMAIN versions |-> CHOOSE q \in Asked : From(v, q)]
<1>1. DOMAIN versions = 1 .. Len(versions) /\ Len(versions) \in Nat
  BY SeqDomain DEF IInv, Typed, TypeOK
<1>2. ASSUME NEW v \in DOMAIN versions
      PROVE  \E q \in Asked : From(v, q)
  <2>1. PICK k \in Actors \X Keys : 
          /\ RowFor(v, k)
          /\ \E c \in Clients : \E n \in DOMAIN intents[c] :
               Key(c, n) = k /\ RequestOf(c, n) = rows[k].request
    BY SavedEditAsked
  <2>2. PICK c \in Clients : \E n \in DOMAIN intents[c] : Key(c, n) = k
    BY <2>1
  <2>3. PICK n \in DOMAIN intents[c] : Key(c, n) = k
    BY <2>2
  <2>4. <<c, n>> \in Asked
    BY InAsked
  <2> QED
    BY <2>1, <2>3, <2>4
<1>3. \A v, w, q : From(v, q) /\ From(w, q) => v = w
  BY DEF RowFor
<1> HIDE DEF From
<1>4. \A v \in DOMAIN versions : f[v] \in Asked /\ From(v, f[v])
  BY <1>2
<1>5. f \in Injection(DOMAIN versions, Asked)
  BY <1>3, <1>4 DEF Injection, IsInjective
<1>6. IsFiniteSet(Asked) /\ Cardinality(Asked) <= MaxIntents
  BY DEF IInv, AskedBounded
<1>7. Cardinality(DOMAIN versions) <= Cardinality(Asked)
  BY <1>5, <1>6, FS_Injection
<1>8. Cardinality(DOMAIN versions) = Len(versions)
  <2>1. Cardinality(1 .. Len(versions)) = IF 1 > Len(versions) THEN 0
                                          ELSE Len(versions) - 1 + 1
    BY <1>1, FS_Interval
  <2> QED
    BY <1>1, <2>1
<1>9. Cardinality(Asked) \in Nat
  BY <1>6, FS_CardinalityType
<1> QED
  BY <1>1, <1>6, <1>7, <1>8, <1>9, ConstantsAssumption

\* An asset is named by its first version, so every version is a possible name.
LEMMA VersionsAreAssets ==
  ASSUME IInv
  PROVE  \A v \in DOMAIN versions : v \in AssetIds
<1>1. Len(versions) \in Nat /\ Len(versions) <= MaxIntents
  BY VersionsBounded
<1>2. DOMAIN versions = 1 .. Len(versions)
  <2>1. versions \in Seq(Version)
    BY DEF IInv, Typed, TypeOK
  <2> QED
    BY <2>1, SeqDomain
<1>3. MaxIntents \in Nat
  BY ConstantsAssumption
<1> QED
  BY <1>1, <1>2, <1>3 DEF AssetIds

LEMMA EditInRange ==
  ASSUME IInv, NEW c \in Clients, NEW n \in DOMAIN intents[c]
  PROVE  EditOf(c, n) \in Edits
<1>1. /\ ActorOf[c] \in Actors /\ intents[c][n].key \in Keys
      /\ RequestOf(c, n) \in Request /\ Grounded(RequestOf(c, n))
  BY EditTyped DEF IInv, EditsGrounded
<1>2. RequestOf(c, n).content \in Contents
  BY <1>1, RequestFields
<1>3. /\ RequestOf(c, n).asset \in {0} \cup AssetIds
      /\ RequestOf(c, n).base \in {0} \cup AssetIds
  <2>1. \A v \in DOMAIN versions : v \in AssetIds
    BY VersionsAreAssets
  <2> QED
    BY <1>1, <2>1 DEF Grounded, VersionsOf
<1> QED
  BY <1>1, <1>2, <1>3 DEF EditOf, Edits

LEMMA EditInRangeNext ==
  ASSUME IInv, IInv', UNCHANGED versions, NEW c \in Clients, NEW n \in DOMAIN intents'[c]
  PROVE  EditOf(c, n)' \in Edits
<1>1. /\ ActorOf[c] \in Actors /\ intents'[c] \in Seq(Intent)
      /\ Grounded(RequestOf(c, n))'
  BY ConstantsAssumption DEF IInv, Typed, TypeOK, EditsGrounded
<1>2. intents'[c][n] \in Intent
  BY <1>1
<1>3. intents'[c][n].key \in Keys /\ RequestOf(c, n)' \in Request
  BY <1>2 DEF Intent, RequestOf
<1>4. RequestOf(c, n)'.content \in Contents
  BY <1>3, RequestFields
<1>5. /\ RequestOf(c, n)'.asset \in {0} \cup AssetIds
      /\ RequestOf(c, n)'.base \in {0} \cup AssetIds
  <2>1. \A v \in DOMAIN versions : v \in AssetIds
    BY VersionsAreAssets
  <2> QED
    BY <1>1, <2>1 DEF Grounded, VersionsOf
<1> QED
  BY <1>1, <1>3, <1>4, <1>5 DEF EditOf, Edits

LEMMA AskedEditsKept ==
  ASSUME intents' = intents
  PROVE  /\ AskedEdits' = AskedEdits
         /\ \A c, n : EditOf(c, n)' = EditOf(c, n)
<1>1. \A c, n : EditOf(c, n)' = EditOf(c, n)
  BY DEF EditOf, RequestOf
<1>2. \A e : e \in AskedEdits' <=> e \in AskedEdits
  BY <1>1, InAskedEdits
<1> QED
  BY <1>1, <1>2

LEMMA SavedEditsKept ==
  ASSUME UNCHANGED <<versions, rows>>
  PROVE  SavedEdits' = SavedEdits
BY DEF SavedEdits, SavedEdit, RowsOf

\* The edits refused after a step, when it refuses none but edit n of c.
RefusesOnly(c, n) ==
  \A d \in Clients : \A m \in DOMAIN intents[d] :
    ~(d = c /\ m = n) => (told'[d][m] = Refused <=> told[d][m] = Refused)

LEMMA RefusedEditsKept ==
  ASSUME intents' = intents,
         \A d \in Clients : \A m \in DOMAIN intents[d] :
           told'[d][m] = Refused <=> told[d][m] = Refused
  PROVE  RefusedEdits' = RefusedEdits
<1>1. \A e : e \in RefusedEdits' <=> e \in RefusedEdits
  BY AskedEditsKept, InRefusedEdits
<1> QED
  BY <1>1

LEMMA RefusedEditsGrow ==
  ASSUME intents' = intents, NEW c \in Clients, NEW n \in DOMAIN intents[c],
         RefusesOnly(c, n), told'[c][n] = Refused
  PROVE  RefusedEdits' = RefusedEdits \cup {EditOf(c, n)}
<1>1. \A d, m : EditOf(d, m)' = EditOf(d, m)
  BY AskedEditsKept
<1>2. ASSUME NEW e \in RefusedEdits'
      PROVE  e \in RefusedEdits \cup {EditOf(c, n)}
  <2>1. PICK d \in Clients : \E m \in DOMAIN intents'[d] :
          told'[d][m] = Refused /\ e = EditOf(d, m)'
    BY InRefusedEdits
  <2>2. PICK m \in DOMAIN intents'[d] : told'[d][m] = Refused /\ e = EditOf(d, m)'
    BY <2>1
  <2> QED
    BY <1>1, <2>2, InRefusedEdits DEF RefusesOnly
<1>3. ASSUME NEW e \in RefusedEdits \cup {EditOf(c, n)}
      PROVE  e \in RefusedEdits'
  <2>1. CASE e = EditOf(c, n)
    BY <1>1, <2>1, InRefusedEdits
  <2>2. CASE e \in RefusedEdits
    <3>1. PICK d \in Clients : \E m \in DOMAIN intents[d] :
            told[d][m] = Refused /\ e = EditOf(d, m)
      BY <2>2, InRefusedEdits
    <3>2. PICK m \in DOMAIN intents[d] : told[d][m] = Refused /\ e = EditOf(d, m)
      BY <3>1
    <3>3. told'[d][m] = Refused
      BY <3>2 DEF RefusesOnly
    <3> QED
      BY <1>1, <3>2, <3>3, InRefusedEdits
  <2> QED
    BY <1>3, <2>1, <2>2
<1> QED
  BY <1>2, <1>3

\* An answer refuses an edit only if it says so, and only the edit it is about.
LEMMA LearnedRefusal ==
  ASSUME IInv, NEW c \in Clients, NEW n \in DOMAIN intents[c], NEW answer \in Answer,
         Learned(c, n, answer) \/ told' = told
  PROVE  /\ RefusesOnly(c, n)
         /\ answer # Refused => (told'[c][n] = Refused <=> told[c][n] = Refused)
         /\ told[c][n] = Refused => told'[c][n] = Refused
<1>1. \A d \in Clients : DOMAIN told[d] = DOMAIN intents[d]
  BY DEF IInv, Typed, TypeOK
<1>2. Waiting # Refused
  BY Answers
<1> QED
  BY <1>1, <1>2 DEF Learned, RefusesOnly

LEMMA AskMaps ==
  ASSUME IInv, IInv', NEW c \in Clients, NEW key \in Keys, NEW a \in {0} \cup AssetIds,
         NEW content \in Contents, Intend(c, key, a, content),
         NEW n, n = Len(intents[c]) + 1
  PROVE  \E e \in Edits : History!Ask(e)
<1>1. PICK request \in Request : IntendsRequest(c, n, key, request)
  BY IntendEffect
<1>2. /\ \A d \in Clients : d # c => intents'[d] = intents[d] /\ told'[d] = told[d]
      /\ DOMAIN intents'[c] = DOMAIN intents[c] \cup {n}
      /\ \A m \in DOMAIN intents[c] : /\ intents'[c][m] = intents[c][m]
                                      /\ told'[c][m] = told[c][m]
      /\ told'[c][n] = Waiting
  BY <1>1 DEF IntendsRequest
<1>3. Waiting # Refused
  BY Answers
<1>4. \A d \in Clients : \A m \in DOMAIN intents[d] :
        /\ m \in DOMAIN intents'[d] /\ EditOf(d, m)' = EditOf(d, m)
        /\ told'[d][m] = told[d][m]
  BY <1>2 DEF EditOf, RequestOf
<1>5. \A d \in Clients : \A m \in DOMAIN intents'[d] :
        m \in DOMAIN intents[d] \/ (d = c /\ m = n)
  BY <1>2
<1> DEFINE e == EditOf(c, n)'
<1>6. e \in Edits
  <2>1. n \in DOMAIN intents'[c] /\ versions' = versions
    BY <1>2 DEF Intend, service
  <2> QED
    BY <2>1, EditInRangeNext
<1> HIDE DEF e
<1>7. AskedEdits' = AskedEdits \cup {e}
  <2>1. ASSUME NEW x \in AskedEdits'
        PROVE  x \in AskedEdits \cup {e}
    <3>1. PICK d \in Clients : \E m \in DOMAIN intents'[d] : x = EditOf(d, m)'
      BY InAskedEdits
    <3>2. PICK m \in DOMAIN intents'[d] : x = EditOf(d, m)'
      BY <3>1
    <3> QED
      BY <1>4, <1>5, <3>2, InAskedEdits DEF e
  <2>2. ASSUME NEW x \in AskedEdits \cup {e}
        PROVE  x \in AskedEdits'
    <3>1. CASE x = e
      BY <1>2, <3>1, InAskedEdits DEF e
    <3>2. CASE x \in AskedEdits
      <4>1. PICK d \in Clients : \E m \in DOMAIN intents[d] : x = EditOf(d, m)
        BY <3>2, InAskedEdits
      <4> QED
        BY <1>4, <4>1, InAskedEdits
    <3> QED
      BY <2>2, <3>1, <3>2
  <2> QED
    BY <2>1, <2>2
<1>8. RefusedEdits' = RefusedEdits
  <2>1. ASSUME NEW x \in RefusedEdits'
        PROVE  x \in RefusedEdits
    <3>1. PICK d \in Clients : \E m \in DOMAIN intents'[d] :
            told'[d][m] = Refused /\ x = EditOf(d, m)'
      BY InRefusedEdits
    <3>2. PICK m \in DOMAIN intents'[d] : told'[d][m] = Refused /\ x = EditOf(d, m)'
      BY <3>1
    <3>3. m \in DOMAIN intents[d]
      BY <1>2, <1>3, <1>5, <3>2
    <3> QED
      BY <1>4, <3>2, <3>3, InRefusedEdits
  <2>2. ASSUME NEW x \in RefusedEdits
        PROVE  x \in RefusedEdits'
    <3>1. PICK d \in Clients : \E m \in DOMAIN intents[d] :
            told[d][m] = Refused /\ x = EditOf(d, m)
      BY InRefusedEdits
    <3> QED
      BY <1>4, <3>1, InRefusedEdits
  <2> QED
    BY <2>1, <2>2
<1>9. SavedEdits' = SavedEdits
  BY SavedEditsKept DEF Intend, service
<1> QED
  BY <1>6, <1>7, <1>8, <1>9 DEF History!Ask

\* An edit is its key and its request.
LEMMA SameRequests ==
  ASSUME NEW q \in Request, NEW r \in Request,
         q.asset = r.asset, q.base = r.base, q.content = r.content
  PROVE  q = r
BY DEF Request

LEMMA SameEdit ==
  ASSUME IInv, NEW k \in Actors \X Keys, rows[k] # None,
         NEW c \in Clients, NEW n \in DOMAIN intents[c],
         RowEdit(k, rows[k]) = EditOf(c, n)
  PROVE  k = Key(c, n) /\ rows[k].request = RequestOf(c, n)
<1>1. /\ RowEdit(k, rows[k]).actor = k[1] /\ RowEdit(k, rows[k]).key = k[2]
      /\ RowEdit(k, rows[k]).asset = rows[k].request.asset
      /\ RowEdit(k, rows[k]).base = rows[k].request.base
      /\ RowEdit(k, rows[k]).content = rows[k].request.content
  BY DEF RowEdit
<1>2. /\ EditOf(c, n).actor = ActorOf[c] /\ EditOf(c, n).key = intents[c][n].key
      /\ EditOf(c, n).asset = RequestOf(c, n).asset
      /\ EditOf(c, n).base = RequestOf(c, n).base
      /\ EditOf(c, n).content = RequestOf(c, n).content
  BY DEF EditOf
<1>3. k = <<ActorOf[c], intents[c][n].key>>
  BY <1>1, <1>2
<1>4. rows[k].request \in Request
  <2>1. rows[k] \in StoredRow
    BY DEF IInv, Typed, TypeOK
  <2> QED
    BY <2>1, StoredRowFields
<1>5. RequestOf(c, n) \in Request
  BY EditTyped DEF IInv
<1> QED
  BY <1>1, <1>2, <1>3, <1>4, <1>5, SameRequests DEF Key

LEMMA SameIntent ==
  ASSUME IInv, NEW c \in Clients, NEW n \in DOMAIN intents[c],
         NEW d \in Clients, NEW m \in DOMAIN intents[d], EditOf(d, m) = EditOf(c, n)
  PROVE  Key(d, m) = Key(c, n) /\ RequestOf(d, m) = RequestOf(c, n)
<1>1. \A b, i : /\ EditOf(b, i).actor = ActorOf[b] /\ EditOf(b, i).key = intents[b][i].key
                /\ EditOf(b, i).asset = RequestOf(b, i).asset
                /\ EditOf(b, i).base = RequestOf(b, i).base
                /\ EditOf(b, i).content = RequestOf(b, i).content
  BY DEF EditOf
<1>2. RequestOf(d, m) \in Request /\ RequestOf(c, n) \in Request
  BY EditTyped DEF IInv
<1>3. Key(d, m) = Key(c, n)
  BY <1>1 DEF Key
<1> QED
  BY <1>1, <1>2, <1>3, SameRequests

LEMMA EntryOf ==
  /\ DOMAIN SavedEdits = DOMAIN versions
  /\ \A v \in DOMAIN versions : /\ SavedEdits[v].edit = SavedEdit(v)
                                /\ SavedEdits[v].asset = versions[v].asset
BY DEF SavedEdits

\* What is refused for good has not taken effect, and never will.
LEMMA DoomedNotTaken ==
  ASSUME IInv, NEW c \in Clients, NEW n \in DOMAIN intents[c], Doomed(c, n)
  PROVE  ~History!Taken(EditOf(c, n))
<1> SUFFICES ASSUME NEW v \in DOMAIN versions, SavedEdit(v) = EditOf(c, n)
             PROVE  FALSE
  BY EntryOf DEF History!Taken
<1>1. PICK k \in Actors \X Keys : RowFor(v, k) /\ SavedEdit(v) = RowEdit(k, rows[k])
  BY SavedEditAsked
<1>2. rows[k] # None
  BY <1>1 DEF RowFor
<1>3. k = Key(c, n) /\ rows[k].request = RequestOf(c, n)
  BY <1>1, <1>2, SameEdit
<1> QED
  BY <1>2, <1>3 DEF Doomed, Row, Key

LEMMA RefuseMaps ==
  ASSUME IInv, NEW c \in Clients, NEW n \in 1 .. MaxIntents, Refuse(c, n)
  PROVE  [\E e \in Edits : History!Refuse(e)]_(History!vars)
<1>1. /\ n \in DOMAIN intents[c] /\ Answered(c, n, Refused)
      /\ UNCHANGED <<active, service, intents>> /\ Arrives(c, n)
  BY DEF Refuse, Arrives, Rollback
<1>2. Doomed(c, n) /\ EditOf(c, n) \in Edits
  BY <1>1, RefuseStep, EditInRange
<1>3. Learned(c, n, Refused) \/ told' = told
  BY <1>1, Answers, AnsweredEffect DEF IInv
<1>4. RefusesOnly(c, n) /\ (told[c][n] = Refused => told'[c][n] = Refused)
  BY <1>1, <1>3, Answers, LearnedRefusal
<1>5. AskedEdits' = AskedEdits /\ SavedEdits' = SavedEdits
  BY <1>1, AskedEditsKept, SavedEditsKept DEF service
<1>6. CASE told'[c][n] = Refused
  <2>1. RefusedEdits' = RefusedEdits \cup {EditOf(c, n)}
    BY <1>1, <1>4, <1>6, RefusedEditsGrow
  <2>2. EditOf(c, n) \in AskedEdits /\ ~History!Taken(EditOf(c, n))
    BY <1>1, <1>2, InAskedEdits, DoomedNotTaken
  <2>3. History!Refuse(EditOf(c, n))
    BY <1>5, <2>1, <2>2 DEF History!Refuse
  <2> QED
    BY <1>2, <2>3
<1>7. CASE told'[c][n] # Refused
  <2>1. RefusedEdits' = RefusedEdits
    BY <1>1, <1>4, <1>7, RefusedEditsKept DEF RefusesOnly
  <2> QED
    BY <1>5, <2>1 DEF History!vars
<1> QED
  BY <1>6, <1>7

LEMMA AppendIs ==
  ASSUME NEW k \in Nat, NEW f, NEW g, NEW x,
         f = [i \in 1 .. k |-> f[i]], g = [i \in 1 .. k + 1 |-> g[i]],
         \A i \in 1 .. k : g[i] = f[i], g[k + 1] = x
  PROVE  g = Append(f, x) /\ Len(f) = k
<1> DEFINE T == {f[i] : i \in 1 .. k} \cup {x}
<1>1. f \in [1 .. k -> T]
  OBVIOUS
<1>2. x \in T
  OBVIOUS
<1> HIDE DEF T
<1>3. f \in Seq(T) /\ Len(f) = k
  BY <1>1, FunctionIsSeq
<1>4. /\ Append(f, x) \in Seq(T) /\ Append(f, x)[k + 1] = x
      /\ \A i \in 1 .. k : Append(f, x)[i] = f[i]
      /\ DOMAIN Append(f, x) = 1 .. k + 1
  <2>1. DOMAIN f = 1 .. k
    BY <1>3, SeqDomain
  <2> QED
    BY <1>2, <1>3, <2>1, AppendToSeq
<1>5. \A i \in 1 .. k + 1 : g[i] = Append(f, x)[i]
  <2> TAKE i \in 1 .. k + 1
  <2>1. i \in 1 .. k \/ i = k + 1
    OBVIOUS
  <2>2. CASE i \in 1 .. k
    <3>1. g[i] = f[i]
      BY <2>2
    <3>2. Append(f, x)[i] = f[i]
      BY <1>4, <2>2
    <3> QED
      BY <3>1, <3>2
  <2>3. CASE i = k + 1
    BY <1>4, <2>3
  <2> QED
    BY <2>1, <2>2, <2>3
<1>6. Append(f, x) = [i \in 1 .. k + 1 |-> Append(f, x)[i]]
  BY <1>4
<1> QED
  BY <1>3, <1>5, <1>6

\* The history after a save is the history before with the edit at its end.
LEMMA SavedEditsAppended ==
  ASSUME IInv, IInv', NEW c \in Clients, NEW n \in DOMAIN intents[c], intents' = intents,
         NEW request, request = RequestOf(c, n), NEW a, NEW v \in Nat, NEW r,
         SavesVersion(a, v, request, ActorOf[c]),
         NEW k \in Actors \X Keys, k = Key(c, n), SavesRow(k, request, v, r)
  PROVE  /\ SavedEdits' = Append(SavedEdits, [edit |-> EditOf(c, n), asset |-> a])
         /\ Len(SavedEdits) = Len(versions)
<1> DEFINE x == [edit |-> EditOf(c, n), asset |-> a]
<1>1. /\ v = Len(versions) + 1 /\ Len(versions') = v
      /\ \A w \in DOMAIN versions : versions'[w] = versions[w]
      /\ versions'[v].asset = a
  BY DEF SavesVersion
<1>2. /\ DOMAIN versions = 1 .. Len(versions) /\ Len(versions) \in Nat
      /\ DOMAIN versions' = 1 .. Len(versions) + 1
  BY <1>1, SeqDomain DEF IInv, Typed, TypeOK
<1>3. RowsKept
  BY DEF SavesRow, RowsKept
<1>4. \A w \in DOMAIN versions : SavedEdits'[w] = SavedEdits[w]
  <2> SUFFICES ASSUME NEW w \in DOMAIN versions
               PROVE  SavedEdits'[w] = SavedEdits[w]
    OBVIOUS
  <2>1. SavedEdits'[w] = [edit |-> SavedEdit(w)', asset |-> versions'[w].asset]
    BY <1>2 DEF SavedEdits
  <2>2. SavedEdits[w] = [edit |-> SavedEdit(w), asset |-> versions[w].asset]
    BY DEF SavedEdits
  <2>3. SavedEdit(w)' = SavedEdit(w) /\ versions'[w] = versions[w]
    BY <1>1, <1>3, SavedEditKept
  <2> QED
    BY <2>1, <2>2, <2>3
<1>5. SavedEdits'[v] = x
  <2>1. RowFor(v, k)' /\ rows'[k].request = request
    BY DEF SavesRow, RowFor
  <2>2. SavedEdit(v)' = RowEdit(k, rows'[k])
    BY <2>1, SavedEditOfNext
  <2>3. RowEdit(k, rows'[k]) = EditOf(c, n)
    BY <2>1, EditOfRow
  <2>4. SavedEdits'[v] = [edit |-> SavedEdit(v)', asset |-> versions'[v].asset]
    BY <1>1, <1>2 DEF SavedEdits
  <2> QED
    BY <1>1, <2>2, <2>3, <2>4
<1>6. SavedEdits = [i \in 1 .. Len(versions) |-> SavedEdits[i]]
  BY <1>2 DEF SavedEdits
<1>7. SavedEdits' = [i \in 1 .. Len(versions) + 1 |-> SavedEdits'[i]]
  BY <1>2 DEF SavedEdits
<1> HIDE DEF x
<1>8. SavedEdits' = Append(SavedEdits, x) /\ Len(SavedEdits) = Len(versions)
  BY <1>1, <1>2, <1>4, <1>5, <1>6, <1>7, AppendIs
<1> QED
  BY <1>8 DEF x

LEMMA SaveMaps ==
  ASSUME IInv, IInv', NEW c \in Clients, NEW n \in 1 .. MaxIntents, Save(c, n),
         NEW request, request = RequestOf(c, n), NEW a, a = Target(request),
         NEW v, v = Len(versions) + 1, NEW r, r = Len(runs) + 1, NEW k, k = Key(c, n)
  PROVE  \E e \in Edits : \E b \in 1 .. Len(SavedEdits) + 1 : History!TakeEffect(e, b)
<1> DEFINE e == EditOf(c, n)
<1>1. /\ n \in DOMAIN intents[c] /\ Arrives(c, n)
      /\ request \in Request /\ Grounded(request) /\ Admissible(request)
      /\ a \in 1 .. Len(assets) + 1 /\ v \in Nat
      /\ k \in Actors \X Keys
      /\ SavesVersion(a, v, request, ActorOf[c])
      /\ SavesRow(k, request, v, r)
      /\ [version |-> v, run |-> r] \in Response
      /\ Answered(c, n, Accepted([version |-> v, run |-> r]))
      /\ UNCHANGED <<active, intents>>
  BY SaveEffect
<1>2. SavedEdits' = Append(SavedEdits, [edit |-> e, asset |-> a])
      /\ Len(SavedEdits) = Len(versions)
  BY <1>1, SavedEditsAppended
<1>3. a \in 1 .. Len(SavedEdits) + 1
  <2>1. /\ Len(assets) <= Len(versions) /\ Len(assets) \in Nat /\ Len(versions) \in Nat
    BY SeqDomain DEF IInv, Referenced, Typed, TypeOK
  <2> QED
    BY <1>1, <1>2, <2>1
<1>4. e \in Edits /\ e \in AskedEdits
  BY <1>1, EditInRange, InAskedEdits
<1>5. Row(c, n) = None /\ rows[k] = None
  BY <1>1 DEF Save, SavesRow
<1>6. e \notin RefusedEdits
  <2> SUFFICES ASSUME e \in RefusedEdits
               PROVE  FALSE
    OBVIOUS
  <2>1. PICK d \in Clients : \E m \in DOMAIN intents[d] :
          told[d][m] = Refused /\ e = EditOf(d, m)
    BY InRefusedEdits
  <2>2. PICK m \in DOMAIN intents[d] : told[d][m] = Refused /\ e = EditOf(d, m)
    BY <2>1
  <2>3. Doomed(d, m)
    BY <2>2 DEF IInv, Typed, TypeOK, AllToldTrue, ToldTrue
  <2>4. Key(d, m) = Key(c, n) /\ RequestOf(d, m) = RequestOf(c, n)
    BY <1>1, <2>2, SameIntent
  <2>5. Row(d, m) = Row(c, n)
    BY <2>4 DEF Row, Key
  <2> QED
    BY <1>1, <1>5, <2>3, <2>4, <2>5 DEF Doomed
<1>7. ~History!KeyUsed(e)
  <2> SUFFICES ASSUME NEW i \in DOMAIN versions, SavedEdit(i).actor = e.actor,
                      SavedEdit(i).key = e.key
               PROVE  FALSE
    BY EntryOf DEF History!KeyUsed
  <2>1. PICK j \in Actors \X Keys : RowFor(i, j) /\ SavedEdit(i) = RowEdit(j, rows[j])
    BY SavedEditAsked
  <2>2. j = k
    BY <2>1 DEF RowEdit, EditOf, Key
  <2> QED
    BY <1>5, <2>1, <2>2 DEF RowFor
<1>8. e.asset = request.asset /\ e.base = request.base
  BY DEF EditOf
<1>9. History!Entries(a) = VersionsOf(a)
  BY EntryOf DEF History!Entries, VersionsOf
<1>10. \/ e.asset = 0 /\ a \notin History!Assets
       \/ /\ e.asset = a /\ e.base \in History!Entries(a)
          /\ \A i \in History!Entries(a) : i <= e.base
  <2>1. CASE request.asset = 0
    <3>1. VersionsOf(a) = {}
      BY <1>1, <2>1, NewTarget DEF IInv
    <3>2. a \notin History!Assets
      BY <3>1, EntryOf DEF History!Assets, VersionsOf
    <3> QED
      BY <1>8, <2>1, <3>2
  <2>2. CASE request.asset # 0
    <3>1. /\ a = request.asset /\ a \in DOMAIN assets
          /\ Latest(request) = assets[a].latest
      BY <1>1, <2>2, GroundedTarget DEF IInv
    <3>2. request.base = assets[a].latest
      BY <1>1, <3>1 DEF Admissible, BaseIsLatest
    <3>3. Chained(a)
      BY <3>1 DEF IInv, ChainsOK
    <3> QED
      BY <1>8, <1>9, <3>1, <3>2, <3>3 DEF Chained
  <2> QED
    BY <2>1, <2>2
<1>11. UNCHANGED <<AskedEdits, RefusedEdits>>
  <2> DEFINE answer == Accepted([version |-> v, run |-> r])
  <2>1. answer \in Answer /\ answer # Refused
    BY <1>1, Answers
  <2> HIDE DEF answer
  <2>2. Answered(c, n, answer)
    BY <1>1 DEF answer
  <2>3. Learned(c, n, answer) \/ told' = told
    BY <1>1, <2>1, <2>2, AnsweredEffect DEF IInv
  <2>4. RefusesOnly(c, n) /\ (told'[c][n] = Refused <=> told[c][n] = Refused)
    BY <1>1, <2>1, <2>3, LearnedRefusal
  <2>5. RefusedEdits' = RefusedEdits
    BY <1>1, <2>4, RefusedEditsKept DEF RefusesOnly
  <2> QED
    BY <1>1, <2>5, AskedEditsKept
<1> HIDE DEF e
<1>12. History!TakeEffect(e, a)
  BY <1>2, <1>4, <1>6, <1>7, <1>10, <1>11 DEF History!TakeEffect
<1> QED
  BY <1>3, <1>4, <1>12

\* What neither saves nor refuses nor asks for an edit is no step of the history.
LEMMA QuietMaps ==
  ASSUME IInv, UNCHANGED <<versions, rows, intents>>,
         \A d \in Clients : \A m \in DOMAIN intents[d] :
           told'[d][m] = Refused <=> told[d][m] = Refused
  PROVE  UNCHANGED History!vars
BY AskedEditsKept, SavedEditsKept, RefusedEditsKept DEF History!vars

LEMMA InitMaps ==
  ASSUME Init
  PROVE  History!Init
<1>1. Asked = {}
  BY InAsked DEF Init
<1>2. AskedEdits = {} /\ RefusedEdits = {}
  BY <1>1 DEF AskedEdits, RefusedEdits
<1>3. SavedEdits = <<>>
  BY DEF Init, SavedEdits
<1> QED
  BY <1>2, <1>3 DEF History!Init

LEMMA AbandonMaps ==
  ASSUME IInv, NEW c \in Clients, Abandon(c)
  PROVE  UNCHANGED History!vars
<1>1. told' = [told EXCEPT ![c][Current(c)] = Abandoned]
  BY DEF Abandon
<1>2. told[c][Current(c)] = Waiting /\ told \in [Clients -> Seq(Answer)]
  BY DEF Abandon, IsWaiting, IInv, Typed, TypeOK
<1>3. Waiting # Refused /\ Abandoned # Refused
  BY Answers
<1>4. ASSUME NEW d \in Clients, NEW m \in DOMAIN intents[d]
      PROVE  told'[d][m] = Refused <=> told[d][m] = Refused
  <2>1. m \in DOMAIN told[d]
    BY DEF IInv, Typed, TypeOK
  <2>2. told'[d] = IF d = c THEN [told[c] EXCEPT ![Current(c)] = Abandoned] ELSE told[d]
    BY <1>1, <1>2
  <2>3. CASE d = c /\ m = Current(c)
    BY <1>2, <1>3, <2>1, <2>2, <2>3
  <2>4. CASE ~(d = c /\ m = Current(c))
    BY <2>1, <2>2, <2>4
  <2> QED
    BY <2>3, <2>4
<1> QED
  BY <1>4, QuietMaps DEF Abandon, service

LEMMA AnswerMaps ==
  ASSUME IInv, NEW c \in Clients, NEW n \in 1 .. MaxIntents, Arrives(c, n),
         NEW answer \in Answer, answer # Refused, Answered(c, n, answer),
         UNCHANGED <<service, intents>>
  PROVE  UNCHANGED History!vars
<1>1. n \in DOMAIN intents[c]
  BY DEF Arrives
<1>2. Learned(c, n, answer) \/ told' = told
  BY AnsweredEffect DEF IInv
<1>3. RefusesOnly(c, n) /\ (told'[c][n] = Refused <=> told[c][n] = Refused)
  BY <1>1, <1>2, LearnedRefusal
<1> QED
  BY <1>3, QuietMaps DEF RefusesOnly, service

LEMMA NextMaps ==
  ASSUME IInv, IInv', [Next]_vars
  PROVE  [History!Next]_(History!vars)
<1>1. ASSUME UNCHANGED <<versions, rows, intents, told>>
      PROVE  UNCHANGED History!vars
  BY <1>1, QuietMaps
<1>2. ASSUME NEW c \in Clients, NEW a \in AssetIds, Look(c, a)
      PROVE  UNCHANGED History!vars
  BY <1>1, <1>2 DEF Look, service
<1>3. ASSUME NEW c \in Clients, NEW key \in Keys, NEW a \in {0} \cup AssetIds,
             NEW content \in Contents, Intend(c, key, a, content)
      PROVE  \E e \in Edits : History!Ask(e)
  BY <1>3, AskMaps
<1>4. ASSUME NEW c \in Clients, Send(c) \/ Abandon(c)
      PROVE  UNCHANGED History!vars
  BY <1>1, <1>4, AbandonMaps DEF Send, service
<1>5. ASSUME NEW c \in Clients, NEW n \in 1 .. MaxIntents, Save(c, n)
      PROVE  \E e \in Edits : \E b \in 1 .. Len(SavedEdits) + 1 : History!TakeEffect(e, b)
  BY <1>5, SaveMaps
<1>6. ASSUME NEW c \in Clients, NEW n \in 1 .. MaxIntents, Replay(c, n)
      PROVE  UNCHANGED History!vars
  <2> DEFINE answer == Accepted(Row(c, n).response)
  <2>1. Arrives(c, n) /\ Answered(c, n, answer) /\ UNCHANGED <<service, intents>>
    BY <1>6 DEF Replay
  <2>2. Row(c, n) \in StoredRow
    BY <1>6, EditTyped DEF IInv, Arrives, Replay
  <2>3. answer \in Answer /\ answer # Refused
    BY <2>2, StoredRowFields, Answers
  <2> HIDE DEF answer
  <2> QED
    BY <2>1, <2>3, AnswerMaps
<1>7. ASSUME NEW c \in Clients, NEW n \in 1 .. MaxIntents, Refuse(c, n)
      PROVE  [\E e \in Edits : History!Refuse(e)]_(History!vars)
  BY <1>7, RefuseMaps
<1>8. ASSUME NEW c \in Clients, NEW n \in 1 .. MaxIntents, Deny(c, n)
      PROVE  UNCHANGED History!vars
  <2>1. Arrives(c, n) /\ Answered(c, n, Denied) /\ UNCHANGED <<service, intents>>
    BY <1>8 DEF Deny
  <2>2. Denied \in Answer /\ Denied # Refused
    BY Answers
  <2> QED
    BY <2>1, <2>2, AnswerMaps
<1>9. ASSUME NEW c \in Clients, NEW n \in 1 .. MaxIntents, Fail(c, n)
      PROVE  UNCHANGED History!vars
  BY <1>1, <1>9 DEF Fail, Rollback, service
<1>10. ASSUME NEW a \in AssetIds, Reassess(a)
       PROVE  UNCHANGED History!vars
  BY <1>1, <1>10 DEF Reassess
<1>11. ASSUME NEW p \in Actors, Revoke(p)
       PROVE  UNCHANGED History!vars
  BY <1>1, <1>11 DEF Revoke, service
<1>12. ASSUME UNCHANGED vars
       PROVE  UNCHANGED History!vars
  BY <1>1, <1>12 DEF vars, service
<1>13. \/ UNCHANGED History!vars
       \/ \E e \in Edits : History!Ask(e)
       \/ \E e \in Edits : \E b \in 1 .. Len(SavedEdits) + 1 : History!TakeEffect(e, b)
       \/ \E e \in Edits : History!Refuse(e)
  <2>1. CASE Next
    BY <2>1, <1>2, <1>3, <1>4, <1>5, <1>6, <1>7, <1>8, <1>9, <1>10, <1>11
    DEF Next, Handle
  <2> QED
    BY <1>12, <2>1
<1> QED
  BY <1>13 DEF History!Next

\* Copies, faults, retries and restarts included: intake is one history in which
\* an edit takes effect at most once, on its author's base, and never once refused.
THEOREM IntakeImplementsEditHistory == Spec => ImplementsEditHistory
<1>1. Init => History!Init
  BY InitMaps
<1>2. IInv /\ IInv' /\ [Next]_vars => [History!Next]_(History!vars)
  BY NextMaps
<1> QED
  BY <1>1, <1>2, AlwaysIInv, PTL DEF Spec, ImplementsEditHistory, History!Spec
===============================================================================
