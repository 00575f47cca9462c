-------------------------------- MODULE Intake --------------------------------
(* Saving versions through an unreliable network. A client reads an asset,   *)
(* asks for an edit under an idempotency key, loses answers, times out and   *)
(* sends again, so copies of a request reach `submit` late, twice, or after  *)
(* their author has moved on. The service keeps the idempotency table, the   *)
(* version chain and the runs it schedules, each handler one transaction.    *)
(* Identifiers are numbers in order of creation, 0 stands for no object.     *)
EXTENDS Naturals, Sequences, FiniteSets

CONSTANTS
  Clients,        \* programs that submit
  Actors,         \* principals of one tenant
  ActorOf,        \* [Clients -> Actors]
  Keys,           \* idempotency keys
  Contents,       \* request bodies, apart from asset and expected version
  Unacceptable,   \* bodies the brief, the inventory limit or an exclusion refuses
  None,
  MaxIntents,     \* bound: edits the clients ask for
  MaxCopies,      \* bound: copies of one request under way
  MaxReassessments,
  MaxFaults       \* bound: lost messages, dead transactions, restarts, revocations

ASSUME ConstantsAssumption ==
  /\ ActorOf \in [Clients -> Actors]
  /\ Unacceptable \subseteq Contents
  /\ MaxIntents \in Nat /\ MaxCopies \in Nat /\ MaxReassessments \in Nat /\ MaxFaults \in Nat

VARIABLES
  active,     \* principals that are not revoked
  assets,     \* assets[a]: latest version and current run
  versions,   \* versions[v]: asset, ordinal, previous version, content, author
  runs,       \* runs[r]: the version it assesses, and whether it is stale
  rows,       \* idempotency table: [Actors \X Keys -> None or request and response]
  intents,    \* intents[c]: the edits client c has asked for, the last one current
  told,       \* told[c][n]: what c has learnt of its n-th edit
  view,       \* view[c][a]: the version of a that c has in hand
  net,        \* net[c][n]: copies of c's n-th request under way
  faults

service == <<assets, versions, runs, rows>>
vars == <<active, service, intents, told, view, net, faults>>

AssetIds == 1 .. MaxIntents   \* no edit makes two
Request == [asset : Nat, base : Nat, content : Contents]
Intent == [key : Keys, request : Request]
Response == [version : Nat, run : Nat]
Asset == [latest : Nat, run : Nat]
Version == [asset : Nat, ordinal : Nat, previous : Nat, content : Contents, by : Actors]
Run == [version : Nat, stale : BOOLEAN]
StoredRow == [request : Request, response : Response]
ASSUME NoneAssumption == None \notin StoredRow   \* no row is not a row

Waiting == [outcome |-> "waiting"]
Refused == [outcome |-> "refused"]
Denied == [outcome |-> "denied"]
Abandoned == [outcome |-> "abandoned"]
Accepted(response) == [outcome |-> "saved", response |-> response]
Answer ==
  {Waiting, Refused, Denied, Abandoned} \cup [outcome : {"saved"}, response : Response]

Current(c) == Len(intents[c])
IsWaiting(c) == Current(c) > 0 /\ told[c][Current(c)] = Waiting
RequestOf(c, n) == intents[c][n].request
Asked == UNION {{<<c, n>> : n \in DOMAIN intents[c]} : c \in Clients}

Row(c, n) == rows[<<ActorOf[c], intents[c][n].key>>]

-------------------------------------------------------------------------------
(* Clients *)

\* asset_get: the client takes the latest version in hand.
Look(c, a) ==
  /\ a \in DOMAIN assets
  /\ ~IsWaiting(c)
  /\ view[c][a] # assets[a].latest
  /\ view' = [view EXCEPT ![c][a] = assets[a].latest]
  /\ UNCHANGED <<active, service, intents, told, net, faults>>

\* A client settles on an edit and its key. Nothing keeps it from a used key.
Intend(c, key, a, content) ==
  /\ ~IsWaiting(c)
  /\ Cardinality(Asked) < MaxIntents
  /\ a # 0 => view[c][a] # 0
  /\ LET base == IF a = 0 THEN 0 ELSE view[c][a]
         request == [asset |-> a, base |-> base, content |-> content]
     IN  intents' = [intents EXCEPT ![c] = Append(@, [key |-> key, request |-> request])]
  /\ told' = [told EXCEPT ![c] = Append(@, Waiting)]
  /\ UNCHANGED <<active, service, view, net, faults>>

\* The first request, and every repetition after a timeout.
Send(c) ==
  /\ IsWaiting(c)
  /\ net[c][Current(c)] < MaxCopies
  /\ net' = [net EXCEPT ![c][Current(c)] = @ + 1]
  /\ UNCHANGED <<active, service, intents, told, view, faults>>

\* The client restarts and forgets; its copies stay under way.
Abandon(c) ==
  /\ IsWaiting(c)
  /\ faults < MaxFaults
  /\ faults' = faults + 1
  /\ told' = [told EXCEPT ![c][Current(c)] = Abandoned]
  /\ view' = [view EXCEPT ![c] = [a \in AssetIds |-> 0]]
  /\ UNCHANGED <<active, service, intents, net>>

-------------------------------------------------------------------------------
(* The service: one transaction for each copy that arrives *)

KnownAsset(request) == request.asset # 0
Latest(request) == IF KnownAsset(request) THEN assets[request.asset].latest ELSE 0

\* Mutant: any version of the asset will do as the expected one.
BaseIsLatest_Exists(request) ==
  KnownAsset(request) => /\ request.base \in DOMAIN versions
                         /\ versions[request.base].asset = request.asset
BaseIsLatest(request) == request.base = Latest(request)

\* Mutant: the key alone decides that a request is a repetition.
SameRequest_KeyOnly(row, request) == TRUE
SameRequest(row, request) == row.request = request
Admissible(request) == request.content \notin Unacceptable /\ BaseIsLatest(request)

Target(request) == IF KnownAsset(request) THEN request.asset ELSE Len(assets) + 1
NextOrdinal(a) == Cardinality({v \in DOMAIN versions : versions[v].asset = a}) + 1

\* schedule: the asset's run is retired and a new one takes its place.
Scheduled(a, v) ==
  /\ runs' = Append([r \in DOMAIN runs |->
                       IF a \in DOMAIN assets /\ r = assets[a].run
                       THEN [runs[r] EXCEPT !.stale = TRUE] ELSE runs[r]],
                    [version |-> v, stale |-> FALSE])
  /\ assets' = IF a \in DOMAIN assets
               THEN [assets EXCEPT ![a] = [latest |-> v, run |-> Len(runs) + 1]]
               ELSE Append(assets, [latest |-> v, run |-> Len(runs) + 1])

\* Mutant: only what was saved is answered, a rejection closes the connection.
Answered_SavedOnly(c, n, answer) ==
  /\ net' = [net EXCEPT ![c][n] = @ - 1]
  /\ IF answer.outcome = "saved"
     THEN told' = [told EXCEPT ![c][n] = IF @ = Waiting THEN answer ELSE @]
     ELSE UNCHANGED told
  /\ UNCHANGED <<view, faults>>
\* The answer arrives unless it is lost; who no longer waits ignores it.
Answered(c, n, answer) ==
  /\ net' = [net EXCEPT ![c][n] = @ - 1]
  /\ \/ /\ told' = [told EXCEPT ![c][n] = IF @ = Waiting THEN answer ELSE @]
        /\ view' = IF told[c][n] = Waiting /\ answer.outcome = "saved"
                   THEN [view EXCEPT ![c][versions'[answer.response.version].asset] =
                           answer.response.version]
                   ELSE view
        /\ UNCHANGED faults
     \/ /\ faults < MaxFaults
        /\ faults' = faults + 1
        /\ UNCHANGED <<told, view>>

Arrives(c, n) == n \in DOMAIN intents[c] /\ net[c][n] > 0

\* submit, the version is saved: version, run and idempotency row together.
Save(c, n) ==
  LET request == RequestOf(c, n)
      a == Target(request)
      response == [version |-> Len(versions) + 1, run |-> Len(runs) + 1]
  IN  /\ Arrives(c, n)
      /\ ActorOf[c] \in active
      /\ Row(c, n) = None
      /\ Admissible(request)
      /\ versions' = Append(versions,
           [asset |-> a, ordinal |-> NextOrdinal(a), previous |-> Latest(request),
            content |-> request.content, by |-> ActorOf[c]])
      /\ Scheduled(a, Len(versions) + 1)
      /\ rows' = [rows EXCEPT ![<<ActorOf[c], intents[c][n].key>>] =
                    [request |-> request, response |-> response]]
      /\ Answered(c, n, Accepted(response))
      /\ UNCHANGED <<active, intents>>

\* submit, the key is known for this very request: the stored answer again.
Replay(c, n) ==
  /\ Arrives(c, n)
  /\ ActorOf[c] \in active
  /\ Row(c, n) # None
  /\ SameRequest(Row(c, n), RequestOf(c, n))
  /\ UNCHANGED <<active, service, intents>>
  /\ Answered(c, n, Accepted(Row(c, n).response))

\* Mutant: without BEGIN IMMEDIATE each statement stands, the new asset first.
Rollback_Autocommit(c, n) ==
  /\ assets' = IF KnownAsset(RequestOf(c, n)) THEN assets
               ELSE Append(assets, [latest |-> 0, run |-> 0])
  /\ UNCHANGED <<versions, runs, rows>>
\* What a transaction that fails leaves of the rows it had inserted: nothing.
Rollback(c, n) == UNCHANGED service

\* submit, refused for good: the key belongs to another request, the base is
\* not the latest version, or the content is not acceptable.
Refuse(c, n) ==
  /\ Arrives(c, n)
  /\ ActorOf[c] \in active
  /\ IF Row(c, n) = None THEN ~Admissible(RequestOf(c, n))
                         ELSE ~SameRequest(Row(c, n), RequestOf(c, n))
  /\ Rollback(c, n)
  /\ Answered(c, n, Refused)
  /\ UNCHANGED <<active, intents>>

\* authorize refuses a revoked principal before anything is looked up.
Deny(c, n) ==
  /\ Arrives(c, n)
  /\ ActorOf[c] \notin active
  /\ Answered(c, n, Denied)
  /\ UNCHANGED <<active, service, intents>>

\* The request is lost, or the process or its transaction dies.
Fail(c, n) ==
  /\ Arrives(c, n)
  /\ faults < MaxFaults
  /\ faults' = faults + 1
  /\ net' = [net EXCEPT ![c][n] = @ - 1]
  /\ Rollback(c, n)
  /\ UNCHANGED <<active, intents, told, view>>

\* Reassessment, by request or because the governance of the asset changed.
Reassess(a) ==
  /\ a \in DOMAIN assets
  /\ Len(runs) - Len(versions) < MaxReassessments
  /\ Scheduled(a, assets[a].latest)
  /\ UNCHANGED <<active, versions, rows, intents, told, view, net, faults>>

Revoke(p) ==
  /\ p \in active
  /\ faults < MaxFaults
  /\ faults' = faults + 1
  /\ active' = active \ {p}
  /\ UNCHANGED <<service, intents, told, view, net>>

Init ==
  /\ active = Actors
  /\ assets = <<>> /\ versions = <<>> /\ runs = <<>>
  /\ rows = [k \in Actors \X Keys |-> None]
  /\ intents = [c \in Clients |-> <<>>]
  /\ told = [c \in Clients |-> <<>>]
  /\ view = [c \in Clients |-> [a \in AssetIds |-> 0]]
  /\ net = [c \in Clients |-> [n \in 1 .. MaxIntents |-> 0]]
  /\ faults = 0

Handle(c, n) == Save(c, n) \/ Replay(c, n) \/ Refuse(c, n) \/ Deny(c, n)

Next ==
  \/ \E c \in Clients :
       \/ \E a \in AssetIds : Look(c, a)
       \/ \E key \in Keys, a \in {0} \cup AssetIds, content \in Contents :
            Intend(c, key, a, content)
       \/ Send(c)
       \/ Abandon(c)
       \/ \E n \in 1 .. MaxIntents : Handle(c, n) \/ Fail(c, n)
  \/ \E a \in AssetIds : Reassess(a)
  \/ \E p \in Actors : Revoke(p)

Spec == Init /\ [][Next]_vars

\* A client that waits keeps sending, and the service handles what arrives.
Fairness ==
  \A c \in Clients :
    /\ WF_vars(Send(c))
    /\ \A n \in 1 .. MaxIntents : WF_vars(Handle(c, n))
FairSpec == Spec /\ Fairness
-------------------------------------------------------------------------------
(* What intake guarantees *)

\* Every variable has its type, and indices point at rows that exist.
TypeOK ==
  /\ active \subseteq Actors
  /\ assets \in Seq(Asset)
  /\ versions \in Seq(Version)
  /\ runs \in Seq(Run)
  /\ rows \in [Actors \X Keys -> {None} \cup StoredRow]
  /\ intents \in [Clients -> Seq(Intent)]
  /\ told \in [Clients -> Seq(Answer)]
  /\ \A c \in Clients : DOMAIN told[c] = DOMAIN intents[c]
  /\ view \in [Clients -> [AssetIds -> Nat]]
  /\ net \in [Clients -> [1 .. MaxIntents -> Nat]]
  /\ faults \in Nat

VersionsOf(a) == {v \in DOMAIN versions : versions[v].asset = a}

\* The versions of an asset form one chain, numbered without gaps, that ends in
\* the latest version; the asset's run assesses that version, and every other
\* run is stale. An asset without a version would break it, so would a version
\* saved beside another one.
OneChainPerAsset ==
  /\ \A a \in DOMAIN assets :
       /\ assets[a].latest \in VersionsOf(a)
       /\ \A v \in VersionsOf(a) :
            LET earlier == {w \in VersionsOf(a) : w < v}
            IN  /\ v <= assets[a].latest
                /\ versions[v].ordinal = Cardinality(earlier) + 1
                /\ IF earlier = {} THEN versions[v].previous = 0
                   ELSE /\ versions[v].previous \in earlier
                        /\ \A w \in earlier : w <= versions[v].previous
       /\ assets[a].run \in DOMAIN runs
       /\ runs[assets[a].run].version = assets[a].latest
  /\ \A r \in DOMAIN runs :
       runs[r].stale <=> r # assets[versions[runs[r].version].asset].run

\* Version v is what the request asked of its author's behalf.
Fulfils(v, p, request) ==
  /\ v \in DOMAIN versions
  /\ versions[v].content = request.content
  /\ versions[v].previous = request.base
  /\ versions[v].by = p
  /\ IF request.asset = 0 THEN versions[v].ordinal = 1
                          ELSE versions[v].asset = request.asset

\* Whoever has been told that an edit was saved finds it under that answer,
\* exactly as asked and on the version the edit was made from, however late or
\* often the answer was given; the run it names assesses that version and is
\* current for the asset unless it is stale.
AnswersTrue ==
  \A c \in Clients : \A n \in DOMAIN told[c] :
    told[c][n].outcome = "saved" =>
      LET answer == told[c][n].response
      IN  /\ Fulfils(answer.version, ActorOf[c], RequestOf(c, n))
          /\ answer.run \in DOMAIN runs
          /\ runs[answer.run].version = answer.version
          /\ runs[answer.run].stale \/ assets[versions[answer.version].asset].run = answer.run

EditOf(c, n) ==
  [actor |-> ActorOf[c], key |-> intents[c][n].key, asset |-> RequestOf(c, n).asset,
   base |-> RequestOf(c, n).base, content |-> RequestOf(c, n).content]
RowsOf(v) == {k \in DOMAIN rows : rows[k] # None /\ rows[k].response.version = v}
SavedEdit(v) ==
  IF RowsOf(v) = {} THEN None
  ELSE LET k == CHOOSE k \in RowsOf(v) : TRUE
       IN  [actor |-> k[1], key |-> k[2], asset |-> rows[k].request.asset,
            base |-> rows[k].request.base, content |-> rows[k].request.content]
Edits == [actor : Actors, key : Keys, asset : {0} \cup AssetIds,
          base : {0} \cup AssetIds, content : Contents]

AskedEdits == {EditOf(q[1], q[2]) : q \in Asked}
SavedEdits ==
  [v \in DOMAIN versions |-> [edit |-> SavedEdit(v), asset |-> versions[v].asset]]
RefusedEdits ==
  {EditOf(q[1], q[2]) : q \in {p \in Asked : told[p[1]][p[2]] = Refused}}

\* Copies, faults, retries and restarts included, every edit takes effect at
\* most once, directly on the version its author had in hand, and a refused
\* edit never takes effect later.
History == INSTANCE EditHistory WITH
  asked <- AskedEdits, history <- SavedEdits, refused <- RefusedEdits
ImplementsEditHistory == History!Spec

\* A client that keeps retrying learns what became of its edit.
EveryEditAnswered ==
  \A c \in Clients : \A n \in 1 .. MaxIntents :
    (n \in DOMAIN told[c] /\ told[c][n] = Waiting)
      ~> (n \in DOMAIN told[c] /\ told[c][n] # Waiting)
===============================================================================
