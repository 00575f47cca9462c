--------------------------- MODULE Snapshot_proofs ---------------------------
(***************************************************************************)
(* What a snapshot tells, for any run: whatever the plan, the machine's    *)
(* results, the reviewers and the decisions they take.                     *)
(***************************************************************************)
EXTENDS Snapshot, Rubric_proofs

-----------------------------------------------------------------------------
(* The replay, decision by decision *)

IsReplay(c, m, log, n, boards) ==
  boards = [i \in 0..n |-> IF i = 0 THEN Base(c, m) ELSE Apply(boards[i - 1], log[i])]

LEMMA ReplayExists ==
  ASSUME NEW c, NEW m, NEW log, NEW n \in Nat
  PROVE  \E boards : IsReplay(c, m, log, n, boards)
<1> DEFINE Bad == {k \in Nat : ~ \E boards : IsReplay(c, m, log, k, boards)}
<1> SUFFICES ASSUME Bad # {}
             PROVE  FALSE
  OBVIOUS
<1>1. PICK k \in Bad : \A j \in Bad : k <= j
  BY LeastNatural
<1>2. k \in Nat /\ ~ \E boards : IsReplay(c, m, log, k, boards)
  OBVIOUS
<1>3. CASE k = 0
  <2> DEFINE boards == [i \in 0..0 |-> Base(c, m)]
  <2>1. boards = [i \in 0..0 |-> IF i = 0 THEN Base(c, m) ELSE Apply(boards[i - 1], log[i])]
    OBVIOUS
  <2> QED
    BY <1>2, <1>3, <2>1 DEF IsReplay
<1>4. CASE k # 0
  <2>1. k - 1 \in Nat /\ k - 1 \notin Bad
    BY <1>1, <1>2, <1>4
  <2>2. PICK f : IsReplay(c, m, log, k - 1, f)
    BY <2>1
  <2> DEFINE g == [i \in 0..k |-> IF i = 0 THEN Base(c, m) ELSE Apply(f[i - 1], log[i])]
  <2>3. \A i \in 0..(k - 1) : f[i] = IF i = 0 THEN Base(c, m) ELSE Apply(f[i - 1], log[i])
    BY <2>2 DEF IsReplay
  <2>4. \A i \in 0..(k - 1) : g[i] = f[i]
    BY <2>1, <2>3
  <2>5. \A i \in 0..k : g[i] = IF i = 0 THEN Base(c, m) ELSE Apply(g[i - 1], log[i])
    <3> SUFFICES ASSUME NEW i \in 0..k
                 PROVE  g[i] = IF i = 0 THEN Base(c, m) ELSE Apply(g[i - 1], log[i])
      OBVIOUS
    <3>1. i # 0 => i - 1 \in 0..(k - 1)
      BY <1>2
    <3> QED
      BY <2>4, <3>1
  <2>6. IsReplay(c, m, log, k, g)
    BY <2>5 DEF IsReplay
  <2> QED
    BY <1>2, <2>6
<1> QED
  BY <1>3, <1>4

Boards(c, m, log) == CHOOSE boards : IsReplay(c, m, log, Len(log), boards)

LEMMA ReplayIs ==
  ASSUME NEW c, NEW m, NEW log, Len(log) \in Nat
  PROVE  /\ Replay(c, m, log) = Boards(c, m, log)[Len(log)]
         /\ \A i \in 0..Len(log) : Boards(c, m, log)[i] =
              IF i = 0 THEN Base(c, m) ELSE Apply(Boards(c, m, log)[i - 1], log[i])
<1>1. IsReplay(c, m, log, Len(log), Boards(c, m, log))
  BY ReplayExists DEF Boards
<1>2. Replay(c, m, log) = Boards(c, m, log)[Len(log)]
  BY DEF Replay, Boards, IsReplay
<1> HIDE DEF Boards
<1>3. \A i \in 0..Len(log) : Boards(c, m, log)[i] =
        IF i = 0 THEN Base(c, m) ELSE Apply(Boards(c, m, log)[i - 1], log[i])
  <2> DEFINE boards == Boards(c, m, log)
  <2>1. boards = [i \in 0..Len(log) |-> IF i = 0 THEN Base(c, m) ELSE Apply(boards[i - 1], log[i])]
    BY <1>1 DEF IsReplay
  <2> HIDE DEF boards
  <2>2. \A i \in 0..Len(log) : boards[i] = IF i = 0 THEN Base(c, m) ELSE Apply(boards[i - 1], log[i])
    BY <2>1
  <2> QED
    BY <2>2 DEF boards
<1> QED
  BY <1>2, <1>3

\* What a decision makes of the board does not depend on later ones.
LEMMA ReplayOfPrefix ==
  ASSUME NEW c, NEW m, NEW a, NEW b, Len(a) \in Nat, Len(b) \in Nat, Len(a) <= Len(b),
         \A i \in 1..Len(a) : a[i] = b[i]
  PROVE  \A i \in 0..Len(a) : Boards(c, m, a)[i] = Boards(c, m, b)[i]
<1> DEFINE f == Boards(c, m, a)
           g == Boards(c, m, b)
           Bad == {i \in 0..Len(a) : f[i] # g[i]}
<1> SUFFICES ASSUME Bad # {}
             PROVE  FALSE
  OBVIOUS
<1>1. /\ \A i \in 0..Len(a) : f[i] = IF i = 0 THEN Base(c, m) ELSE Apply(f[i - 1], a[i])
      /\ \A i \in 0..Len(b) : g[i] = IF i = 0 THEN Base(c, m) ELSE Apply(g[i - 1], b[i])
  BY ReplayIs
<1> HIDE DEF f, g
<1>2. Bad \in SUBSET Nat
  OBVIOUS
<1>3. PICK k \in Bad : \A j \in Bad : k <= j
  BY <1>2, LeastNatural
<1>4. k \in 0..Len(a) /\ k \in 0..Len(b) /\ f[k] # g[k]
  BY <1>3
<1>5. CASE k = 0
  BY <1>1, <1>4, <1>5
<1>6. CASE k # 0
  <2>1. k - 1 \in 0..Len(a) /\ k \in 1..Len(a)
    BY <1>4, <1>6
  <2>2. f[k - 1] = g[k - 1]
    BY <1>3, <1>4, <2>1
  <2> QED
    BY <1>1, <1>4, <1>6, <2>1, <2>2
<1> QED
  BY <1>5, <1>6

LEMMA ReplayAppend ==
  ASSUME NEW c, NEW m, NEW D, NEW log \in Seq(D), NEW d \in D
  PROVE  Replay(c, m, Append(log, d)) = Apply(Replay(c, m, log), d)
<1> DEFINE longer == Append(log, d)
           n == Len(log)
<1>1. /\ n \in Nat /\ Len(longer) = n + 1 /\ longer[n + 1] = d
      /\ \A i \in 1..n : log[i] = longer[i]
  OBVIOUS
<1> HIDE DEF longer
<1>2. Replay(c, m, longer) = Boards(c, m, longer)[n + 1]
      /\ Boards(c, m, longer)[n + 1] = Apply(Boards(c, m, longer)[n], d)
  <2>1. n + 1 \in 0..Len(longer) /\ n + 1 # 0 /\ (n + 1) - 1 = n
    BY <1>1
  <2> QED
    BY <1>1, <2>1, ReplayIs
<1>3. Boards(c, m, longer)[n] = Boards(c, m, log)[n]
  BY <1>1, ReplayOfPrefix
<1>4. Replay(c, m, log) = Boards(c, m, log)[n]
  BY <1>1, ReplayIs
<1> QED
  BY <1>2, <1>3, <1>4 DEF longer

LEMMA ReplayFirst ==
  ASSUME NEW c, NEW m, NEW d
  PROVE  Replay(c, m, <<d>>) = Apply(Base(c, m), d)
<1>1. Len(<<d>>) = 1 /\ <<d>>[1] = d
  OBVIOUS
<1> DEFINE log == <<d>>
<1> HIDE DEF log
<1>2. /\ Replay(c, m, log) = Boards(c, m, log)[1]
      /\ \A i \in 0..1 : Boards(c, m, log)[i] =
           IF i = 0 THEN Base(c, m) ELSE Apply(Boards(c, m, log)[i - 1], log[i])
  BY <1>1, ReplayIs DEF log
<1>3. Boards(c, m, log)[0] = Base(c, m) /\ Boards(c, m, log)[1] = Apply(Boards(c, m, log)[0], log[1])
  <2>1. 0 \in 0..1 /\ 1 \in 0..1 /\ 1 # 0 /\ 1 - 1 = 0
    OBVIOUS
  <2> QED
    BY <1>2, <2>1
<1> QED
  BY <1>1, <1>2, <1>3 DEF log

-----------------------------------------------------------------------------
(* The entries of the log and the last that names a thing *)

\* The name of the finding of a failed check, and of one that a review raised.
CheckFinding(e) == <<"check", e>>
ReviewFinding(i, s) == <<"review", i, s>>

FindingNames ==
  {CheckFinding(e) : e \in Automatic}
    \cup {ReviewFinding(i, s) : i \in Nat, s \in UNION {r.raises : r \in Reviews}}

Written(p, n, r, closes) ==
  [kind |-> "review", by |-> p, number |-> n, closes |-> closes,
   ratings |-> r.ratings, outcomes |-> r.outcomes, gates |-> r.gates, raises |-> r.raises]

ScopeEntry == [kind : {"scope"}, inventory : BOOLEAN]
SpecialistEntry == [kind : {"specialist"}, by : Specialists]
ReviewEntry ==
  {Written(p, n, r, closes) :
     p \in Reviewers, n \in Nat, r \in Reviews, closes \in SUBSET FindingNames}
Entry == ScopeEntry \cup SpecialistEntry \cup ReviewEntry

LEMMA EntryIs ==
  ASSUME NEW d \in Entry
  PROVE  /\ d.kind \in {"scope", "review", "specialist"}
         /\ d.kind = "scope" => d.inventory \in BOOLEAN
         /\ d.kind = "review" =>
              /\ DOMAIN d.ratings \subseteq Criteria
              /\ \A k \in DOMAIN d.ratings : d.ratings[k] \in 0..4
              /\ \A e \in DOMAIN d.outcomes : d.outcomes[e] \in {"pass", "fail", "unknown"}
              /\ DOMAIN d.gates \subseteq Gates \ {"R1", "R7"}
              /\ \A g \in DOMAIN d.gates : d.gates[g] \in Judgements
              /\ d.closes \subseteq FindingNames
<1>1. CASE d \in ScopeEntry
  BY <1>1 DEF ScopeEntry
<1>2. CASE d \in SpecialistEntry
  BY <1>2 DEF SpecialistEntry
<1>3. CASE d \in ReviewEntry
  <2>1. PICK p \in Reviewers, n \in Nat, r \in Reviews, closes \in SUBSET FindingNames :
          d = Written(p, n, r, closes)
    BY <1>3 DEF ReviewEntry
  <2>2. /\ d.kind = "review" /\ d.ratings = r.ratings /\ d.outcomes = r.outcomes
        /\ d.gates = r.gates /\ d.closes = closes
    BY <2>1 DEF Written
  <2>3. /\ DOMAIN r.ratings \subseteq Criteria
        /\ \A k \in DOMAIN r.ratings : r.ratings[k] \in 0..4
        /\ \A e \in DOMAIN r.outcomes : r.outcomes[e] \in {"pass", "fail", "unknown"}
        /\ DOMAIN r.gates \subseteq Gates \ {"R1", "R7"}
        /\ \A g \in DOMAIN r.gates : r.gates[g] \in Judgements
    BY ReviewsAssumption DEF Ratings
  <2> QED
    BY <2>2, <2>3
<1> QED
  BY <1>1, <1>2, <1>3 DEF Entry

LEMMA LastOfIs ==
  ASSUME NEW n \in Nat, NEW S \in SUBSET (1..n)
  PROVE  /\ LastOf(S) \in 0..n
         /\ LastOf(S) = 0 <=> S = {}
         /\ LastOf(S) # 0 => LastOf(S) \in S /\ \A i \in S : i <= LastOf(S)
<1>1. CASE S # {}
  <2> DEFINE T == {n - i : i \in S}
  <2>0. \A i \in S : i \in 1..n /\ n - i \in Nat
    <3>1. \A i \in 1..n : n - i \in Nat
      OBVIOUS
    <3> QED
      BY <3>1
  <2>1. T \in SUBSET Nat /\ T # {}
    BY <1>1, <2>0
  <2>2. PICK t \in T : \A j \in T : t <= j
    BY <2>1, LeastNatural
  <2>3. PICK m \in S : t = n - m
    BY <2>2
  <2>4. \A i \in S : m >= i
    <3> SUFFICES ASSUME NEW i \in S
                 PROVE  m >= i
      OBVIOUS
    <3>1. t <= n - i
      BY <2>2
    <3>2. m \in 1..n /\ i \in 1..n
      OBVIOUS
    <3> QED
      BY <2>3, <3>1, <3>2
  <2>5. Max(S) \in S /\ \A i \in S : Max(S) >= i
    BY <2>4 DEF Max
  <2>6. LastOf(S) = Max(S)
    BY <1>1 DEF LastOf
  <2>7. LastOf(S) \in S /\ LastOf(S) \in 1..n
    BY <2>0, <2>5, <2>6
  <2>8. \A i \in S : i <= LastOf(S)
    BY <2>0, <2>5, <2>6, <2>7
  <2> QED
    BY <1>1, <2>7, <2>8
<1> QED
  BY <1>1 DEF LastOf

LEMMA LastOfMore ==
  ASSUME NEW n \in Nat, NEW S \in SUBSET (1..n)
  PROVE  LastOf(S \cup {n + 1}) = n + 1
<1> DEFINE T == S \cup {n + 1}
<1>1. T \in SUBSET (1..(n + 1)) /\ n + 1 \in T /\ n + 1 \in Nat
  OBVIOUS
<1> HIDE DEF T
<1>2. LastOf(T) \in 0..(n + 1) /\ LastOf(T) # 0 /\ \A i \in T : i <= LastOf(T)
  BY <1>1, LastOfIs
<1>3. n + 1 <= LastOf(T)
  BY <1>1, <1>2
<1> QED
  BY <1>2, <1>3 DEF T

\* What the last review that names key in a field says.
LastSays(log, field, key, default) ==
  LET i == LastOf(Naming(log, field, key))
  IN  IF i = 0 THEN default ELSE log[i][field][key]

LEMMA NamingIs ==
  ASSUME NEW log \in Seq(Entry), NEW field, NEW key
  PROVE  /\ Naming(log, field, key) \in SUBSET (1..Len(log)) /\ Len(log) \in Nat
         /\ \A d \in Entry : Naming(Append(log, d), field, key) =
              IF d.kind = "review" /\ key \in DOMAIN d[field]
              THEN Naming(log, field, key) \cup {Len(log) + 1} ELSE Naming(log, field, key)
<1>1. DOMAIN log = 1..Len(log) /\ Len(log) \in Nat
  OBVIOUS
<1>2. ASSUME NEW d \in Entry
      PROVE  Naming(Append(log, d), field, key) =
               IF d.kind = "review" /\ key \in DOMAIN d[field]
               THEN Naming(log, field, key) \cup {Len(log) + 1} ELSE Naming(log, field, key)
  <2> DEFINE longer == Append(log, d)
  <2>1. /\ DOMAIN longer = (1..Len(log)) \cup {Len(log) + 1}
        /\ longer[Len(log) + 1] = d /\ \A i \in 1..Len(log) : longer[i] = log[i]
        /\ Len(log) + 1 \notin 1..Len(log)
    OBVIOUS
  <2> HIDE DEF longer
  <2>2. Naming(longer, field, key) =
          IF d.kind = "review" /\ key \in DOMAIN d[field]
          THEN Naming(log, field, key) \cup {Len(log) + 1} ELSE Naming(log, field, key)
    <3>1. CASE d.kind = "review" /\ key \in DOMAIN d[field]
      BY <1>1, <2>1, <3>1 DEF Naming
    <3>2. CASE ~ (d.kind = "review" /\ key \in DOMAIN d[field])
      BY <1>1, <2>1, <3>2 DEF Naming
    <3> QED
      BY <3>1, <3>2
  <2> QED
    BY <2>2 DEF longer
<1> QED
  BY <1>1, <1>2 DEF Naming

LEMMA SaysAppend ==
  ASSUME NEW log \in Seq(Entry), NEW field, NEW key, NEW default, NEW d \in Entry
  PROVE  LastSays(Append(log, d), field, key, default) =
           IF d.kind = "review" /\ key \in DOMAIN d[field] THEN d[field][key]
           ELSE LastSays(log, field, key, default)
<1> DEFINE S == Naming(log, field, key)
           longer == Append(log, d)
<1>1. S \in SUBSET (1..Len(log)) /\ Len(log) \in Nat
  BY NamingIs
<1>2. longer[Len(log) + 1] = d /\ \A i \in 1..Len(log) : longer[i] = log[i]
  OBVIOUS
<1>3. Naming(longer, field, key) =
        IF d.kind = "review" /\ key \in DOMAIN d[field] THEN S \cup {Len(log) + 1} ELSE S
  BY NamingIs
<1> HIDE DEF S, longer
<1>4. CASE d.kind = "review" /\ key \in DOMAIN d[field]
  <2>1. LastOf(Naming(longer, field, key)) = Len(log) + 1
    BY <1>1, <1>3, <1>4, LastOfMore
  <2> QED
    BY <1>1, <1>2, <1>4, <2>1 DEF LastSays, longer
<1>5. CASE ~ (d.kind = "review" /\ key \in DOMAIN d[field])
  <2>1. Naming(longer, field, key) = S
    BY <1>3, <1>5
  <2>2. LastOf(S) \in 0..Len(log)
    BY <1>1, LastOfIs
  <2>3. LastOf(S) # 0 => longer[LastOf(S)] = log[LastOf(S)]
    BY <1>1, <1>2, <2>2
  <2> QED
    BY <1>5, <2>1, <2>3 DEF LastSays, longer, S
<1> QED
  BY <1>4, <1>5

\* What a board says about a thing: what it said before any review, or the word
\* of a review that names it.
LEMMA SaysIs ==
  ASSUME NEW log \in Seq(Entry), NEW field, NEW key, NEW default,
         NEW i, i = LastOf(Naming(log, field, key))
  PROVE  /\ i = 0 => LastSays(log, field, key, default) = default
         /\ i # 0 => /\ i \in DOMAIN log /\ log[i] \in Entry /\ log[i].kind = "review"
                     /\ key \in DOMAIN log[i][field]
                     /\ LastSays(log, field, key, default) = log[i][field][key]
<1>1. Naming(log, field, key) \in SUBSET (1..Len(log)) /\ Len(log) \in Nat
  BY NamingIs
<1>2. i # 0 => i \in Naming(log, field, key)
  BY <1>1, LastOfIs
<1> QED
  BY <1>2 DEF LastSays, Naming

-----------------------------------------------------------------------------
(* The board after a log *)

IsBoard(b) ==
  b = [items |-> b.items, checks |-> b.checks, gates |-> b.gates, findings |-> b.findings,
       inventory |-> b.inventory, specialist |-> b.specialist, exclusions |-> b.exclusions]

LEMMA UpdatedIs ==
  ASSUME NEW f, NEW g
  PROVE  /\ DOMAIN Updated(f, g) = DOMAIN f \cup DOMAIN g
         /\ \A k \in DOMAIN f \cup DOMAIN g :
              Updated(f, g)[k] = IF k \in DOMAIN g THEN g[k] ELSE f[k]
BY DEF Updated

LEMMA ScopeBoard ==
  ASSUME NEW b, IsBoard(b), NEW d, NEW a, a = ApplyScope(b, d)
  PROVE  /\ IsBoard(a) /\ a.inventory = d.inventory /\ a.specialist = b.specialist
         /\ a.exclusions = b.exclusions /\ a.checks = b.checks /\ a.findings = b.findings
         /\ a.gates = [b.gates EXCEPT !["R1"] = "pass"]
         /\ a.items = [k \in Criteria |-> IF k \in b.exclusions THEN Item("excluded", None)
                                          ELSE b.items[k]]
BY DEF IsBoard, ApplyScope

Raised(d) ==
  [f \in {ReviewFinding(d.number, s) : s \in d.raises} |-> [severity |-> f[3], open |-> TRUE]]

ClosedBy(found, closes) ==
  [f \in DOMAIN found |-> [found[f] EXCEPT !.open = @ /\ f \notin closes]]

Reviewed(a, b, d) ==
  /\ IsBoard(a) /\ a.inventory = b.inventory /\ a.specialist = FALSE
  /\ a.exclusions = b.exclusions
  /\ a.items = Updated(b.items, Rerated(d))
  /\ a.checks = Updated(b.checks, d.outcomes)
  /\ a.gates = Updated(b.gates, d.gates)
  /\ a.findings = ClosedBy(Updated(b.findings, Raised(d)), d.closes)

LEMMA ReviewBoard ==
  ASSUME NEW b, IsBoard(b), NEW d, NEW a, a = ApplyReview(b, d)
  PROVE  Reviewed(a, b, d)
BY DEF Reviewed, IsBoard, ApplyReview, Raised, ReviewFinding, ClosedBy

Heard(a, b) ==
  /\ IsBoard(a) /\ a.inventory = b.inventory /\ a.specialist = TRUE
  /\ a.exclusions = b.exclusions /\ a.items = b.items /\ a.checks = b.checks
  /\ a.gates = b.gates /\ a.findings = b.findings

LEMMA SpecialistBoard ==
  ASSUME NEW b, IsBoard(b), NEW d, NEW a, a = ApplySpecialist(b, d)
  PROVE  Heard(a, b)
BY DEF Heard, IsBoard, ApplySpecialist

LEMMA BaseBoard == \A c, m : IsBoard(Base(c, m))
BY DEF IsBoard, Base

\* What was found before the n-th decision, and what was closed by whom.
IsFound(f, m, log, n) ==
  \/ \E e \in Automatic : m[e] = "fail" /\ f = CheckFinding(e)
  \/ \E i \in 1..n : log[i].kind = "review" /\ \E s \in log[i].raises : f = ReviewFinding(i, s)
Severity(f) == IF f[1] = "check" THEN "major" ELSE f[3]

GatesAre(b, log) ==
  /\ b.gates \in [Gates -> Judgements]
  /\ \A g \in Gates : b.gates[g] = LastSays(log, "gates", g, IF g = "R1" THEN "pass" ELSE "unknown")
ItemsAre(b, c, m, log) ==
  /\ DOMAIN b.items = Criteria
  /\ \A k \in Criteria : b.items[k] =
       IF k \in c.exclusions THEN Item("excluded", None)
       ELSE Item("applicable", LastSays(log, "ratings", k, Automated(c, m)[k].rating))
ChecksAre(b, c, m, log) ==
  /\ DOMAIN b.checks = Plan(c)
  /\ \A e \in Plan(c) : b.checks[e] =
       LastSays(log, "outcomes", e, IF e \in Automatic THEN m[e] ELSE "unknown")
FindingsAre(b, m, log) ==
  /\ \A f : f \in DOMAIN b.findings <=> IsFound(f, m, log, Len(log))
  /\ \A f \in DOMAIN b.findings :
       /\ b.findings[f] = [severity |-> Severity(f), open |-> b.findings[f].open]
       /\ b.findings[f].open \in BOOLEAN
       /\ b.findings[f].open <=> Closers(log, f) = {}

\* The closed form of the replay: each thing is as the last decision about it
\* says, a finding is open until a review closes it.
BoardIs(b, c, m, log) ==
  /\ IsBoard(b)
  /\ GatesAre(b, log)
  /\ ItemsAre(b, c, m, log)
  /\ ChecksAre(b, c, m, log)
  /\ FindingsAre(b, m, log)
  /\ b.inventory = log[1].inventory
  /\ b.specialist = (log[Len(log)].kind = "specialist")
  /\ b.exclusions = c.exclusions

\* What review() lets into the log as its i-th entry.
GoodReview(c, m, log, i) ==
  /\ log[i].number = i
  /\ DOMAIN log[i].ratings \cap c.exclusions = {}
  /\ DOMAIN log[i].outcomes \subseteq Plan(c) \ (Criteria \cup {"specialist"})
  /\ (\E g \in DOMAIN log[i].gates : log[i].gates[g] = "na") => log[i].by = Owner
  /\ \A f \in log[i].closes : /\ IsFound(f, m, log, i - 1)
                              /\ Severity(f) = "critical" => log[i].by \in Specialists
IsLog(c, m, log) ==
  /\ log \in Seq(Entry) /\ log # <<>>
  /\ log[1].kind = "scope"
  /\ \A i \in DOMAIN log : i # 1 => log[i].kind # "scope"
  /\ \A i \in DOMAIN log : log[i].kind = "review" => GoodReview(c, m, log, i)

-----------------------------------------------------------------------------
(* The log grows *)

LEMMA NamesDiffer ==
  /\ \A e, i, s : CheckFinding(e) # ReviewFinding(i, s)
  /\ \A e, f : CheckFinding(e) = CheckFinding(f) => e = f
  /\ \A i, s, j, t : ReviewFinding(i, s) = ReviewFinding(j, t) => i = j /\ s = t
  /\ \A e : Severity(CheckFinding(e)) = "major"
  /\ \A i, s : Severity(ReviewFinding(i, s)) = s /\ ReviewFinding(i, s)[3] = s
<1>1. \A e : CheckFinding(e)[1] = "check" /\ CheckFinding(e)[2] = e
  BY DEF CheckFinding
<1>2. \A i, s : ReviewFinding(i, s)[1] = "review" /\ ReviewFinding(i, s)[2] = i
                /\ ReviewFinding(i, s)[3] = s
  BY DEF ReviewFinding
<1>3. \A e, i, s : CheckFinding(e) # ReviewFinding(i, s)
  BY <1>1, <1>2
<1>4. \A e, f : CheckFinding(e) = CheckFinding(f) => e = f
  BY <1>1
<1>5. \A i, s, j, t : ReviewFinding(i, s) = ReviewFinding(j, t) => i = j /\ s = t
  BY <1>2
<1>6. \A e : Severity(CheckFinding(e)) = "major"
  BY <1>1 DEF Severity
<1>7. \A i, s : Severity(ReviewFinding(i, s)) = s /\ ReviewFinding(i, s)[3] = s
  BY <1>2 DEF Severity
<1> QED
  BY <1>3, <1>4, <1>5, <1>6, <1>7

LEMMA LongerIs ==
  ASSUME NEW log \in Seq(Entry), NEW d \in Entry, NEW longer, longer = Append(log, d)
  PROVE  /\ longer \in Seq(Entry) /\ longer # <<>>
         /\ Len(log) \in Nat /\ Len(longer) = Len(log) + 1
         /\ DOMAIN log = 1..Len(log) /\ DOMAIN longer = (1..Len(log)) \cup {Len(log) + 1}
         /\ longer[Len(log) + 1] = d /\ \A i \in 1..Len(log) : longer[i] = log[i]
OBVIOUS

LEMMA FoundAppend ==
  ASSUME NEW log \in Seq(Entry), NEW d \in Entry, NEW longer, longer = Append(log, d), NEW m, NEW f
  PROVE  /\ \A n \in 0..Len(log) : IsFound(f, m, longer, n) <=> IsFound(f, m, log, n)
         /\ IsFound(f, m, longer, Len(longer)) <=>
              \/ IsFound(f, m, log, Len(log))
              \/ d.kind = "review" /\ \E s \in d.raises : f = ReviewFinding(Len(log) + 1, s)
<1>1. /\ Len(log) \in Nat /\ Len(longer) = Len(log) + 1
      /\ longer[Len(log) + 1] = d /\ \A i \in 1..Len(log) : longer[i] = log[i]
  BY LongerIs
<1>2. 1..Len(longer) = (1..Len(log)) \cup {Len(log) + 1}
  BY <1>1
<1>3. \A n \in 0..Len(log) : \A i \in 1..n : longer[i] = log[i]
  BY <1>1
<1>4. ASSUME NEW n \in 0..Len(log)
      PROVE  IsFound(f, m, longer, n) <=> IsFound(f, m, log, n)
  BY <1>3 DEF IsFound
<1>5. IsFound(f, m, longer, Len(longer)) <=>
        \/ IsFound(f, m, log, Len(log))
        \/ d.kind = "review" /\ \E s \in d.raises : f = ReviewFinding(Len(log) + 1, s)
  BY <1>1, <1>2 DEF IsFound
<1> QED
  BY <1>4, <1>5

LEMMA ClosersAppend ==
  ASSUME NEW log \in Seq(Entry), NEW d \in Entry, NEW longer, longer = Append(log, d), NEW f
  PROVE  \A i : i \in Closers(longer, f) <=>
           i \in Closers(log, f) \/ (d.kind = "review" /\ f \in d.closes /\ i = Len(log) + 1)
<1>1. /\ Len(log) \in Nat /\ DOMAIN log = 1..Len(log)
      /\ DOMAIN longer = (1..Len(log)) \cup {Len(log) + 1} /\ Len(log) + 1 \notin 1..Len(log)
      /\ longer[Len(log) + 1] = d /\ \A i \in 1..Len(log) : longer[i] = log[i]
  BY LongerIs
<1>2. CASE d.kind = "review" /\ f \in d.closes
  BY <1>1, <1>2 DEF Closers
<1>3. CASE ~ (d.kind = "review" /\ f \in d.closes)
  BY <1>1, <1>3 DEF Closers
<1> QED
  BY <1>2, <1>3

\* A decision that may be appended.
GoodEntry(c, m, log, d) ==
  /\ d \in Entry /\ d.kind # "scope"
  /\ d.kind = "review" =>
       /\ d.number = Len(log) + 1
       /\ DOMAIN d.ratings \cap c.exclusions = {}
       /\ DOMAIN d.outcomes \subseteq Plan(c) \ (Criteria \cup {"specialist"})
       /\ (\E g \in DOMAIN d.gates : d.gates[g] = "na") => d.by = Owner
       /\ \A f \in d.closes : /\ IsFound(f, m, log, Len(log))
                              /\ Severity(f) = "critical" => d.by \in Specialists

LEMMA LogGrows ==
  ASSUME NEW c, NEW m, NEW log, IsLog(c, m, log), NEW d, GoodEntry(c, m, log, d)
  PROVE  IsLog(c, m, Append(log, d))
<1> DEFINE longer == Append(log, d)
           n == Len(log)
<1>1. log \in Seq(Entry) /\ d \in Entry /\ log # <<>>
  BY DEF IsLog, GoodEntry
<1>2. /\ longer \in Seq(Entry) /\ longer # <<>> /\ n \in Nat /\ n # 0
      /\ DOMAIN log = 1..n /\ DOMAIN longer = (1..n) \cup {n + 1}
      /\ longer[n + 1] = d /\ \A i \in 1..n : longer[i] = log[i]
  BY <1>1, LongerIs
<1>3. \A f : \A k \in 0..n : IsFound(f, m, longer, k) <=> IsFound(f, m, log, k)
  BY <1>1, FoundAppend
<1> HIDE DEF longer, n
<1>4. 1 \in 1..n /\ longer[1] = log[1]
  BY <1>2
<1>5. ASSUME NEW i \in DOMAIN longer, i # 1
      PROVE  longer[i].kind # "scope"
  BY <1>2, <1>5 DEF IsLog, GoodEntry
<1>6. ASSUME NEW i \in DOMAIN longer, longer[i].kind = "review"
      PROVE  GoodReview(c, m, longer, i)
  <2>1. CASE i = n + 1
    <3>1. (n + 1) - 1 = n /\ n \in 0..n
      BY <1>2
    <3>2. \A f : IsFound(f, m, longer, i - 1) <=> IsFound(f, m, log, n)
      BY <1>3, <2>1, <3>1
    <3>3. longer[i] = d /\ d.kind = "review"
      BY <1>2, <1>6, <2>1
    <3> QED
      BY <2>1, <3>2, <3>3 DEF GoodReview, GoodEntry, n
  <2>2. CASE i # n + 1
    <3>1. i \in 1..n /\ i - 1 \in 0..n /\ longer[i] = log[i]
      BY <1>2, <2>2
    <3>2. GoodReview(c, m, log, i)
      BY <1>2, <1>6, <3>1 DEF IsLog
    <3> QED
      BY <1>3, <3>1, <3>2 DEF GoodReview
  <2> QED
    BY <2>1, <2>2
<1>7. IsLog(c, m, longer)
  BY <1>2, <1>4, <1>5, <1>6 DEF IsLog
<1> QED
  BY <1>7 DEF longer

LEMMA ClosedIs ==
  ASSUME NEW found, NEW closes, NEW f \in DOMAIN found, NEW s, NEW o,
         found[f] = [severity |-> s, open |-> o]
  PROVE  /\ DOMAIN ClosedBy(found, closes) = DOMAIN found
         /\ ClosedBy(found, closes)[f] = [severity |-> s, open |-> (o /\ f \notin closes)]
         /\ ClosedBy(found, closes)[f].severity = s
         /\ ClosedBy(found, closes)[f].open = (o /\ f \notin closes)
<1> DEFINE open == (o /\ f \notin closes)
<1>1. DOMAIN ClosedBy(found, closes) = DOMAIN found
  BY DEF ClosedBy
<1>2. ClosedBy(found, closes)[f] = [found[f] EXCEPT !.open = @ /\ f \notin closes]
  BY DEF ClosedBy
<1>3. [found[f] EXCEPT !.open = @ /\ f \notin closes] = [found[f] EXCEPT !.open = open]
  OBVIOUS
<1> HIDE DEF open
<1>4. [found[f] EXCEPT !.open = open] = [severity |-> s, open |-> open]
  OBVIOUS
<1>5. ClosedBy(found, closes)[f] = [severity |-> s, open |-> open]
  BY <1>2, <1>3, <1>4
<1>6. ClosedBy(found, closes)[f].severity = s /\ ClosedBy(found, closes)[f].open = open
  BY <1>5
<1> QED
  BY <1>1, <1>5, <1>6 DEF open

LEMMA RaisedIs ==
  ASSUME NEW d
  PROVE  /\ DOMAIN Raised(d) = {ReviewFinding(d.number, s) : s \in d.raises}
         /\ \A s \in d.raises : Raised(d)[ReviewFinding(d.number, s)] = [severity |-> s, open |-> TRUE]
BY NamesDiffer DEF Raised

LEMMA FindingsGrow ==
  ASSUME NEW c, NEW m, NEW log, IsLog(c, m, log), NEW d, GoodEntry(c, m, log, d), d.kind = "review",
         NEW b, FindingsAre(b, m, log), NEW a,
         a.findings = ClosedBy(Updated(b.findings, Raised(d)), d.closes)
  PROVE  /\ FindingsAre(a, m, Append(log, d))
         /\ \A f \in DOMAIN b.findings :
              /\ f \in DOMAIN a.findings
              /\ a.findings[f].severity = b.findings[f].severity
              /\ a.findings[f].open = (b.findings[f].open /\ f \notin d.closes)
<1> DEFINE longer == Append(log, d)
           n == Len(log)
           old == b.findings
           new == Raised(d)
<1>1. log \in Seq(Entry) /\ d \in Entry /\ n \in Nat /\ DOMAIN log = 1..n /\ d.number = n + 1
  BY DEF IsLog, GoodEntry
<1>2. /\ DOMAIN new = {ReviewFinding(n + 1, s) : s \in d.raises}
      /\ \A s \in d.raises : new[ReviewFinding(n + 1, s)] = [severity |-> s, open |-> TRUE]
  <2>1. /\ DOMAIN new = {ReviewFinding(d.number, s) : s \in d.raises}
        /\ \A s \in d.raises :
             new[ReviewFinding(d.number, s)] = [severity |-> s, open |-> TRUE]
    BY RaisedIs
  <2>2. d.number = n + 1
    BY <1>1
  <2> HIDE DEF new, n
  <2> QED
    BY <2>1, <2>2
<1> DEFINE both == Updated(old, new)
<1>a. a.findings = ClosedBy(both, d.closes)
  OBVIOUS
<1>d. \A f : Closers(longer, f) = {} <=> Closers(log, f) = {} /\ f \notin d.closes
  <2> SUFFICES ASSUME NEW f
               PROVE  Closers(longer, f) = {} <=> Closers(log, f) = {} /\ f \notin d.closes
    OBVIOUS
  <2>1. \A i : i \in Closers(longer, f) <=>
          i \in Closers(log, f) \/ (d.kind = "review" /\ f \in d.closes /\ i = Len(log) + 1)
    <3>1. \A i : i \in Closers(Append(log, d), f) <=>
            i \in Closers(log, f) \/ (d.kind = "review" /\ f \in d.closes /\ i = Len(log) + 1)
      <4>1. log \in Seq(Entry) /\ d \in Entry
        BY <1>1
      <4> HIDE DEF longer, old, new, n
      <4> QED
        BY <4>1, ClosersAppend, Zenon
    <3> QED
      BY <3>1
  <2> HIDE DEF longer
  <2> QED
    BY <2>1
<1> HIDE DEF longer, old, new, n
<1>b. /\ DOMAIN both = DOMAIN old \cup DOMAIN new
      /\ \A f \in DOMAIN old \cup DOMAIN new : both[f] = IF f \in DOMAIN new THEN new[f] ELSE old[f]
  BY UpdatedIs
<1> HIDE DEF both
<1>c. DOMAIN a.findings = DOMAIN both
  BY <1>a DEF ClosedBy
<1>3. /\ a.findings = ClosedBy(both, d.closes)
      /\ DOMAIN both = DOMAIN old \cup DOMAIN new /\ DOMAIN a.findings = DOMAIN both
      /\ \A f \in DOMAIN both : both[f] = IF f \in DOMAIN new THEN new[f] ELSE old[f]
  BY <1>a, <1>b, <1>c
<1>4. /\ \A f : f \in DOMAIN old <=> IsFound(f, m, log, n)
      /\ \A f \in DOMAIN old : /\ old[f] = [severity |-> Severity(f), open |-> old[f].open]
                               /\ old[f].open \in BOOLEAN
                               /\ old[f].open <=> Closers(log, f) = {}
  BY DEF FindingsAre, old, n
<1>5. ASSUME NEW k \in 0..n, NEW s
      PROVE  ~ IsFound(ReviewFinding(n + 1, s), m, log, k)
  <2> SUFFICES ASSUME IsFound(ReviewFinding(n + 1, s), m, log, k)
               PROVE  FALSE
    OBVIOUS
  <2>1. \E i \in 1..k : \E t : ReviewFinding(n + 1, s) = ReviewFinding(i, t)
    BY NamesDiffer DEF IsFound
  <2>2. n + 1 \in 1..k
    BY <2>1, NamesDiffer
  <2> QED
    BY <1>1, <2>2
<1>6. ASSUME NEW s \in d.raises, NEW f, f = ReviewFinding(n + 1, s)
      PROVE  /\ f \notin DOMAIN old /\ f \notin d.closes
             /\ Closers(log, f) = {} /\ Closers(longer, f) = {}
             /\ a.findings[f] = [severity |-> Severity(f), open |-> TRUE]
  <2>1. ~ IsFound(f, m, log, n) /\ n \in 0..n
    BY <1>1, <1>5, <1>6
  <2>2. f \notin DOMAIN old
    BY <1>4, <2>1
  <2>3. f \notin d.closes
    BY <2>1 DEF GoodEntry, n
  <2>4. ASSUME NEW i \in Closers(log, f)
        PROVE  FALSE
    <3>1. i \in 1..n /\ log[i].kind = "review" /\ f \in log[i].closes
      BY <1>1 DEF Closers
    <3>2. IsFound(f, m, log, i - 1)
      BY <1>1, <3>1 DEF IsLog, GoodReview
    <3>3. i - 1 \in 0..n
      BY <1>1, <3>1
    <3> QED
      BY <1>5, <1>6, <3>2, <3>3
  <2>5. Closers(log, f) = {} /\ Closers(longer, f) = {}
    BY <1>d, <2>3, <2>4
  <2>6. f \in DOMAIN new /\ new[f] = [severity |-> s, open |-> TRUE] /\ Severity(f) = s
    BY <1>2, <1>6, NamesDiffer
  <2>7. a.findings[f] = [severity |-> s, open |-> (TRUE /\ f \notin d.closes)]
    <3>1. f \in DOMAIN both /\ both[f] = [severity |-> s, open |-> TRUE]
      BY <1>3, <2>6
    <3> QED
      BY <1>3, <3>1, ClosedIs
  <2>8. (TRUE /\ f \notin d.closes) = TRUE
    BY <2>3
  <2>9. a.findings[f] = [severity |-> Severity(f), open |-> TRUE]
    BY <2>6, <2>7, <2>8
  <2> QED
    BY <2>2, <2>3, <2>5, <2>9
<1>7. ASSUME NEW f \in DOMAIN old
      PROVE  /\ f \in DOMAIN a.findings /\ f \notin DOMAIN new
             /\ a.findings[f] = [severity |-> Severity(f), open |-> a.findings[f].open]
             /\ a.findings[f].severity = old[f].severity
             /\ a.findings[f].open = (old[f].open /\ f \notin d.closes)
             /\ a.findings[f].open \in BOOLEAN
             /\ a.findings[f].open <=> Closers(longer, f) = {}
  <2>1. f \notin DOMAIN new
    BY <1>2, <1>6
  <2>2. both[f] = [severity |-> Severity(f), open |-> old[f].open] /\ f \in DOMAIN both
        /\ old[f].severity = Severity(f)
    BY <1>3, <1>4, <2>1 DEF old
  <2> DEFINE open == (old[f].open /\ f \notin d.closes)
  <2>3. /\ f \in DOMAIN a.findings
        /\ a.findings[f] = [severity |-> Severity(f), open |-> open]
        /\ a.findings[f].severity = Severity(f) /\ a.findings[f].open = open
    BY <1>3, <2>2, ClosedIs
  <2>4. Closers(longer, f) = {} <=> Closers(log, f) = {} /\ f \notin d.closes
    BY <1>d
  <2>5. old[f].open <=> Closers(log, f) = {}
    BY <1>4 DEF old
  <2>6. open \in BOOLEAN /\ (open <=> Closers(longer, f) = {})
    BY <2>4, <2>5
  <2>7. a.findings[f].open = (old[f].open /\ f \notin d.closes)
    BY <2>3
  <2> HIDE DEF open
  <2> QED
    BY <2>1, <2>2, <2>3, <2>6, <2>7
<1>8. \A f : f \in DOMAIN a.findings <=> IsFound(f, m, longer, Len(longer))
  <2>1. \A f : IsFound(f, m, longer, Len(longer)) <=>
          IsFound(f, m, log, n) \/ \E s \in d.raises : f = ReviewFinding(n + 1, s)
    BY <1>1, FoundAppend DEF longer, n
  <2> QED
    BY <1>2, <1>3, <1>4, <2>1 DEF old
<1>9. ASSUME NEW f \in DOMAIN a.findings
      PROVE  /\ a.findings[f] = [severity |-> Severity(f), open |-> a.findings[f].open]
             /\ a.findings[f].open \in BOOLEAN
             /\ a.findings[f].open <=> Closers(longer, f) = {}
  <2>1. CASE f \in DOMAIN old
    BY <1>7, <2>1
  <2>2. CASE f \notin DOMAIN old
    <3>1. PICK s \in d.raises : f = ReviewFinding(n + 1, s)
      BY <1>2, <1>3, <2>2
    <3>2. a.findings[f] = [severity |-> Severity(f), open |-> TRUE] /\ Closers(longer, f) = {}
      BY <1>6, <3>1
    <3>3. a.findings[f].open = TRUE
      BY <3>2
    <3> QED
      BY <3>2, <3>3
  <2> QED
    BY <2>1, <2>2
<1>10. FindingsAre(a, m, longer)
  BY <1>8, <1>9 DEF FindingsAre
<1>11. \A f \in DOMAIN old : /\ f \in DOMAIN a.findings
                             /\ a.findings[f].severity = old[f].severity
                             /\ a.findings[f].open = (old[f].open /\ f \notin d.closes)
  BY <1>7
<1> QED
  BY <1>10, <1>11 DEF longer, old

LEMMA AutomatedIs ==
  ASSUME NEW c, NEW m, NEW k \in Criteria
  PROVE  /\ Automated(c, m)[k] = Item("applicable", Automated(c, m)[k].rating)
         /\ Automated(c, m)[k].rating =
              IF k = "E1" /\ k \notin c.exclusions /\ m["source-status"] # "unknown"
              THEN IF m["source-status"] = "pass" THEN 4 ELSE 0
              ELSE IF k = "G4" /\ k \notin c.exclusions THEN 4 ELSE None
BY DEF Automated, Item

\* Before the first review each thing is as the machine and the scope say.
LEMMA ScopedBoard ==
  ASSUME NEW c, NEW m, NEW d \in ScopeEntry, NEW log, log = <<d>>,
         NEW a, a = ApplyScope(Base(c, m), d)
  PROVE  /\ IsLog(c, m, log)
         /\ BoardIs(a, c, m, log)
<1>1. /\ log \in Seq(Entry) /\ log # <<>> /\ Len(log) = 1 /\ DOMAIN log = {1}
      /\ log[1] = d /\ d.kind = "scope"
  BY DEF Entry, ScopeEntry
<1>2. IsLog(c, m, log)
  BY <1>1 DEF IsLog
<1> DEFINE b == Base(c, m)
<1>3. IsBoard(b) /\ b = Base(c, m)
  BY BaseBoard
<1> HIDE DEF b
<1>4. /\ b.items = Automated(c, m)
      /\ b.checks = [e \in Plan(c) |-> IF e \in Automatic THEN m[e] ELSE "unknown"]
      /\ b.gates = [g \in Gates |-> "unknown"]
      /\ b.findings = [f \in {CheckFinding(e) : e \in {e \in Automatic : m[e] = "fail"}} |->
                         [severity |-> "major", open |-> TRUE]]
      /\ b.specialist = FALSE /\ b.exclusions = c.exclusions
  BY <1>3 DEF Base, CheckFinding
<1>5. /\ IsBoard(a) /\ a.inventory = d.inventory /\ a.specialist = b.specialist
      /\ a.exclusions = b.exclusions /\ a.checks = b.checks /\ a.findings = b.findings
      /\ a.gates = [b.gates EXCEPT !["R1"] = "pass"]
      /\ a.items = [k \in Criteria |-> IF k \in b.exclusions THEN Item("excluded", None)
                                       ELSE b.items[k]]
  BY <1>3, ScopeBoard
<1>6. \A field, key, default : LastSays(log, field, key, default) = default
  <2>1. \A field, key : Naming(log, field, key) = {}
    BY <1>1 DEF Naming
  <2> QED
    BY <2>1 DEF LastSays, LastOf
<1>7. GatesAre(a, log)
  BY <1>4, <1>5, <1>6, GatesAssumption DEF GatesAre, Judgements
<1>8. ItemsAre(a, c, m, log)
  BY <1>4, <1>5, <1>6, AutomatedIs DEF ItemsAre
<1>9. ChecksAre(a, c, m, log)
  BY <1>4, <1>5, <1>6 DEF ChecksAre
<1>10. FindingsAre(a, m, log)
  <2>1. \A f : IsFound(f, m, log, Len(log)) <=>
          f \in {CheckFinding(e) : e \in {e \in Automatic : m[e] = "fail"}}
    BY <1>1 DEF IsFound
  <2>2. \A f : Closers(log, f) = {}
    BY <1>1 DEF Closers
  <2>3. \A f : f \in DOMAIN a.findings <=> IsFound(f, m, log, Len(log))
    BY <1>4, <1>5, <2>1
  <2>4. ASSUME NEW f \in DOMAIN a.findings
        PROVE  a.findings[f] = [severity |-> Severity(f), open |-> TRUE] /\ a.findings[f].open = TRUE
    <3>1. a.findings[f] = [severity |-> "major", open |-> TRUE]
      BY <1>4, <1>5
    <3>2. PICK e \in Automatic : f = CheckFinding(e)
      BY <1>4, <1>5
    <3>3. Severity(f) = "major"
      BY <3>2, NamesDiffer
    <3> QED
      BY <3>1, <3>3
  <2> QED
    BY <2>2, <2>3, <2>4 DEF FindingsAre
<1>11. a.inventory = log[1].inventory /\ a.specialist = (log[Len(log)].kind = "specialist")
  BY <1>1, <1>4, <1>5
<1> QED
  BY <1>2, <1>4, <1>5, <1>7, <1>8, <1>9, <1>10, <1>11 DEF BoardIs

-----------------------------------------------------------------------------
(* The closed form of the replay *)

LEMMA GatesGrow ==
  ASSUME NEW log \in Seq(Entry), NEW d \in Entry, d.kind = "review", NEW longer, longer = Append(log, d),
         NEW b, GatesAre(b, log), NEW a, a.gates = Updated(b.gates, d.gates)
  PROVE  GatesAre(a, longer)
<1>1. DOMAIN d.gates \subseteq Gates /\ \A g \in DOMAIN d.gates : d.gates[g] \in Judgements
  BY EntryIs
<1>2. DOMAIN b.gates = Gates /\ b.gates \in [Gates -> Judgements]
  BY DEF GatesAre
<1>a. a.gates \in [Gates -> Judgements]
  BY <1>1, <1>2 DEF Updated
<1>3. /\ DOMAIN a.gates = Gates
      /\ \A g \in Gates : a.gates[g] = IF g \in DOMAIN d.gates THEN d.gates[g] ELSE b.gates[g]
  BY <1>1, <1>2 DEF Updated
<1>4. ASSUME NEW g \in Gates
      PROVE  a.gates[g] = LastSays(longer, "gates", g, IF g = "R1" THEN "pass" ELSE "unknown")
  <2> DEFINE default == IF g = "R1" THEN "pass" ELSE "unknown"
  <2>1. b.gates[g] = LastSays(log, "gates", g, default)
    BY DEF GatesAre
  <2> HIDE DEF default
  <2>2. LastSays(longer, "gates", g, default) =
          IF g \in DOMAIN d.gates THEN d.gates[g] ELSE LastSays(log, "gates", g, default)
    BY SaysAppend
  <2>3. a.gates[g] = LastSays(longer, "gates", g, default)
    BY <1>3, <2>1, <2>2
  <2> QED
    BY <2>3 DEF default
<1> QED
  BY <1>a, <1>3, <1>4 DEF GatesAre

RatingsAmend(a, b, d) ==
  \A k \in Criteria : a.items[k].rating =
    IF d.kind = "review" /\ k \in DOMAIN d.ratings THEN d.ratings[k] ELSE b.items[k].rating

LEMMA ItemsGrow ==
  ASSUME NEW c, NEW m, NEW log \in Seq(Entry), NEW d \in Entry, d.kind = "review",
         DOMAIN d.ratings \cap c.exclusions = {}, NEW longer, longer = Append(log, d),
         NEW b, ItemsAre(b, c, m, log), NEW a, a.items = Updated(b.items, Rerated(d))
  PROVE  ItemsAre(a, c, m, longer) /\ RatingsAmend(a, b, d)
<1>1. DOMAIN d.ratings \subseteq Criteria
  BY EntryIs
<1>2. DOMAIN b.items = Criteria
  BY DEF ItemsAre
<1>3. DOMAIN Rerated(d) = DOMAIN d.ratings
      /\ \A k \in DOMAIN d.ratings : Rerated(d)[k] = Item("applicable", d.ratings[k])
  BY DEF Rerated
<1>4. /\ DOMAIN a.items = Criteria
      /\ \A k \in Criteria :
           a.items[k] = IF k \in DOMAIN d.ratings THEN Item("applicable", d.ratings[k]) ELSE b.items[k]
  BY <1>1, <1>2, <1>3 DEF Updated
<1>5. ASSUME NEW k \in Criteria
      PROVE  a.items[k] =
               IF k \in c.exclusions THEN Item("excluded", None)
               ELSE Item("applicable", LastSays(longer, "ratings", k, Automated(c, m)[k].rating))
  <2> DEFINE default == Automated(c, m)[k].rating
  <2>1. b.items[k] = IF k \in c.exclusions THEN Item("excluded", None)
                     ELSE Item("applicable", LastSays(log, "ratings", k, default))
    BY DEF ItemsAre
  <2> HIDE DEF default
  <2>2. LastSays(longer, "ratings", k, default) =
          IF k \in DOMAIN d.ratings THEN d.ratings[k] ELSE LastSays(log, "ratings", k, default)
    BY SaysAppend
  <2>3. k \in c.exclusions => k \notin DOMAIN d.ratings
    OBVIOUS
  <2>4. a.items[k] = IF k \in c.exclusions THEN Item("excluded", None)
                     ELSE Item("applicable", LastSays(longer, "ratings", k, default))
    BY <1>4, <2>1, <2>2, <2>3
  <2> QED
    BY <2>4 DEF default
<1>6. ASSUME NEW k \in Criteria
      PROVE  a.items[k].rating = IF k \in DOMAIN d.ratings THEN d.ratings[k] ELSE b.items[k].rating
  <2>1. \A rating : Item("applicable", rating).rating = rating
    BY DEF Item
  <2> QED
    BY <1>4, <2>1
<1> QED
  BY <1>4, <1>5, <1>6 DEF ItemsAre, RatingsAmend

LEMMA ChecksGrow ==
  ASSUME NEW c, NEW m, NEW log \in Seq(Entry), NEW d \in Entry, d.kind = "review",
         DOMAIN d.outcomes \subseteq Plan(c), NEW longer, longer = Append(log, d),
         NEW b, ChecksAre(b, c, m, log), NEW a, a.checks = Updated(b.checks, d.outcomes)
  PROVE  ChecksAre(a, c, m, longer)
<1>2. DOMAIN b.checks = Plan(c)
  BY DEF ChecksAre
<1>3. /\ DOMAIN a.checks = Plan(c)
      /\ \A e \in Plan(c) :
           a.checks[e] = IF e \in DOMAIN d.outcomes THEN d.outcomes[e] ELSE b.checks[e]
  BY <1>2 DEF Updated
<1>4. ASSUME NEW e \in Plan(c)
      PROVE  a.checks[e] = LastSays(longer, "outcomes", e, IF e \in Automatic THEN m[e] ELSE "unknown")
  <2> DEFINE default == IF e \in Automatic THEN m[e] ELSE "unknown"
  <2>1. b.checks[e] = LastSays(log, "outcomes", e, default)
    BY DEF ChecksAre
  <2> HIDE DEF default
  <2>2. LastSays(longer, "outcomes", e, default) =
          IF e \in DOMAIN d.outcomes THEN d.outcomes[e] ELSE LastSays(log, "outcomes", e, default)
    BY SaysAppend
  <2>3. a.checks[e] = LastSays(longer, "outcomes", e, default)
    BY <1>3, <2>1, <2>2
  <2> QED
    BY <2>3 DEF default
<1> QED
  BY <1>3, <1>4 DEF ChecksAre

\* A specialist's word changes only what is known of the specialist.
LEMMA NothingGrows ==
  ASSUME NEW c, NEW m, NEW log \in Seq(Entry), NEW d \in Entry, d.kind # "review",
         NEW longer, longer = Append(log, d), NEW b,
         GatesAre(b, log), ItemsAre(b, c, m, log), ChecksAre(b, c, m, log), FindingsAre(b, m, log),
         NEW a, a.gates = b.gates, a.items = b.items, a.checks = b.checks, a.findings = b.findings
  PROVE  /\ GatesAre(a, longer) /\ ItemsAre(a, c, m, longer)
         /\ ChecksAre(a, c, m, longer) /\ FindingsAre(a, m, longer)
<1>1. \A field, key, default : LastSays(longer, field, key, default) = LastSays(log, field, key, default)
  BY SaysAppend
<1>2. GatesAre(a, longer)
  BY <1>1 DEF GatesAre
<1>3. ItemsAre(a, c, m, longer)
  BY <1>1 DEF ItemsAre
<1>4. ChecksAre(a, c, m, longer)
  BY <1>1 DEF ChecksAre
<1>5. \A f : IsFound(f, m, longer, Len(longer)) <=> IsFound(f, m, log, Len(log))
  BY FoundAppend
<1>6. \A f : Closers(longer, f) = {} <=> Closers(log, f) = {}
  <2> SUFFICES ASSUME NEW f
               PROVE  Closers(longer, f) = {} <=> Closers(log, f) = {}
    OBVIOUS
  <2>1. \A i : i \in Closers(longer, f) <=> i \in Closers(log, f)
    BY ClosersAppend
  <2> QED
    BY <2>1
<1>7. FindingsAre(a, m, longer)
  BY <1>5, <1>6 DEF FindingsAre
<1> QED
  BY <1>2, <1>3, <1>4, <1>7

Named(d, field) == IF d.kind = "review" THEN d[field] ELSE <<>>

\* The board with what the decision names put in its place.
Amends(a, b, d) ==
  /\ RatingsAmend(a, b, d)
  /\ a.gates = IF d.kind = "review" THEN Updated(b.gates, d.gates) ELSE b.gates
  /\ a.checks = IF d.kind = "review" THEN Updated(b.checks, d.outcomes) ELSE b.checks
  /\ \A f \in DOMAIN b.findings :
       /\ f \in DOMAIN a.findings
       /\ a.findings[f].severity = b.findings[f].severity
       /\ a.findings[f].open = (b.findings[f].open /\ ~ (d.kind = "review" /\ f \in d.closes))

LEMMA BoardGrows ==
  ASSUME NEW c, NEW m, NEW log, IsLog(c, m, log), NEW d, GoodEntry(c, m, log, d),
         NEW b, BoardIs(b, c, m, log), NEW a, a = Apply(b, d), NEW longer, longer = Append(log, d)
  PROVE  BoardIs(a, c, m, longer) /\ Amends(a, b, d)
<1>1. log \in Seq(Entry) /\ log # <<>> /\ d \in Entry
  BY DEF IsLog, GoodEntry
<1>2. d.kind = "review" \/ d.kind = "specialist"
  BY <1>1, EntryIs DEF GoodEntry
<1>3. /\ IsBoard(b) /\ GatesAre(b, log) /\ ItemsAre(b, c, m, log) /\ ChecksAre(b, c, m, log)
      /\ FindingsAre(b, m, log) /\ b.inventory = log[1].inventory /\ b.exclusions = c.exclusions
  BY DEF BoardIs
<1>4. longer[1] = log[1] /\ longer[Len(longer)] = d
  BY <1>1
<1>5. CASE d.kind = "review"
  <2>1. a = ApplyReview(b, d)
    BY <1>5 DEF Apply
  <2>2. /\ IsBoard(a) /\ a.inventory = b.inventory /\ a.specialist = FALSE
        /\ a.exclusions = b.exclusions
        /\ a.items = Updated(b.items, Rerated(d))
        /\ a.checks = Updated(b.checks, d.outcomes)
        /\ a.gates = Updated(b.gates, d.gates)
        /\ a.findings = ClosedBy(Updated(b.findings, Raised(d)), d.closes)
    <3>1. Reviewed(a, b, d)
      BY <1>3, <2>1, ReviewBoard
    <3> QED
      BY <3>1 DEF Reviewed
  <2>3. DOMAIN d.ratings \cap c.exclusions = {} /\ DOMAIN d.outcomes \subseteq Plan(c)
    BY <1>5 DEF GoodEntry
  <2>4. GatesAre(a, longer)
    BY <1>1, <1>3, <1>5, <2>2, GatesGrow
  <2>5. ItemsAre(a, c, m, longer) /\ RatingsAmend(a, b, d)
    BY <1>1, <1>3, <1>5, <2>2, <2>3, ItemsGrow
  <2>6. ChecksAre(a, c, m, longer)
    BY <1>1, <1>3, <1>5, <2>2, <2>3, ChecksGrow
  <2>7. /\ FindingsAre(a, m, longer)
        /\ \A f \in DOMAIN b.findings :
             /\ f \in DOMAIN a.findings
             /\ a.findings[f].severity = b.findings[f].severity
             /\ a.findings[f].open = (b.findings[f].open /\ f \notin d.closes)
    BY <1>3, <1>5, <2>2, FindingsGrow
  <2>8. BoardIs(a, c, m, longer)
    BY <1>3, <1>4, <1>5, <2>2, <2>4, <2>5, <2>6, <2>7 DEF BoardIs
  <2>9. Amends(a, b, d)
    BY <1>5, <2>2, <2>5, <2>7 DEF Amends
  <2> QED
    BY <2>8, <2>9
<1>6. CASE d.kind = "specialist"
  <2>1. a = ApplySpecialist(b, d) /\ d.kind # "review"
    BY <1>6 DEF Apply
  <2>2. /\ IsBoard(a) /\ a.inventory = b.inventory /\ a.specialist = TRUE
        /\ a.exclusions = b.exclusions /\ a.items = b.items /\ a.checks = b.checks
        /\ a.gates = b.gates /\ a.findings = b.findings
    <3>1. Heard(a, b)
      BY <1>3, <2>1, SpecialistBoard
    <3> QED
      BY <3>1 DEF Heard
  <2>3. /\ GatesAre(a, longer) /\ ItemsAre(a, c, m, longer)
        /\ ChecksAre(a, c, m, longer) /\ FindingsAre(a, m, longer)
    BY <1>1, <1>3, <2>1, <2>2, NothingGrows
  <2>4. BoardIs(a, c, m, longer)
    BY <1>3, <1>4, <1>6, <2>2, <2>3 DEF BoardIs
  <2>5. \A f \in DOMAIN b.findings : b.findings[f].open \in BOOLEAN
    BY <1>3 DEF FindingsAre
  <2>6. Amends(a, b, d)
    <3>1. \A f \in DOMAIN b.findings :
            a.findings[f].open = (b.findings[f].open /\ ~ (d.kind = "review" /\ f \in d.closes))
      BY <2>1, <2>2, <2>5
    <3> QED
      BY <2>1, <2>2, <3>1 DEF Amends, RatingsAmend
  <2> QED
    BY <2>4, <2>6
<1> QED
  BY <1>2, <1>5, <1>6

-----------------------------------------------------------------------------
(* The invariant *)

\* The head is what the log, replayed, makes of the machine's results.
Produced(c, m, log) == IsLog(c, m, log) /\ BoardIs(Replay(c, m, log), c, m, log)
Scoped == decisions = <<>> \/ \E d \in ScopeEntry : decisions = <<d>>
Waiting == head = None /\ machine = None /\ Scoped
Answered ==
  /\ machine \in MachineResults(context)
  /\ Produced(context, machine, decisions)
  /\ head = AssembleSnapshot(context, machine, decisions)
IInv == Waiting \/ Answered

LEMMA HeadIs ==
  ASSUME NEW c, NEW m, NEW log, NEW board, board = Replay(c, m, log),
         NEW checks, checks = Checks(board, c), NEW x, x = ScoreInput(board, checks, c),
         NEW h, h = AssembleSnapshot(c, m, log)
  PROVE  /\ h.items = board.items /\ h.gates = board.gates /\ h.findings = board.findings
         /\ h.checks = checks
         /\ h.ready <=> Verdict(x, checks, c) = "awaiting_owner_approval"
         /\ h.reasons = SnapshotReasons(x, checks, c)
BY DEF AssembleSnapshot

LEMMA ProducedFirst ==
  ASSUME NEW c, NEW m, NEW d \in ScopeEntry
  PROVE  Produced(c, m, <<d>>)
<1> DEFINE log == <<d>>
           a == Replay(c, m, log)
<1>1. a = Apply(Base(c, m), d) /\ d.kind = "scope"
  BY ReplayFirst DEF ScopeEntry
<1>2. a = ApplyScope(Base(c, m), d)
  BY <1>1 DEF Apply
<1>3. log = <<d>>
  OBVIOUS
<1> HIDE DEF log, a
<1>4. IsLog(c, m, log) /\ BoardIs(a, c, m, log)
  BY <1>2, <1>3, ScopedBoard
<1> QED
  BY <1>4 DEF Produced, log, a

LEMMA ProducedNext ==
  ASSUME NEW c, NEW m, NEW log, Produced(c, m, log), NEW d, GoodEntry(c, m, log, d)
  PROVE  /\ Produced(c, m, Append(log, d))
         /\ Amends(Replay(c, m, Append(log, d)), Replay(c, m, log), d)
<1> DEFINE longer == Append(log, d)
           b == Replay(c, m, log)
           a == Replay(c, m, longer)
<1>1. IsLog(c, m, log) /\ BoardIs(b, c, m, log)
  BY DEF Produced
<1>2. log \in Seq(Entry) /\ d \in Entry
  BY <1>1 DEF IsLog, GoodEntry
<1>3. a = Apply(b, d)
  BY <1>2, ReplayAppend
<1>4. longer = Append(log, d)
  OBVIOUS
<1>5. IsLog(c, m, longer)
  BY <1>1, LogGrows
<1> HIDE DEF longer, a, b
<1>6. BoardIs(a, c, m, longer) /\ Amends(a, b, d)
  BY <1>1, <1>3, <1>4, BoardGrows
<1> QED
  BY <1>5, <1>6 DEF Produced, longer, a, b

\* What is on record as a finding has a name that a review may close.
LEMMA FoundIsNamed ==
  ASSUME NEW m, NEW log \in Seq(Entry), NEW f, IsFound(f, m, log, Len(log))
  PROVE  f \in FindingNames
<1>1. CASE \E e \in Automatic : f = CheckFinding(e)
  BY <1>1 DEF FindingNames
<1>2. CASE \E i \in 1..Len(log) : log[i].kind = "review" /\ \E s \in log[i].raises : f = ReviewFinding(i, s)
  <2>1. PICK i \in 1..Len(log) : log[i].kind = "review" /\ \E s \in log[i].raises : f = ReviewFinding(i, s)
    BY <1>2
  <2>2. PICK s \in log[i].raises : f = ReviewFinding(i, s)
    BY <2>1
  <2>3. log[i] \in Entry /\ i \in Nat
    OBVIOUS
  <2>4. log[i] \in ReviewEntry
    <3>1. log[i] \notin ScopeEntry /\ log[i] \notin SpecialistEntry
      BY <2>1 DEF ScopeEntry, SpecialistEntry
    <3> QED
      BY <2>3, <3>1 DEF Entry
  <2>5. \E r \in Reviews : log[i].raises = r.raises
    BY <2>4 DEF ReviewEntry, Written
  <2>6. s \in UNION {r.raises : r \in Reviews}
    BY <2>5
  <2> QED
    BY <2>2, <2>3, <2>6 DEF FindingNames
<1> QED
  BY <1>1, <1>2 DEF IsFound

LEMMA AnsweredHead ==
  ASSUME Answered
  PROVE  /\ decisions \in Seq(Entry) /\ decisions # <<>>
         /\ \A f \in DOMAIN head.findings :
              /\ IsFound(f, machine, decisions, Len(decisions))
              /\ head.findings[f].severity = Severity(f)
<1>1. /\ IsLog(context, machine, decisions)
      /\ FindingsAre(Replay(context, machine, decisions), machine, decisions)
  BY DEF Answered, Produced, BoardIs
<1>2. head.findings = Replay(context, machine, decisions).findings
  BY HeadIs DEF Answered
<1>3. \A f \in DOMAIN head.findings : /\ IsFound(f, machine, decisions, Len(decisions))
                                      /\ head.findings[f].severity = Severity(f)
  <2> SUFFICES ASSUME NEW f \in DOMAIN head.findings
               PROVE  /\ IsFound(f, machine, decisions, Len(decisions))
                      /\ head.findings[f].severity = Severity(f)
    OBVIOUS
  <2>1. /\ IsFound(f, machine, decisions, Len(decisions))
        /\ head.findings[f] = [severity |-> Severity(f), open |-> head.findings[f].open]
    BY <1>1, <1>2 DEF FindingsAre
  <2> DEFINE open == head.findings[f].open
  <2> HIDE DEF open
  <2>2. head.findings[f] = [severity |-> Severity(f), open |-> open]
    BY <2>1 DEF open
  <2> QED
    BY <2>1, <2>2
<1> QED
  BY <1>1, <1>3 DEF IsLog

LEMMA ReviewIsGood ==
  ASSUME Answered, NEW p \in Reviewers, NEW r \in Reviews, NEW closes, Review(p, r, closes)
  PROVE  GoodEntry(context, machine, decisions, Decision(p, r, closes))
<1> DEFINE d == Decision(p, r, closes)
<1>1. /\ d.kind = "review" /\ d.by = p /\ d.number = Len(decisions) + 1 /\ d.closes = closes
      /\ d.ratings = r.ratings /\ d.outcomes = r.outcomes /\ d.gates = r.gates
  BY DEF Decision
<1>2. closes \subseteq DOMAIN head.findings
      /\ ((\E f \in closes : head.findings[f].severity = "critical") => p \in Specialists)
  BY DEF Review, MayClose, OpenFindings
<1>3. \A f \in closes : /\ IsFound(f, machine, decisions, Len(decisions))
                        /\ Severity(f) = "critical" => p \in Specialists
  BY <1>2, AnsweredHead
<1>4. d \in Entry
  <2>1. closes \in SUBSET FindingNames
    BY <1>3, AnsweredHead, FoundIsNamed
  <2>2. Len(decisions) + 1 \in Nat
    BY AnsweredHead
  <2>3. d = Written(p, Len(decisions) + 1, r, closes)
    BY DEF Decision, Written
  <2> HIDE DEF d
  <2> QED
    BY <2>1, <2>2, <2>3 DEF Entry, ReviewEntry
<1>5. /\ DOMAIN r.ratings \cap context.exclusions = {}
      /\ DOMAIN r.outcomes \subseteq Plan(context) \ (Criteria \cup {"specialist"})
      /\ (\E g \in DOMAIN r.gates : r.gates[g] = "na") => p = Owner
  BY DEF Review
<1> HIDE DEF d
<1>6. GoodEntry(context, machine, decisions, d)
  BY <1>1, <1>3, <1>4, <1>5 DEF GoodEntry
<1> QED
  BY <1>6 DEF d

LEMMA SpecialistIsGood ==
  ASSUME NEW c, NEW m, NEW log, NEW p \in Specialists
  PROVE  GoodEntry(c, m, log, [kind |-> "specialist", by |-> p])
BY DEF GoodEntry, Entry, SpecialistEntry

LEMMA DecideKeeps ==
  ASSUME Answered, NEW d, GoodEntry(context, machine, decisions, d), Decide(d)
  PROVE  /\ Answered'
         /\ Amends(Replay(context, machine, decisions'), Replay(context, machine, decisions), d)
<1>1. /\ decisions' = Append(decisions, d) /\ context' = context /\ machine' = machine
      /\ head' = AssembleSnapshot(context, machine, decisions')
  BY DEF Decide
<1>2. /\ Produced(context, machine, decisions')
      /\ Amends(Replay(context, machine, decisions'), Replay(context, machine, decisions), d)
  BY <1>1, ProducedNext DEF Answered
<1> QED
  BY <1>1, <1>2 DEF Answered

LEMMA InitHolds == Init => IInv
BY DEF Init, IInv, Waiting, Scoped

LEMMA NextKeeps ==
  ASSUME IInv, [Next]_vars
  PROVE  IInv'
<1>1. CASE UNCHANGED vars
  BY <1>1 DEF vars, IInv, Waiting, Scoped, Answered
<1>2. ASSUME NEW inventory \in BOOLEAN, Scope(inventory)
      PROVE  IInv'
  <2>1. ~ Answered
    BY <1>2, AnsweredHead DEF Scope
  <2>2. [kind |-> "scope", inventory |-> inventory] \in ScopeEntry
    BY DEF ScopeEntry
  <2>3. Waiting'
    BY <1>2, <2>1, <2>2 DEF Scope, IInv, Waiting, Scoped
  <2> QED
    BY <2>3 DEF IInv
<1>3. ASSUME FinishResult
      PROVE  IInv'
  <2>1. machine = None /\ decisions # <<>> /\ context' = context /\ decisions' = decisions
    BY <1>3 DEF FinishResult
  <2>2. ~ Answered
    BY <2>1, NoResultAssumption DEF Answered, MachineResults, Automatic, Outcomes
  <2>3. PICK d \in ScopeEntry : decisions = <<d>>
    BY <2>1, <2>2 DEF IInv, Waiting, Scoped
  <2>4. PICK m \in MachineResults(context) :
          machine' = m /\ head' = AssembleSnapshot(context, m, decisions)
    BY <1>3 DEF FinishResult
  <2>5. Produced(context, m, decisions)
    BY <2>3, ProducedFirst
  <2>6. Answered'
    BY <2>1, <2>4, <2>5 DEF Answered
  <2> QED
    BY <2>6 DEF IInv
<1>4. ASSUME NEW p \in Reviewers, NEW r \in Reviews, NEW closes, Review(p, r, closes)
      PROVE  IInv'
  <2>1. Decide(Decision(p, r, closes)) /\ head # None
    BY <1>4 DEF Review, Decide
  <2>2. Answered
    BY <2>1 DEF IInv, Waiting
  <2> QED
    BY <1>4, <2>1, <2>2, ReviewIsGood, DecideKeeps DEF IInv
<1>5. ASSUME NEW p \in Specialists, Specialist(p)
      PROVE  IInv'
  <2>1. Decide([kind |-> "specialist", by |-> p]) /\ head # None
    BY <1>5 DEF Specialist, Decide
  <2>2. Answered
    BY <2>1 DEF IInv, Waiting
  <2> QED
    BY <2>1, <2>2, SpecialistIsGood, DecideKeeps DEF IInv
<1> QED
  BY <1>1, <1>2, <1>3, <1>4, <1>5 DEF Next

LEMMA AlwaysIInv == Spec => []IInv
<1>1. IInv /\ [Next]_vars => IInv'
  BY NextKeeps
<1> QED
  BY <1>1, InitHolds, PTL DEF Spec

-----------------------------------------------------------------------------
(* Readiness *)

Passing(board, c) ==
  LET checks == Checks(board, c)
      x == ScoreInput(board, checks, c)
  IN  /\ Governed(c) /\ Ready(x)
      /\ Judged(checks, "unknown") = {} /\ Judged(checks, "fail") = {}

LEMMA VerdictIs ==
  ASSUME NEW x, NEW checks, NEW c
  PROVE  Verdict(x, checks, c) = "awaiting_owner_approval" <=>
           /\ Governed(c) /\ Ready(x)
           /\ Judged(checks, "unknown") = {} /\ Judged(checks, "fail") = {}
BY DEF Verdict, Ready

InputFrom(x, board, c) ==
  /\ x.profile = c.profile /\ x.tier = c.tier
  /\ x.items = board.items /\ x.gates = board.gates
  /\ x.findings = {board.findings[f].severity :
                     f \in {f \in DOMAIN board.findings : board.findings[f].open}}
  /\ x.inventory = board.inventory /\ x.setup = (c.supported /\ c.modalities)
  /\ x.specialist = board.specialist /\ x.owner = FALSE

LEMMA InputIs ==
  ASSUME NEW board, NEW checks, NEW c, NEW x, x = ScoreInput(board, checks, c)
  PROVE  InputFrom(x, board, c)
BY DEF ScoreInput, InputFrom

\* A gate lets the content through only by a judgement on it.
LEMMA GateLetsThrough ==
  ASSUME NEW x, NEW g \in Gates \ {"R1", "R7"}, x.gates[g] \in Judgements,
         EffectiveGate(x, g) # "fail", EffectiveGate(x, g) # "unknown"
  PROVE  x.gates[g] \in {"pass", "na"}
BY DEF EffectiveGate, Judgements

LEMMA PassingMeans ==
  ASSUME NEW board, NEW c, Passing(board, c), board.gates \in [Gates -> Judgements]
  PROVE  /\ Governed(c) /\ c.supported /\ board.inventory
         /\ \A g \in Gates \ {"R1", "R7"} : board.gates[g] \in {"pass", "na"}
         /\ \A k \in Criteria : board.items[k].use # "excluded" => board.items[k].rating \in 3..4
         /\ \A e \in Plan(c) : Checks(board, c)[e] # "unknown" /\ Checks(board, c)[e] # "fail"
         /\ \A f \in DOMAIN board.findings : board.findings[f].severity \in {"critical", "major"} =>
              ~ board.findings[f].open
         /\ c.tier = "High" => board.specialist
<1> DEFINE checks == Checks(board, c)
           x == ScoreInput(board, checks, c)
<1>1. /\ Governed(c) /\ Ready(x)
      /\ Judged(checks, "unknown") = {} /\ Judged(checks, "fail") = {}
  BY DEF Passing
<1>2. InputFrom(x, board, c)
  BY InputIs
<1>3. DOMAIN checks = Plan(c)
  BY DEF Checks
<1> HIDE DEF x, checks
<1>4. /\ Held(x) = {} /\ Invalid(x) = {} /\ ~ Incomplete(x)
      /\ Unchecked(x) = {} /\ Majors(x) = {} /\ Weak(x) = {}
  BY <1>1, ReadyIs
<1>5. x.setup /\ c.supported
  <2>1. x.setup
    BY <1>4, ValidIs DEF Valid
  <2> QED
    BY <1>2, <2>1 DEF InputFrom
<1>6. board.inventory
  BY <1>2, <1>4 DEF Incomplete, UnitsKnown, InputFrom
<1>7. \A g \in Gates \ {"R1", "R7"} : board.gates[g] \in {"pass", "na"}
  <2>1. \A g \in Gates \ {"R1", "R7"} : EffectiveGate(x, g) # "fail" /\ EffectiveGate(x, g) # "unknown"
    BY <1>4, HeldIs, UncheckedIs
  <2>2. \A g \in Gates \ {"R1", "R7"} : x.gates[g] \in Judgements
    BY <1>2 DEF InputFrom
  <2> QED
    BY <1>2, <2>1, <2>2, GateLetsThrough DEF InputFrom
<1>8. ASSUME NEW k \in Criteria, board.items[k].use # "excluded"
      PROVE  board.items[k].rating \in 3..4
  <2>1. k \in Recorded(x)
    BY <1>2, <1>4, <1>8 DEF Incomplete, HasPoint, Rated, Applicable, InputFrom
  <2>2. x.items[k].rating \in 0..4
    BY <2>1 DEF Recorded, Ratings
  <2>3. ~ (x.items[k].rating < 3)
    BY <1>4, <2>1, MajorsAndWeakAre DEF LowCriteria
  <2> QED
    BY <1>2, <2>2, <2>3 DEF InputFrom
<1>9. \A e \in Plan(c) : checks[e] # "unknown" /\ checks[e] # "fail"
  BY <1>1, <1>3 DEF Judged
<1>10. \A f \in DOMAIN board.findings : board.findings[f].severity \in {"critical", "major"} =>
         ~ board.findings[f].open
  <2>1. "critical" \notin x.findings /\ "major" \notin x.findings
    BY <1>4, HeldIs, MajorsAndWeakAre
  <2> QED
    BY <1>2, <2>1 DEF InputFrom
<1>11. c.tier = "High" => board.specialist
  BY <1>2, <1>4, UncheckedIs DEF InputFrom
<1> QED
  BY <1>1, <1>5, <1>6, <1>7, <1>8, <1>9, <1>10, <1>11 DEF checks

-----------------------------------------------------------------------------
(* Readiness is earned *)

LEMMA MachineIs ==
  ASSUME NEW c, NEW m \in MachineResults(c), NEW e \in Automatic
  PROVE  m[e] \in {"pass", "fail", "unknown"}
BY DEF MachineResults, Outcomes

LEMMA EarnedGates ==
  ASSUME IsLog(context, machine, decisions), NEW b, GatesAre(b, decisions),
         \A g \in Gates \ {"R1", "R7"} : b.gates[g] \in {"pass", "na"}
  PROVE  GatesEarned
<1> SUFFICES ASSUME NEW g \in Gates \ {"R1", "R7"}, NEW i, i = LastReview("gates", g)
             PROVE  /\ i # 0
                    /\ decisions[i].gates[g] \in {"pass", "na"}
                    /\ decisions[i].gates[g] = "na" => decisions[i].by = Owner
  BY DEF GatesEarned
<1>1. decisions \in Seq(Entry) /\ i = LastOf(Naming(decisions, "gates", g))
  BY DEF IsLog, LastReview
<1>2. b.gates[g] = LastSays(decisions, "gates", g, "unknown")
  BY DEF GatesAre
<1>3. /\ i = 0 => LastSays(decisions, "gates", g, "unknown") = "unknown"
      /\ i # 0 => /\ i \in DOMAIN decisions /\ decisions[i].kind = "review"
                  /\ g \in DOMAIN decisions[i].gates
                  /\ LastSays(decisions, "gates", g, "unknown") = decisions[i].gates[g]
  BY <1>1, SaysIs
<1>4. i # 0 => GoodReview(context, machine, decisions, i)
  BY <1>3 DEF IsLog
<1> QED
  BY <1>2, <1>3, <1>4 DEF GoodReview

LEMMA EarnedRatings ==
  ASSUME IsLog(context, machine, decisions), NEW b, ItemsAre(b, context, machine, decisions),
         \A k \in Criteria : b.items[k].use # "excluded" => b.items[k].rating \in 3..4
  PROVE  RatingsEarned
<1> SUFFICES ASSUME NEW k \in Criteria \ context.exclusions, NEW i, i = LastReview("ratings", k)
             PROVE  IF i # 0 THEN decisions[i].ratings[k] >= 3
                    ELSE k = "G4" \/ (k = "E1" /\ machine["source-status"] = "pass")
  BY DEF RatingsEarned
<1> DEFINE default == Automated(context, machine)[k].rating
           says == LastSays(decisions, "ratings", k, default)
<1>1. decisions \in Seq(Entry) /\ i = LastOf(Naming(decisions, "ratings", k))
  BY DEF IsLog, LastReview
<1>2. b.items[k] = Item("applicable", says)
  BY DEF ItemsAre
<1>3. /\ i = 0 => says = default
      /\ i # 0 => says = decisions[i].ratings[k]
  BY <1>1, SaysIs
<1>4. default = IF k = "E1" /\ machine["source-status"] # "unknown"
                THEN IF machine["source-status"] = "pass" THEN 4 ELSE 0
                ELSE IF k = "G4" THEN 4 ELSE None
  BY AutomatedIs
<1> HIDE DEF default, says
<1>5. b.items[k].use = "applicable" /\ b.items[k].rating = says
  BY <1>2 DEF Item
<1>6. says \in 3..4
  BY <1>5
<1>7. CASE i # 0
  BY <1>3, <1>6, <1>7
<1>8. CASE i = 0
  <2>1. default \in 3..4
    BY <1>3, <1>6, <1>8
  <2>2. None \notin 3..4 /\ 0 \notin 3..4
    BY NoneAssumption
  <2> QED
    BY <1>4, <1>8, <2>1, <2>2
<1> QED
  BY <1>7, <1>8

LEMMA EarnedExaminations ==
  ASSUME machine \in MachineResults(context), IsLog(context, machine, decisions),
         NEW b, ChecksAre(b, context, machine, decisions),
         \A e \in Plan(context) : /\ Checks(b, context)[e] # "unknown"
                                  /\ Checks(b, context)[e] # "fail"
  PROVE  ExaminationsEarned
<1> SUFFICES ASSUME NEW e \in Plan(context) \ (Criteria \cup {"specialist"}),
                    NEW i, i = LastReview("outcomes", e)
             PROVE  IF i # 0 THEN decisions[i].outcomes[e] = "pass"
                    ELSE e \in Automatic /\ machine[e] = "pass"
  BY DEF ExaminationsEarned
<1> DEFINE default == IF e \in Automatic THEN machine[e] ELSE "unknown"
           says == LastSays(decisions, "outcomes", e, default)
<1>1. decisions \in Seq(Entry) /\ i = LastOf(Naming(decisions, "outcomes", e))
  BY DEF IsLog, LastReview
<1>2. Checks(b, context)[e] = b.checks[e]
  BY DEF Checks
<1>3. b.checks[e] = says
  BY DEF ChecksAre
<1>4. says # "unknown" /\ says # "fail"
  BY <1>2, <1>3
<1>5. /\ i = 0 => says = default
      /\ i # 0 => /\ decisions[i] \in Entry /\ decisions[i].kind = "review"
                  /\ e \in DOMAIN decisions[i].outcomes
                  /\ says = decisions[i].outcomes[e]
  BY <1>1, SaysIs
<1>6. e \in Automatic => machine[e] \in {"pass", "fail", "unknown"}
  BY MachineIs
<1> HIDE DEF says
<1>7. CASE i # 0
  <2>1. decisions[i].outcomes[e] \in {"pass", "fail", "unknown"}
    BY <1>5, <1>7, EntryIs
  <2> QED
    BY <1>4, <1>5, <1>7, <2>1
<1>8. CASE i = 0
  BY <1>4, <1>5, <1>6, <1>8
<1> QED
  BY <1>7, <1>8

LEMMA ClosingIs ==
  ASSUME IsLog(context, machine, decisions), NEW f, Closers(decisions, f) # {}
  PROVE  /\ LastClosing(f) # 0 /\ LastClosing(f) \in DOMAIN decisions
         /\ decisions[LastClosing(f)].kind = "review" /\ f \in decisions[LastClosing(f)].closes
<1>1. Len(decisions) \in Nat /\ DOMAIN decisions = 1..Len(decisions)
  BY DEF IsLog
<1>2. Closers(decisions, f) \in SUBSET (1..Len(decisions))
  BY <1>1 DEF Closers
<1>3. LastClosing(f) # 0 /\ LastClosing(f) \in Closers(decisions, f)
  BY <1>1, <1>2, LastOfIs DEF LastClosing
<1> QED
  BY <1>3 DEF Closers

LEMMA SettledFindings ==
  ASSUME IsLog(context, machine, decisions), NEW b, FindingsAre(b, machine, decisions),
         \A f \in DOMAIN b.findings : b.findings[f].severity \in {"critical", "major"} =>
           ~ b.findings[f].open
  PROVE  FailuresAnswered /\ FindingsSettled
<1>1. ASSUME NEW f, IsFound(f, machine, decisions, Len(decisions)),
             Severity(f) \in {"critical", "major"}
      PROVE  Closers(decisions, f) # {}
  <2>1. f \in DOMAIN b.findings
    BY <1>1 DEF FindingsAre
  <2>2. b.findings[f] = [severity |-> Severity(f), open |-> b.findings[f].open]
    BY <2>1 DEF FindingsAre
  <2> DEFINE open == b.findings[f].open
  <2>3. b.findings[f] = [severity |-> Severity(f), open |-> open]
    BY <2>2
  <2> HIDE DEF open
  <2>4. b.findings[f].severity = Severity(f)
    BY <2>3
  <2>5. b.findings[f].open <=> Closers(decisions, f) = {}
    BY <2>1 DEF FindingsAre
  <2> QED
    BY <1>1, <2>1, <2>4, <2>5
<1>2. ASSUME NEW e \in Automatic, machine[e] = "fail"
      PROVE  LastClosing(<<"check", e>>) # 0
  <2>1. IsFound(CheckFinding(e), machine, decisions, Len(decisions))
        /\ Severity(CheckFinding(e)) = "major"
    BY <1>2, NamesDiffer DEF IsFound
  <2>2. Closers(decisions, CheckFinding(e)) # {}
    BY <1>1, <2>1
  <2> QED
    BY <2>2, ClosingIs DEF CheckFinding
<1>3. ASSUME NEW i \in DOMAIN decisions, decisions[i].kind = "review",
             NEW s \in decisions[i].raises \cap {"critical", "major"},
             NEW j, j = LastClosing(<<"review", i, s>>)
      PROVE  j > i /\ (s = "critical" => decisions[j].by \in Specialists)
  <2>1. Len(decisions) \in Nat /\ DOMAIN decisions = 1..Len(decisions)
    BY DEF IsLog
  <2> DEFINE f == ReviewFinding(i, s)
  <2>2. IsFound(f, machine, decisions, Len(decisions)) /\ Severity(f) = s
    BY <1>3, <2>1, NamesDiffer DEF IsFound
  <2>3. j = LastClosing(f)
    BY <1>3 DEF ReviewFinding
  <2>4. Closers(decisions, f) # {}
    BY <1>1, <2>2
  <2>5. j \in DOMAIN decisions /\ decisions[j].kind = "review" /\ f \in decisions[j].closes
    BY <2>3, <2>4, ClosingIs
  <2>6. GoodReview(context, machine, decisions, j)
    BY <2>5 DEF IsLog
  <2>7. IsFound(f, machine, decisions, j - 1) /\ (s = "critical" => decisions[j].by \in Specialists)
    BY <2>2, <2>5, <2>6 DEF GoodReview
  <2>8. \E k \in 1..(j - 1) : \E t : ReviewFinding(i, s) = ReviewFinding(k, t)
    BY <2>7, NamesDiffer DEF IsFound
  <2>9. i \in 1..(j - 1)
    BY <2>8, NamesDiffer
  <2>10. j > i
    BY <2>1, <2>5, <2>9
  <2> QED
    BY <2>7, <2>10
<1>4. FailuresAnswered
  BY <1>2 DEF FailuresAnswered
<1>5. FindingsSettled
  BY <1>3 DEF FindingsSettled
<1> QED
  BY <1>4, <1>5

LEMMA AnsweredIsEarned ==
  ASSUME Answered, head.ready
  PROVE  /\ Governed(context) /\ context.supported /\ decisions[1].inventory
         /\ GatesEarned /\ RatingsEarned /\ ExaminationsEarned
         /\ FailuresAnswered /\ FindingsSettled
         /\ SpecialistSpokeLast
<1> DEFINE b == Replay(context, machine, decisions)
           checks == Checks(b, context)
<1>1. /\ machine \in MachineResults(context) /\ IsLog(context, machine, decisions)
      /\ GatesAre(b, decisions) /\ ItemsAre(b, context, machine, decisions)
      /\ ChecksAre(b, context, machine, decisions) /\ FindingsAre(b, machine, decisions)
      /\ b.inventory = decisions[1].inventory
      /\ b.specialist = (decisions[Len(decisions)].kind = "specialist")
  BY DEF Answered, Produced, BoardIs
<1>2. Passing(b, context)
  <2>1. Verdict(ScoreInput(b, checks, context), checks, context) = "awaiting_owner_approval"
    BY HeadIs DEF Answered
  <2> QED
    BY <2>1, VerdictIs DEF Passing
<1>3. b.gates \in [Gates -> Judgements]
  BY <1>1 DEF GatesAre
<1>4. /\ Governed(context) /\ context.supported /\ b.inventory
      /\ \A g \in Gates \ {"R1", "R7"} : b.gates[g] \in {"pass", "na"}
      /\ \A k \in Criteria : b.items[k].use # "excluded" => b.items[k].rating \in 3..4
      /\ \A e \in Plan(context) : checks[e] # "unknown" /\ checks[e] # "fail"
      /\ \A f \in DOMAIN b.findings : b.findings[f].severity \in {"critical", "major"} =>
           ~ b.findings[f].open
      /\ context.tier = "High" => b.specialist
  BY <1>2, <1>3, PassingMeans
<1>5. context.specialist => b.specialist
  <2>1. context.specialist => "specialist" \in Plan(context)
    BY DEF Plan
  <2>2. "specialist" \in Plan(context) => checks["specialist"] = IF b.specialist THEN "pass" ELSE "unknown"
    BY PlanAssumption DEF Checks
  <2> QED
    BY <1>4, <2>1, <2>2
<1>6. SpecialistSpokeLast
  <2>1. Last(decisions) = decisions[Len(decisions)]
    BY DEF Last
  <2> QED
    BY <1>1, <1>4, <1>5, <2>1 DEF SpecialistSpokeLast
<1> HIDE DEF b
<1>7. GatesEarned
  BY <1>1, <1>4, EarnedGates
<1>8. RatingsEarned
  BY <1>1, <1>4, EarnedRatings
<1>9. ExaminationsEarned
  BY <1>1, <1>4, EarnedExaminations
<1>10. FailuresAnswered /\ FindingsSettled
  BY <1>1, <1>4, SettledFindings
<1>11. decisions[1].inventory
  BY <1>1, <1>4
<1> QED
  BY <1>4, <1>6, <1>7, <1>8, <1>9, <1>10, <1>11

\* A run is ready for its owner only when people have judged every gate,
\* criterion and examination well, have closed what was found, and the
\* specialist, where one is due, spoke last: for every plan, every result of
\* the machine and every course of decisions (service.py 236-438, 797-921).
THEOREM ReadyIsEarned == Spec => []ReadinessIsEarned
<1>1. IInv => ReadinessIsEarned
  BY AnsweredIsEarned DEF IInv, Waiting, ReadinessIsEarned
<1> QED
  BY <1>1, AlwaysIInv, PTL

-----------------------------------------------------------------------------
(* Readiness is explained *)

LEMMA CompleteIs ==
  ASSUME NEW x
  PROVE  Unassessed(x) = {} <=> Total(x) # 0 /\ Rated(x) /\ UnitsKnown(x)
<1>1. ASSUME Unassessed(x) = {}
      PROVE  Total(x) # 0 /\ Rated(x) /\ UnitsKnown(x)
  <2>1. /\ "ALL_EXCLUDED" \notin Unassessed(x) /\ "INCOMPLETE_RUBRIC" \notin Unassessed(x)
        /\ "UNKNOWN_UNIT_COVERAGE" \notin Unassessed(x)
    BY <1>1
  <2> QED
    BY <2>1 DEF Unassessed
<1> QED
  BY <1>1 DEF Unassessed

\* The parts of Reasons, none of which is the owner's approval.
Missings(x) ==
  Held(x) \cup Invalid(x) \cup Unassessed(x) \cup Unchecked(x) \cup Majors(x)
    \cup Weak(x) \cup Thresholds(x)

LEMMA ReadyIsComplete ==
  ASSUME NEW x
  PROVE  Ready(x) <=> Missings(x) = {}
<1>1. Missings(x) = {} <=>
        /\ Held(x) = {} /\ Invalid(x) = {} /\ Unassessed(x) = {} /\ Unchecked(x) = {}
        /\ Majors(x) = {} /\ Weak(x) = {} /\ Thresholds(x) = {}
  BY DEF Missings
<1>2. Invalid(x) = {} => (Unassessed(x) = {} <=> ~ Incomplete(x))
  <2>1. Total(x) \in Nat
    BY TotalIs
  <2>2. Total(x) # 0 <=> Total(x) > 0
    BY <2>1
  <2> QED
    BY <2>2, CompleteIs DEF Incomplete, HasPoint
<1> QED
  BY <1>1, <1>2, ReadyIs

\* What the snapshot adds to the reasons of the rubric.
Adds(x, checks, c) ==
  {r \in {"SPECIALIST_REVIEW_REQUIRED", "GOVERNED_CONTEXT_INVALID", "FAILED_EXAMINATIONS",
          "REQUIRED_CHECKS_INCOMPLETE", "FORMAT_OR_EXTRACTION_INCOMPLETE"} :
     \/ r = "SPECIALIST_REVIEW_REQUIRED" /\ c.specialist /\ ~x.specialist
     \/ r = "GOVERNED_CONTEXT_INVALID" /\ ~Governed(c)
     \/ r = "REQUIRED_CHECKS_INCOMPLETE" /\ Judged(checks, "unknown") # {}
     \/ r = "FAILED_EXAMINATIONS" /\ Judged(checks, "fail") # {}
     \/ r = "FORMAT_OR_EXTRACTION_INCOMPLETE" /\ ~x.setup}

LEMMA AddsNothing ==
  ASSUME NEW x, NEW checks, NEW c
  PROVE  Adds(x, checks, c) = {} <=>
           /\ c.specialist => x.specialist
           /\ Governed(c) /\ x.setup
           /\ Judged(checks, "unknown") = {} /\ Judged(checks, "fail") = {}
<1>1. ASSUME Adds(x, checks, c) = {}
      PROVE  /\ c.specialist => x.specialist
             /\ Governed(c) /\ x.setup
             /\ Judged(checks, "unknown") = {} /\ Judged(checks, "fail") = {}
  <2>1. /\ "SPECIALIST_REVIEW_REQUIRED" \notin Adds(x, checks, c)
        /\ "GOVERNED_CONTEXT_INVALID" \notin Adds(x, checks, c)
        /\ "FAILED_EXAMINATIONS" \notin Adds(x, checks, c)
        /\ "REQUIRED_CHECKS_INCOMPLETE" \notin Adds(x, checks, c)
        /\ "FORMAT_OR_EXTRACTION_INCOMPLETE" \notin Adds(x, checks, c)
    BY <1>1
  <2> QED
    BY <2>1 DEF Adds
<1> QED
  BY <1>1 DEF Adds

LEMMA NoOwnerAmong ==
  ASSUME NEW x, NEW checks, NEW c
  PROVE  "OWNER_APPROVAL_REQUIRED" \notin Missings(x) \cup Adds(x, checks, c)
<1>1. "OWNER_APPROVAL_REQUIRED" \notin Adds(x, checks, c)
  BY DEF Adds
<1>2. /\ "OWNER_APPROVAL_REQUIRED" \notin Held(x) /\ "OWNER_APPROVAL_REQUIRED" \notin Invalid(x)
      /\ "OWNER_APPROVAL_REQUIRED" \notin Unassessed(x)
      /\ "OWNER_APPROVAL_REQUIRED" \notin Unchecked(x)
      /\ "OWNER_APPROVAL_REQUIRED" \notin Majors(x) /\ "OWNER_APPROVAL_REQUIRED" \notin Weak(x)
      /\ "OWNER_APPROVAL_REQUIRED" \notin Thresholds(x)
  BY DEF Held, Invalid, Unassessed, Unchecked, Majors, Weak, Thresholds
<1> QED
  BY <1>1, <1>2 DEF Missings

LEMMA ReasonsAre ==
  ASSUME NEW x, ~ x.owner, NEW checks, NEW c
  PROVE  SnapshotReasons(x, checks, c) =
           (Missings(x) \cup Adds(x, checks, c)) \cup {"OWNER_APPROVAL_REQUIRED"}
BY DEF SnapshotReasons, Reasons, Missings, Adds

LEMMA AnsweredIsExplained ==
  ASSUME Answered
  PROVE  head.ready <=> head.reasons = {"OWNER_APPROVAL_REQUIRED"}
<1> DEFINE b == Replay(context, machine, decisions)
           checks == Checks(b, context)
           x == ScoreInput(b, checks, context)
           rest == Missings(x) \cup Adds(x, checks, context)
<1>1. /\ head.ready <=> Verdict(x, checks, context) = "awaiting_owner_approval"
      /\ head.reasons = SnapshotReasons(x, checks, context)
  BY HeadIs DEF Answered
<1>2. InputFrom(x, b, context)
  BY InputIs
<1>3. context.specialist => ("specialist" \in DOMAIN checks
        /\ checks["specialist"] = IF b.specialist THEN "pass" ELSE "unknown")
  <2>1. context.specialist => "specialist" \in Plan(context)
    BY DEF Plan
  <2> QED
    BY <2>1, PlanAssumption DEF Checks
<1> HIDE DEF b, x, checks
<1>4. head.ready <=> /\ Governed(context) /\ Ready(x)
                     /\ Judged(checks, "unknown") = {} /\ Judged(checks, "fail") = {}
  BY <1>1, VerdictIs
<1>5. ~ x.owner /\ x.specialist = b.specialist
  BY <1>2 DEF InputFrom
<1>6. Judged(checks, "unknown") = {} => (context.specialist => x.specialist)
  BY <1>3, <1>5 DEF Judged
<1>7. Invalid(x) = {} => x.setup
  BY ValidIs DEF Valid
<1>8. Missings(x) = {} => Invalid(x) = {}
  BY DEF Missings
<1>9. head.ready <=> Missings(x) = {} /\ Adds(x, checks, context) = {}
  BY <1>4, <1>6, <1>7, <1>8, ReadyIsComplete, AddsNothing
<1>10. head.reasons = rest \cup {"OWNER_APPROVAL_REQUIRED"} /\ "OWNER_APPROVAL_REQUIRED" \notin rest
  BY <1>1, <1>5, ReasonsAre, NoOwnerAmong
<1>11. rest = {} <=> Missings(x) = {} /\ Adds(x, checks, context) = {}
  OBVIOUS
<1> HIDE DEF rest
<1> QED
  BY <1>9, <1>10, <1>11

\* The reasons a reader is given are the whole story: nothing but the owner's
\* approval is missing exactly when the run is ready (service.py 379-439).
THEOREM ReasonsAreComplete == Spec => []ReasonsExplainSnapshot
<1>1. IInv => ReasonsExplainSnapshot
  BY AnsweredIsExplained DEF IInv, Waiting, ReasonsExplainSnapshot
<1> QED
  BY <1>1, AlwaysIInv, PTL


-----------------------------------------------------------------------------
(* A decision amends the snapshot *)

\* What a snapshot says of an examination once d is taken into account.
Judgement(checks, d, e) ==
  CASE e = "specialist" -> IF d.kind = "specialist" THEN "pass" ELSE "unknown"
    [] e \in DOMAIN Named(d, "ratings") -> IF d.ratings[e] < 3 THEN "fail" ELSE "pass"
    [] e \in DOMAIN Named(d, "outcomes") -> d.outcomes[e]
    [] OTHER -> checks[e]

LEMMA NamedIs ==
  ASSUME NEW d, NEW field, NEW key
  PROVE  key \in DOMAIN Named(d, field) <=> d.kind = "review" /\ key \in DOMAIN d[field]
BY DEF Named

LEMMA JudgementIs ==
  ASSUME NEW c, NEW m, NEW log, NEW d, GoodEntry(c, m, log, d), NEW a, NEW b, Amends(a, b, d),
         DOMAIN b.checks = Plan(c), a.specialist = (d.kind = "specialist"), NEW e \in Plan(c)
  PROVE  Checks(a, c)[e] = Judgement(Checks(b, c), d, e)
<1>1. Checks(a, c)[e] =
        IF e = "specialist" THEN IF a.specialist THEN "pass" ELSE "unknown"
        ELSE IF e \in Criteria /\ a.items[e].rating # None
             THEN IF a.items[e].rating >= 3 THEN "pass" ELSE "fail" ELSE a.checks[e]
  BY PlanAssumption DEF Checks
<1>2. Checks(b, c)[e] =
        IF e = "specialist" THEN IF b.specialist THEN "pass" ELSE "unknown"
        ELSE IF e \in Criteria /\ b.items[e].rating # None
             THEN IF b.items[e].rating >= 3 THEN "pass" ELSE "fail" ELSE b.checks[e]
  BY PlanAssumption DEF Checks
<1>3. d \in Entry /\ (d.kind = "review" => DOMAIN d.outcomes \cap Criteria = {})
  BY DEF GoodEntry
<1>4. d.kind = "review" => /\ DOMAIN d.ratings \subseteq Criteria
                           /\ \A k \in DOMAIN d.ratings : d.ratings[k] \in 0..4
  BY <1>3, EntryIs
<1>5. e \in Criteria => a.items[e].rating =
        IF d.kind = "review" /\ e \in DOMAIN d.ratings THEN d.ratings[e] ELSE b.items[e].rating
  BY DEF Amends, RatingsAmend
<1>6. a.checks[e] = IF d.kind = "review" /\ e \in DOMAIN d.outcomes THEN d.outcomes[e] ELSE b.checks[e]
  BY DEF Amends, Updated
<1> DEFINE rated == d.kind = "review" /\ e \in DOMAIN d.ratings
           judged == d.kind = "review" /\ e \in DOMAIN d.outcomes
<1>7. /\ rated <=> e \in DOMAIN Named(d, "ratings")
      /\ judged <=> e \in DOMAIN Named(d, "outcomes")
  BY NamedIs
<1>8. e = "specialist" => ~ rated /\ ~ judged
  BY <1>4, PlanAssumption DEF GoodEntry
<1>9. ~ (rated /\ judged)
  BY <1>3, <1>4
<1> DEFINE word == Judgement(Checks(b, c), d, e)
<1>10. /\ e = "specialist" => word = IF d.kind = "specialist" THEN "pass" ELSE "unknown"
       /\ rated => word = IF d.ratings[e] < 3 THEN "fail" ELSE "pass"
       /\ judged => word = d.outcomes[e]
       /\ e # "specialist" /\ ~ rated /\ ~ judged => word = Checks(b, c)[e]
  BY <1>7, <1>8, <1>9 DEF Judgement
<1>11. rated => e \in Criteria /\ d.ratings[e] \in 0..4 /\ d.ratings[e] # None
  BY <1>4, NoneAssumption
<1>12. judged => e \notin Criteria
  BY <1>3
<1> HIDE DEF rated, judged, word
<1>13. CASE e = "specialist"
  BY <1>1, <1>10, <1>13 DEF word
<1>14. CASE rated
  <2>1. a.items[e].rating = d.ratings[e] /\ e \in Criteria
    BY <1>5, <1>11, <1>14 DEF rated
  <2>2. d.ratings[e] >= 3 <=> ~ (d.ratings[e] < 3)
    BY <1>11, <1>14
  <2>3. e # "specialist"
    BY <1>8, <1>14
  <2>4. Checks(a, c)[e] = IF d.ratings[e] >= 3 THEN "pass" ELSE "fail"
    BY <1>1, <1>11, <1>14, <2>1, <2>3
  <2> QED
    BY <1>10, <1>14, <2>2, <2>4 DEF word
<1>15. CASE judged
  <2>1. e # "specialist" /\ e \notin Criteria
    BY <1>8, <1>12, <1>15
  <2>2. a.checks[e] = d.outcomes[e]
    BY <1>6, <1>15 DEF judged
  <2> QED
    BY <1>1, <1>10, <1>15, <2>1, <2>2 DEF word
<1>16. CASE e # "specialist" /\ ~ rated /\ ~ judged
  <2>1. e \in Criteria => a.items[e].rating = b.items[e].rating
    BY <1>5, <1>16 DEF rated
  <2>2. a.checks[e] = b.checks[e]
    BY <1>6, <1>16 DEF judged
  <2>3. Checks(a, c)[e] = Checks(b, c)[e]
    BY <1>1, <1>2, <1>16, <2>1, <2>2
  <2> QED
    BY <1>10, <1>16, <2>3 DEF word
<1> QED
  BY <1>13, <1>14, <1>15, <1>16 DEF word

LEMMA DecisionAmends ==
  ASSUME Answered, NEW d, GoodEntry(context, machine, decisions, d), Decide(d)
  PROVE  Amended
<1> DEFINE b == Replay(context, machine, decisions)
           a == Replay(context, machine, decisions')
<1>1. Amends(a, b, d) /\ Answered'
  BY DecideKeeps
<1>2. /\ decisions' = Append(decisions, d) /\ context' = context /\ machine' = machine
      /\ decisions \in Seq(Entry) /\ d \in Entry
  BY AnsweredHead DEF Decide, GoodEntry
<1>3. Last(decisions') = d /\ decisions'[Len(decisions')] = d
  BY <1>2 DEF Last
<1>4. /\ head.items = b.items /\ head.gates = b.gates /\ head.findings = b.findings
      /\ head.checks = Checks(b, context)
  BY HeadIs DEF Answered
<1>5. /\ head'.items = a.items /\ head'.gates = a.gates /\ head'.findings = a.findings
      /\ head'.checks = Checks(a, context)
  <2>1. head' = AssembleSnapshot(context, machine, decisions')
    BY DEF Decide
  <2> QED
    BY <2>1, HeadIs
<1>6. /\ GatesAre(b, decisions) /\ ChecksAre(b, context, machine, decisions)
      /\ BoardIs(a, context, machine, decisions')
  BY <1>1, <1>2 DEF Answered, Produced, BoardIs
<1>7. /\ a.specialist = (d.kind = "specialist") /\ DOMAIN b.checks = Plan(context)
      /\ b.gates \in [Gates -> Judgements]
  BY <1>3, <1>6 DEF BoardIs, GatesAre, ChecksAre
<1> HIDE DEF a, b
<1>8. \A k \in Criteria : head'.items[k].rating =
        IF k \in DOMAIN Named(d, "ratings") THEN d.ratings[k] ELSE head.items[k].rating
  BY <1>1, <1>4, <1>5, NamedIs DEF Amends, RatingsAmend
<1>9. head'.gates = Updated(head.gates, Named(d, "gates"))
  <2>1. CASE d.kind = "review"
    BY <1>1, <1>4, <1>5, <2>1 DEF Amends, Named
  <2>2. CASE d.kind # "review"
    <3>1. Updated(b.gates, <<>>) = b.gates
      BY <1>7 DEF Updated
    <3> QED
      BY <1>1, <1>4, <1>5, <2>2, <3>1 DEF Amends, Named
  <2> QED
    BY <2>1, <2>2
<1>10. head'.checks = [e \in Plan(context) |-> Judgement(head.checks, d, e)]
  <2>1. \A e \in Plan(context) : Checks(a, context)[e] = Judgement(head.checks, d, e)
    BY <1>1, <1>4, <1>7, JudgementIs
  <2>2. Checks(a, context) = [e \in Plan(context) |-> Checks(a, context)[e]]
    BY DEF Checks
  <2> QED
    BY <1>5, <2>1, <2>2
<1>11. \A f \in DOMAIN head.findings :
         /\ f \in DOMAIN head'.findings
         /\ head'.findings[f].severity = head.findings[f].severity
         /\ head'.findings[f].open =
              (head.findings[f].open /\ f \notin (IF d.kind = "review" THEN d.closes ELSE {}))
  BY <1>1, <1>4, <1>5 DEF Amends
<1> QED
  BY <1>3, <1>8, <1>9, <1>10, <1>11 DEF Amended, Named, Judgement

LEMMA StepAmends ==
  ASSUME IInv, Next, head # None, decisions' # decisions
  PROVE  Amended
<1>1. Answered
  BY DEF IInv, Waiting
<1>2. ASSUME NEW inventory \in BOOLEAN, Scope(inventory)
      PROVE  Amended
  BY <1>1, <1>2, AnsweredHead DEF Scope
<1>3. ASSUME FinishResult
      PROVE  Amended
  BY <1>3 DEF FinishResult
<1>4. ASSUME NEW p \in Reviewers, NEW r \in Reviews, NEW closes, Review(p, r, closes)
      PROVE  Amended
  <2>1. Decide(Decision(p, r, closes))
    BY <1>4 DEF Review
  <2> QED
    BY <1>1, <1>4, <2>1, ReviewIsGood, DecisionAmends
<1>5. ASSUME NEW p \in Specialists, Specialist(p)
      PROVE  Amended
  <2>1. Decide([kind |-> "specialist", by |-> p])
    BY <1>5 DEF Specialist
  <2> QED
    BY <1>1, <2>1, SpecialistIsGood, DecisionAmends
<1> QED
  BY <1>2, <1>3, <1>4, <1>5 DEF Next

\* Replaying the whole log loses and revives nothing: a new decision changes in
\* the snapshot what it names and nothing else, however long the log and
\* whatever came before (service.py 248-377).
THEOREM DecisionsAmend == Spec => ReplayIsIncremental
<1>1. IInv /\ [Next]_vars => [head # None /\ decisions' # decisions => Amended]_vars
  BY StepAmends DEF vars
<1> QED
  BY <1>1, AlwaysIInv, PTL DEF Spec, ReplayIsIncremental

-----------------------------------------------------------------------------
(* The release control may rely on the snapshots *)

Demanding == context.specialist \/ context.tier = "High"
HasReview(log) == \E i \in DOMAIN log : log[i].kind = "review"
BySpecialist(log) == Last(log).kind = "specialist"
IsReady == head.ready

\* A gate has no judgement before somebody reviews it.
LEMMA GatesNeedReview ==
  ASSUME Answered, GatesEarned
  PROVE  HasReview(decisions)
<1>1. decisions \in Seq(Entry)
  BY AnsweredHead
<1>2. PICK g \in Gates : g \notin {"R1", "R7"}
  BY GatesAssumption
<1>3. LastReview("gates", g) # 0
  BY <1>2 DEF GatesEarned
<1>4. Naming(decisions, "gates", g) # {}
  BY <1>3 DEF LastReview, LastOf
<1> QED
  BY <1>4 DEF Naming, HasReview

\* What a ready head owes, in the terms of Readiness.
LEMMA ReadyIsRelied ==
  ASSUME Answered
  PROVE  /\ IsReady \in BOOLEAN
         /\ IsReady =>
              Governed(context) /\ HasReview(decisions) /\ (Demanding => BySpecialist(decisions))
<1>1. IsReady \in BOOLEAN
  BY DEF Answered, AssembleSnapshot, IsReady
<1>2. ASSUME IsReady
      PROVE  Governed(context) /\ HasReview(decisions) /\ (Demanding => BySpecialist(decisions))
  BY <1>2, AnsweredIsEarned, GatesNeedReview
  DEF IsReady, SpecialistSpokeLast, Demanding, BySpecialist
<1> QED
  BY <1>1, <1>2

LEMMA AnsweredMachine ==
  ASSUME Answered
  PROVE  machine # None
BY NoResultAssumption DEF Answered, MachineResults, Automatic, Outcomes

LEMMA SummaryIs ==
  ASSUME Answered
  PROVE  /\ Summary = [ready |-> IsReady, reviewed |-> HasReview(decisions),
                       specialist |-> BySpecialist(decisions)]
         /\ Summary # <<>>
<1>1. Summary = [ready |-> IsReady, reviewed |-> HasReview(decisions),
                 specialist |-> BySpecialist(decisions)]
  BY AnsweredMachine DEF Summary, IsReady, HasReview, BySpecialist
<1>2. "ready" \in DOMAIN Summary
  BY <1>1
<1>3. DOMAIN <<>> = {}
  OBVIOUS
<1> QED
  BY <1>1, <1>2, <1>3

\* What an answered run owes the release control.
Relied ==
  Answered =>
    /\ IsReady \in BOOLEAN
    /\ IsReady =>
         Governed(context) /\ HasReview(decisions) /\ (Demanding => BySpecialist(decisions))
    /\ Summary = [ready |-> IsReady, reviewed |-> HasReview(decisions),
                  specialist |-> BySpecialist(decisions)]
    /\ Summary # <<>>

LEMMA AllRelied == Relied
BY ReadyIsRelied, SummaryIs DEF Relied

\* Whatever the log has become, its snapshot may be assembled.
LEMMA SummaryAssembled ==
  ASSUME Relied', Answered', context' = context, NEW reviewed, NEW specialist,
         HasReview(decisions') = reviewed, BySpecialist(decisions') = specialist
  PROVE  Control!Assemble(reviewed, specialist)
<1>1. /\ IsReady' \in BOOLEAN
      /\ IsReady' => Governed(context) /\ reviewed /\ (Demanding => specialist)
      /\ Summary' = [ready |-> IsReady', reviewed |-> reviewed, specialist |-> specialist]
  BY DEF Relied, Governed, Demanding, HasReview, BySpecialist
<1>2. Governed(context)' = Governed(context) /\ Demanding' = Demanding
  BY DEF Governed, Demanding
<1> QED
  BY <1>1, <1>2 DEF Control!Assemble, Demanding

\* The first snapshot is of a log with nothing in it but the scope.
LEMMA ScopeAlone ==
  ASSUME NEW d \in ScopeEntry
  PROVE  HasReview(<<d>>) = FALSE /\ BySpecialist(<<d>>) = FALSE
<1>1. d.kind = "scope"
  BY DEF ScopeEntry
<1>2. DOMAIN <<d>> = {1} /\ <<d>>[1] = d /\ Len(<<d>>) = 1
  OBVIOUS
<1> QED
  BY <1>1, <1>2 DEF HasReview, BySpecialist, Last

LEMMA AppendedSays ==
  ASSUME NEW log \in Seq(Entry), NEW d \in Entry
  PROVE  /\ HasReview(Append(log, d)) <=> HasReview(log) \/ d.kind = "review"
         /\ BySpecialist(Append(log, d)) <=> d.kind = "specialist"
<1> DEFINE q == Append(log, d)
           n == Len(log)
<1>1. /\ n \in Nat /\ DOMAIN log = 1 .. n /\ DOMAIN q = 1 .. n + 1 /\ Len(q) = n + 1
      /\ q[n + 1] = d /\ \A i \in 1 .. n : q[i] = log[i]
  OBVIOUS
<1> HIDE DEF q, n
<1>2. BySpecialist(q) <=> d.kind = "specialist"
  BY <1>1 DEF BySpecialist, Last
<1>3. HasReview(q) <=> HasReview(log) \/ d.kind = "review"
  BY <1>1 DEF HasReview
<1> QED
  BY <1>2, <1>3 DEF q

LEMMA StepRelies ==
  ASSUME IInv, Relied, Relied', Next
  PROVE  \/ Control!Next
         \/ UNCHANGED <<Governed(context), context.specialist \/ context.tier = "High", Summary>>
<1>1. ASSUME NEW inventory \in BOOLEAN, Scope(inventory)
      PROVE  UNCHANGED <<context, Summary>>
  <2>1. machine = None /\ machine' = None /\ context' = context
    BY <1>1, AnsweredHead DEF Scope, IInv, Waiting
  <2> QED
    BY <2>1 DEF Summary
<1>2. ASSUME FinishResult
      PROVE  Control!Evaluate
  <2>1. machine = None /\ decisions # <<>> /\ context' = context /\ decisions' = decisions
    BY <1>2 DEF FinishResult
  <2>2. PICK d \in ScopeEntry : decisions = <<d>>
    BY <2>1, AnsweredMachine DEF IInv, Waiting, Scoped
  <2>3. PICK m \in MachineResults(context) :
          machine' = m /\ head' = AssembleSnapshot(context, m, decisions)
    BY <1>2 DEF FinishResult
  <2>4. Produced(context, m, decisions)
    BY <2>2, ProducedFirst
  <2>5. Answered'
    BY <2>1, <2>3, <2>4 DEF Answered
  <2>6. HasReview(decisions') = FALSE /\ BySpecialist(decisions') = FALSE
    BY <2>1, <2>2, ScopeAlone
  <2>7. Control!Assemble(FALSE, FALSE)
    BY <2>1, <2>5, <2>6, SummaryAssembled
  <2>8. Summary = <<>>
    BY <2>1 DEF Summary
  <2> QED
    BY <2>7, <2>8 DEF Control!Evaluate
<1>3. ASSUME NEW p \in Reviewers, NEW r \in Reviews, NEW closes, Review(p, r, closes)
      PROVE  Control!Review
  <2> DEFINE d == Decision(p, r, closes)
  <2>1. Decide(d) /\ Answered
    BY <1>3 DEF Review, Decide, IInv, Waiting
  <2>2. GoodEntry(context, machine, decisions, d) /\ d.kind = "review"
    BY <1>3, <2>1, ReviewIsGood DEF Decision
  <2> HIDE DEF d
  <2>3. Answered' /\ context' = context /\ decisions' = Append(decisions, d)
    BY <2>1, <2>2, DecideKeeps DEF Decide
  <2>4. HasReview(decisions') = TRUE /\ BySpecialist(decisions') = FALSE
    BY <2>1, <2>2, <2>3, AppendedSays, AnsweredHead DEF GoodEntry, HasReview, BySpecialist
  <2>5. Control!Assemble(TRUE, FALSE)
    BY <2>3, <2>4, SummaryAssembled
  <2>6. Summary # <<>>
    BY <2>1 DEF Relied
  <2> QED
    BY <2>5, <2>6 DEF Control!Review
<1>4. ASSUME NEW p \in Specialists, Specialist(p)
      PROVE  Control!Specialist
  <2> DEFINE d == [kind |-> "specialist", by |-> p]
  <2>1. Decide(d) /\ Answered
    BY <1>4 DEF Specialist, Decide, IInv, Waiting
  <2>2. GoodEntry(context, machine, decisions, d) /\ d.kind = "specialist"
    BY SpecialistIsGood
  <2> HIDE DEF d
  <2>3. Answered' /\ context' = context /\ decisions' = Append(decisions, d)
    BY <2>1, <2>2, DecideKeeps DEF Decide
  <2>4. HasReview(decisions') = HasReview(decisions) /\ BySpecialist(decisions') = TRUE
    BY <2>1, <2>2, <2>3, AppendedSays, AnsweredHead DEF GoodEntry, HasReview, BySpecialist
  <2>5. Control!Assemble(HasReview(decisions), TRUE)
    BY <2>3, <2>4, SummaryAssembled
  <2>6. Summary # <<>> /\ Summary.reviewed = HasReview(decisions)
    BY <2>1 DEF Relied
  <2> QED
    BY <2>5, <2>6 DEF Control!Specialist
<1> QED
  BY <1>1, <1>2, <1>3, <1>4 DEF Next, Control!Next

\* For every plan, every result of the machine and every course of decisions the
\* head snapshot is what Readiness lets the release control rely on: never ready
\* by the machine alone, and readiness lost with whatever it stood on
\* (service.py 236-491).
THEOREM SnapshotImplementsReadiness == Spec => ImplementsReadiness
<1>1. Init => Control!Init
  BY DEF Init, Control!Init, Summary, Governed
<1>2. IInv /\ Relied /\ Relied' /\ [Next]_vars =>
        [Control!Next]_<<Governed(context), context.specialist \/ context.tier = "High", Summary>>
  <2>1. CASE Next
    BY <2>1, StepRelies
  <2>2. CASE UNCHANGED vars
    BY <2>2 DEF vars, Governed, Summary
  <2> QED
    BY <2>1, <2>2
<1>3. Relied
  BY AllRelied
<1> QED
  BY <1>1, <1>2, <1>3, AlwaysIInv, PTL DEF Spec, ImplementsReadiness, Control!Spec, Control!vars
===============================================================================
