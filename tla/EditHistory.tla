------------------------------ MODULE EditHistory ------------------------------
(* What intake promises the people who edit, whatever the network does to    *)
(* their requests: one history per asset in which every edit stands at most  *)
(* once, directly on the version its author had in hand, and in which an     *)
(* edit that was refused never turns up later.                               *)
(* An edit is what an author asked for under an idempotency key; base 0 with *)
(* asset 0 asks for a new asset.                                             *)
EXTENDS Naturals, Sequences

CONSTANT Edits      \* records with the fields actor, key, asset, base, content

VARIABLES
  asked,     \* the edits somebody has asked for
  history,   \* the edits that took effect, in order, each with the asset it went to
  refused    \* the edits whose author has been told no

vars == <<asked, history, refused>>

Entries(a) == {i \in DOMAIN history : history[i].asset = a}
Assets == {history[i].asset : i \in DOMAIN history}
Taken(e) == \E i \in DOMAIN history : history[i].edit = e
KeyUsed(e) ==
  \E i \in DOMAIN history : /\ history[i].edit.actor = e.actor
                            /\ history[i].edit.key = e.key

Init == asked = {} /\ history = <<>> /\ refused = {}

Ask(e) == asked' = asked \cup {e} /\ UNCHANGED <<history, refused>>

\* An edit takes effect on the newest entry of its asset or not at all.
TakeEffect(e, a) ==
  /\ e \in asked \ refused
  /\ ~KeyUsed(e)
  /\ \/ /\ e.asset = 0
        /\ a \notin Assets
     \/ /\ e.asset = a
        /\ e.base \in Entries(a)
        /\ \A i \in Entries(a) : i <= e.base
  /\ history' = Append(history, [edit |-> e, asset |-> a])
  /\ UNCHANGED <<asked, refused>>

Refuse(e) ==
  /\ e \in asked
  /\ ~Taken(e)
  /\ refused' = refused \cup {e}
  /\ UNCHANGED <<asked, history>>

Next ==
  \E e \in Edits :
    \/ Ask(e)
    \/ \E a \in 1 .. Len(history) + 1 : TakeEffect(e, a)
    \/ Refuse(e)

Spec == Init /\ [][Next]_vars
===============================================================================
