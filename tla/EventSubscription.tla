-------------------------- MODULE EventSubscription --------------------------
(***************************************************************************)
(* What a dashboard client that connects to the events is promised, with   *)
(* no rings, no bus, no watermark and no refill: envelopes are published   *)
(* one after another, some are given up, and a client that joined is       *)
(* delivered every other one published since, in order and once.  It may   *)
(* be delivered earlier ones too, before them.                             *)
(***************************************************************************)
EXTENDS Naturals, Sequences

VARIABLES
    published,  \* envelopes published so far; they are numbered from 1
    joined,     \* the first envelope the client is to have, 0 when there is none
    sent,       \* what it was delivered, in order
    gone        \* envelopes it may never be delivered

Init == published = 0 /\ joined = 0 /\ sent = <<>> /\ gone = {}

\* envelopes are given up; what is given up stays so while the client is there
GiveUp == gone \subseteq gone' /\ gone' \subseteq 1 .. published'

Publish ==
    /\ published' = published + 1
    /\ GiveUp
    /\ UNCHANGED <<joined, sent>>

Lose ==
    /\ GiveUp
    /\ UNCHANGED <<published, joined, sent>>

Join ==
    /\ joined = 0
    /\ joined' = published + 1 /\ gone' = {}
    /\ UNCHANGED <<published, sent>>

\* the next one: later than all it has, with nothing in between but what is
\* given up
Deliver ==
    /\ joined > 0
    /\ \E n \in 1 .. published :
         /\ \A i \in DOMAIN sent : sent[i] < n
         /\ \A m \in joined .. n - 1 : m \in gone \/ \E i \in DOMAIN sent : sent[i] = m
         /\ sent' = Append(sent, n)
    /\ UNCHANGED <<published, joined, gone>>

Leave ==
    /\ joined > 0
    /\ joined' = 0 /\ sent' = <<>> /\ gone' = {}
    /\ UNCHANGED published

Next == Publish \/ Lose \/ Join \/ Deliver \/ Leave

Spec == Init /\ [][Next]_<<published, joined, sent, gone>>
===============================================================================
