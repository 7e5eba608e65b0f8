---------------------------- MODULE ApprovalsProofs ----------------------------
(***************************************************************************)
(* Theorems about Approvals for every number of calls and requests, every  *)
(* rule set and every way URLs are spelled, about DashboardAccess for      *)
(* every number of processes, ports and tabs, and about PolicyInputs for   *)
(* every policy file, pattern and text.                                    *)
(***************************************************************************)
EXTENDS Approvals, DashboardAccess, PolicyInputs, SequenceTheorems,
        WellFoundedInduction, TLAPS

(* A request id is held by at most one call, and was minted for it.        *)
IdsInv ==
    /\ \A c \in Calls : job[c].id < counter
    /\ \A c, d \in Calls : job[c].id = job[d].id /\ job[c].id # 0 => c = d
    /\ \A c \in Calls : job[c].at \in Asking => job[c].id # 0

(* A parked sender was not used, and its call still waits for it.          *)
SlotInv ==
    /\ \A r \in pending : channel[r] = "empty"
    /\ NoLeakedSlot

(* An id that was not minted has left no trace.                            *)
FreshInv ==
    \A r \in Requests : r >= counter =>
        channel[r] = "empty" /\ events[r] = <<>> /\ trail[r] = <<>>

(* What a call that still asks has written so far.                         *)
RecordOf(j) ==
    /\ j.at \in Asking => trail[j.id] = <<>>
    /\ j.at = "opened" => events[j.id] = <<>>
    /\ j.at \in {"parked", "expired", "reread", "resolve"}
          => events[j.id] = <<"requested">>
    /\ j.at = "record"
          => events[j.id] = <<"requested", IF j.outcome = "granted"
                                           THEN "granted" ELSE "refused">>

RecordInv == \A c \in Calls : RecordOf(job[c])

(* What a request that is over has written.                                *)
Settled(r) ==
    /\ Len(trail[r]) = 1
    /\ events[r] = <<"requested",
          IF trail[r] = <<"granted">> THEN "granted" ELSE "refused">>

\* The file holds no line of a request whose outcome is not recorded.
KeptInv == \A r \in kept : r \in Requests => trail[r] # <<>>

SettledInv == \A r \in Requests : r < counter /\ ~Unsettled(r) => Settled(r)

UrlStands(j) == IF j.effect.kind = "navigation"
                THEN j.judged = Canon[j.effect.target]
                ELSE j.judged = j.seen

(* How far a call has come towards its grant; only a grant leads to a run. *)
GrantOf(j) ==
    /\ j.at \in Asking /\ j.effect.kind = "navigation"
          => j.judged = Canon[j.effect.target]
    /\ j.at \in {"opened", "parked", "expired"} => j.outcome = "none" /\ j.next = "done"
    /\ j.at = "reread"
          => /\ j.outcome = "granted" /\ j.next = "done"
             /\ channel[j.id] = "grant" /\ j.effect.kind # "navigation"
    /\ j.at \in {"resolve", "record"} /\ j.next = "run"
          => j.outcome = "granted" /\ channel[j.id] = "grant" /\ UrlStands(j)
    /\ j.at \in {"run", "ran"} =>
          \/ /\ j.id = 0 /\ j.judged # NoUrl
             /\ Judge(j.effect.kind, j.judged) = "allow"
          \/ /\ j.id # 0 /\ channel[j.id] = "grant"
             /\ trail[j.id] = <<"granted">> /\ UrlStands(j)

GrantInv == \A c \in Calls : GrantOf(job[c])

IInv == /\ TypeOK /\ IdsInv /\ SlotInv
        /\ FreshInv /\ RecordInv /\ SettledInv /\ GrantInv
-------------------------------------------------------------------------------
\* Sequences of length two with the same elements are the same.
LEMMA TwoEqual ==
    ASSUME NEW S, NEW s \in Seq(S), NEW t \in Seq(S), Len(s) = 2, Len(t) = 2,
           s[1] = t[1], s[2] = t[2]
    PROVE  s = t
<1>1. \A i \in 1 .. Len(s) : s[i] = t[i]
  OBVIOUS
<1>. QED
  BY <1>1, SeqEqual

\* Appending to a sequence of one.
LEMMA AppendSecond == \A x, y : Append(<<x>>, y) = <<x, y>> /\ Len(<<x, y>>) = 2
<1>. SUFFICES ASSUME NEW x, NEW y
              PROVE Append(<<x>>, y) = <<x, y>> /\ Len(<<x, y>>) = 2
  OBVIOUS
<1>1. <<x>> \in Seq({x, y}) /\ y \in {x, y} /\ Len(<<x>>) = 1 /\ <<x>>[1] = x
  OBVIOUS
<1>2. /\ Append(<<x>>, y) \in Seq({x, y}) /\ Len(Append(<<x>>, y)) = 2
      /\ Append(<<x>>, y)[1] = x /\ Append(<<x>>, y)[2] = y
  BY <1>1, AppendProperties
<1>3. /\ <<x, y>> \in Seq({x, y}) /\ Len(<<x, y>>) = 2
      /\ <<x, y>>[1] = x /\ <<x, y>>[2] = y
  OBVIOUS
<1>. QED
  BY <1>2, <1>3, TwoEqual

\* Appending to the empty sequence.
LEMMA AppendFirst == \A x : Append(<<>>, x) = <<x>> /\ Len(<<x>>) = 1
  OBVIOUS

\* A call holds no request or one within the bound.
LEMMA HeldIds == 0 \in Held /\ \A n \in Nat : n <= MaxRequests => n \in Held
  BY BoundAssumption DEF Held

\* Canonicalisation answers a URL or none.
LEMMA CanonType == \A r \in Raw \cup {NoUrl} : Canon[r] \in Urls \cup {NoUrl}
  BY RuleAssumption DEF Urls

\* The typed components of a call.
LEMMA JobType == ASSUME TypeOK, NEW c \in Calls PROVE job[c] \in JobSet
  BY DEF TypeOK

\* The id a call holds is none or a minted one.
LEMMA JobIds == ASSUME TypeOK, NEW c \in Calls
                PROVE  job[c].id \in Nat /\ (job[c].id # 0 => job[c].id \in Requests)
  BY JobType, BoundAssumption DEF JobSet, Held, Requests

\* The counter is a number and so are the requests.
LEMMA CounterType == TypeOK => counter \in Nat /\ Requests \subseteq Nat
  BY BoundAssumption DEF TypeOK, Requests

\* Replacing one call by a typed one keeps all calls typed.
LEMMA PutType == ASSUME TypeOK, NEW c \in Calls, NEW j \in JobSet, Put(c, j)
                 PROVE job' \in [Calls -> JobSet]
  BY DEF TypeOK, Put

\* The URL an effect is judged by is canonical or missing.
LEMMA JudgedType == ASSUME NEW j \in JobSet
                    PROVE JudgedUrl(j.effect, j.raw) \in Urls \cup {NoUrl}
  BY CanonType DEF JobSet, JudgedUrl, Effects

\* Every step keeps the types.
LEMMA NextType == TypeOK /\ [Next]_vars => TypeOK'
<1>. SUFFICES ASSUME TypeOK, [Next]_vars PROVE TypeOK'
  OBVIOUS
<1>1. ASSUME NEW c \in Calls, NEW e \in Effects, Begin(c, e) PROVE TypeOK'
  <2>1. page \in Raw /\ job[c] \in JobSet
    BY JobType DEF TypeOK
  <2>2. PICK u \in Raw \cup {NoUrl} :
            Put(c, [job[c] EXCEPT !.at = "review", !.effect = e, !.raw = u])
    BY <1>1, <2>1 DEF Begin, Readable, Effects
  <2>3. [job[c] EXCEPT !.at = "review", !.effect = e, !.raw = u] \in JobSet
    BY <2>1, <2>2 DEF JobSet
  <2>4. job' \in [Calls -> JobSet]
    BY <2>2, <2>3, PutType
  <2>. QED
    BY <1>1, <2>4 DEF TypeOK, Begin
<1>2. ASSUME NEW c \in Calls, Allowed(c) PROVE TypeOK'
  <2>1. PICK j \in JobSet : Put(c, j)
    BY <1>2, JobType, JudgedType, HeldIds DEF JobSet, Allowed
  <2>2. job' \in [Calls -> JobSet]
    BY <2>1, PutType
  <2>. QED
    BY <1>2, <2>2 DEF TypeOK, Allowed
<1>3. ASSUME NEW c \in Calls, Denied(c) PROVE TypeOK'
  <2>1. PICK j \in JobSet : Put(c, j)
    BY <1>3, JobType, JudgedType, HeldIds DEF JobSet, Denied
  <2>2. job' \in [Calls -> JobSet]
    BY <2>1, PutType
  <2>. QED
    BY <1>3, <2>2 DEF TypeOK, Denied
<1>4. ASSUME NEW c \in Calls, Open(c) PROVE TypeOK'
  <2>1. counter \in Held /\ counter + 1 \in 1 .. MaxRequests + 1 /\ counter \in Requests
    BY <1>4, HeldIds, BoundAssumption DEF TypeOK, Open, Requests
  <2>2. [job[c] EXCEPT !.at = "opened", !.id = counter, !.outcome = "none",
                       !.next = "done",
                       !.judged = JudgedUrl(job[c].effect, job[c].raw)] \in JobSet
    BY <2>1, JobType, JudgedType DEF JobSet, Outcomes
  <2>3. job' \in [Calls -> JobSet]
    BY <1>4, <2>2, PutType DEF Open
  <2>. QED
    BY <1>4, <2>1, <2>3 DEF TypeOK, Open
<1>5. ASSUME NEW c \in Calls, Ask(c) PROVE TypeOK'
  <2>1. PICK j \in JobSet : Put(c, j)
    BY <1>5, JobType, JudgedType, HeldIds DEF JobSet, Ask
  <2>2. job' \in [Calls -> JobSet]
    BY <2>1, PutType
  <2>3. events' \in [Requests -> Seq({"requested", "granted", "refused"})]
    <3>1. "requested" \in {"requested", "granted", "refused"}
      BY <1>5, JobType DEF JobSet, Outcomes
    <3>2. \A r \in Requests : Append(events[r], "requested") \in Seq({"requested", "granted", "refused"})
      BY <3>1 DEF TypeOK
    <3>. QED
      BY <1>5, <3>2 DEF TypeOK, Ask
  <2>. QED
    BY <1>5, <2>2, <2>3 DEF TypeOK, Ask
<1>6. ASSUME NEW c \in Calls, Answered(c) PROVE TypeOK'
  <2>1. PICK j \in JobSet : Put(c, j)
    BY <1>6, JobType, JudgedType, HeldIds DEF JobSet, Answered, Outcomes
  <2>2. job' \in [Calls -> JobSet]
    BY <2>1, PutType
  <2>. QED
    BY <1>6, <2>2 DEF TypeOK, Answered
<1>7. ASSUME NEW c \in Calls, Elapse(c) PROVE TypeOK'
  <2>1. PICK j \in JobSet : Put(c, j)
    BY <1>7, JobType, JudgedType, HeldIds DEF JobSet, Elapse
  <2>2. job' \in [Calls -> JobSet]
    BY <2>1, PutType
  <2>. QED
    BY <1>7, <2>2 DEF TypeOK, Elapse
<1>8. ASSUME NEW c \in Calls, Reclaim(c) PROVE TypeOK'
  <2>1. PICK j \in JobSet : Put(c, j)
    BY <1>8, JobType, JudgedType, HeldIds DEF JobSet, Reclaim, Outcomes
  <2>2. job' \in [Calls -> JobSet]
    BY <2>1, PutType
  <2>. QED
    BY <1>8, <2>2 DEF TypeOK, Reclaim
<1>9. ASSUME NEW c \in Calls, Reread(c) PROVE TypeOK'
  <2>1. PICK j \in JobSet : Put(c, j)
    BY <1>9, JobType, CanonType, HeldIds DEF JobSet, Reread, Readable, TypeOK
  <2>2. job' \in [Calls -> JobSet]
    BY <2>1, PutType
  <2>. QED
    BY <1>9, <2>2 DEF TypeOK, Reread
<1>10. ASSUME NEW c \in Calls, Cancel(c) PROVE TypeOK'
  <2>1. PICK j \in JobSet : Put(c, j)
    BY <1>10, JobType, JudgedType, HeldIds DEF JobSet, Cancel
  <2>2. job' \in [Calls -> JobSet]
    BY <2>1, PutType
  <2>. QED
    BY <1>10, <2>2 DEF TypeOK, Cancel
<1>11. ASSUME NEW c \in Calls, Resolve(c) PROVE TypeOK'
  <2>1. PICK j \in JobSet : Put(c, j)
    BY <1>11, JobType, JudgedType, HeldIds DEF JobSet, Resolve
  <2>2. job' \in [Calls -> JobSet]
    BY <2>1, PutType
  <2>3. events' \in [Requests -> Seq({"requested", "granted", "refused"})]
    <3>1. (IF job[c].outcome = "granted" THEN "granted" ELSE "refused") \in {"requested", "granted", "refused"}
      BY <1>11, JobType DEF JobSet, Outcomes
    <3>2. \A r \in Requests : Append(events[r], (IF job[c].outcome = "granted" THEN "granted" ELSE "refused")) \in Seq({"requested", "granted", "refused"})
      BY <3>1 DEF TypeOK
    <3>. QED
      BY <1>11, <3>2 DEF TypeOK, Resolve
  <2>. QED
    BY <1>11, <2>2, <2>3 DEF TypeOK, Resolve
<1>12. ASSUME NEW c \in Calls, Record(c) PROVE TypeOK'
  <2>1. PICK j \in JobSet : Put(c, j)
    BY <1>12, JobType, JudgedType, HeldIds DEF JobSet, Record
  <2>2. job' \in [Calls -> JobSet]
    BY <2>1, PutType
  <2>3. trail' \in [Requests -> Seq({"granted", "denied", "timed_out", "cancelled"})]
    <3>1. (IF job[c].outcome = "none" THEN "cancelled" ELSE job[c].outcome) \in {"granted", "denied", "timed_out", "cancelled"}
      BY <1>12, JobType DEF JobSet, Outcomes
    <3>2. \A r \in Requests : Append(trail[r], (IF job[c].outcome = "none" THEN "cancelled" ELSE job[c].outcome)) \in Seq({"granted", "denied", "timed_out", "cancelled"})
      BY <3>1 DEF TypeOK
    <3>. QED
      BY <1>12, <3>2 DEF TypeOK, Record
  <2>4. kept' \subseteq Held
    BY <1>12, JobType DEF TypeOK, Record, JobSet
  <2>. QED
    BY <1>12, <2>2, <2>3, <2>4 DEF TypeOK, Record
<1>13. ASSUME NEW c \in Calls, Run(c) PROVE TypeOK'
  <2>1. PICK j \in JobSet : Put(c, j)
    BY <1>13, JobType, CanonType, HeldIds DEF JobSet, Run, TypeOK
  <2>2. job' \in [Calls -> JobSet]
    BY <2>1, PutType
  <2>. QED
    BY <1>13, <2>2, JobType DEF TypeOK, Run, JobSet, Effects
<1>14. ASSUME NEW r \in Requests, NEW d \in Decisions, Decide(r, d) PROVE TypeOK'
  BY <1>14 DEF TypeOK, Decide, Requests
<1>15. CASE Move
  BY <1>15, BoundAssumption DEF TypeOK, Move
<1>16. CASE UNCHANGED vars
  BY <1>16 DEF TypeOK, vars
<1>. QED
  BY <1>1, <1>2, <1>3, <1>4, <1>5, <1>6, <1>7, <1>8, <1>9,
     <1>10, <1>11, <1>12, <1>13, <1>14, <1>15, <1>16
     DEF Next, CallStep

-------------------------------------------------------------------------------
(* Each step keeps the inductive invariant. *)

\* Beginning an operation touches no request.
LEMMA BeginKeeps == ASSUME IInv, NEW c \in Calls, NEW e \in Effects, Begin(c, e) PROVE IInv'
<1>1. TypeOK /\ TypeOK'
  BY NextType DEF IInv, Next, CallStep
<1>2. IdsInv /\ SlotInv /\ FreshInv /\ RecordInv /\ SettledInv /\ GrantInv
  BY DEF IInv
<1>3. /\ job[c].at = "idle"
      /\ \A b \in Calls : b # c => job'[b] = job[b]
      /\ job'[c].at = "review" /\ job'[c].id = job[c].id
  BY <1>1, JobType DEF JobSet, Begin, Put, TypeOK, At
<1>4. /\ counter' = counter /\ pending' = pending /\ channel' = channel
      /\ events' = events /\ trail' = trail
  BY <1>1 DEF Begin
<1>5. counter \in Nat /\ \A b \in Calls : job[b].id \in Nat
                                       /\ (job[b].id # 0 => job[b].id \in Requests)
  BY <1>1, JobIds, CounterType
<1>6. IdsInv'
  BY <1>2, <1>3, <1>4, <1>5 DEF IdsInv, Asking
<1>7. SlotInv'
  BY <1>2, <1>3, <1>4, <1>5 DEF IdsInv, SlotInv, NoLeakedSlot
<1>8. FreshInv'
  BY <1>2, <1>4 DEF FreshInv
<1>9. RecordInv'
  <2>. SUFFICES ASSUME NEW b \in Calls PROVE RecordOf(job[b])'
    BY DEF RecordInv
  <2>1. CASE b # c
    BY <1>2, <1>3, <1>4, <1>5, <2>1 DEF RecordInv, RecordOf, IdsInv, Asking
  <2>2. CASE b = c
    BY <1>2, <1>3, <1>4, <1>5, <2>2 DEF RecordInv, RecordOf, IdsInv, Asking
  <2>. QED
    BY <2>1, <2>2
<1>10. SettledInv'
  <2>. SUFFICES ASSUME NEW r \in Requests, r < counter', ~Unsettled(r)'
                PROVE Settled(r)'
    BY DEF SettledInv
  <2>1. r < counter /\ ~Unsettled(r)
    BY <1>2, <1>3, <1>4, <1>5 DEF Unsettled, Asking, IdsInv
  <2>. QED
    BY <1>2, <1>4, <2>1 DEF SettledInv, Settled
<1>11. GrantInv'
  <2>. SUFFICES ASSUME NEW b \in Calls PROVE GrantOf(job[b])'
    BY DEF GrantInv
  <2>1. CASE b # c
    BY <1>2, <1>3, <1>4, <1>5, <2>1 DEF GrantInv, GrantOf, IdsInv, Asking, UrlStands
  <2>2. CASE b = c
    BY <1>2, <1>3, <1>4, <1>5, <2>2 DEF GrantInv, GrantOf, IdsInv, Asking, UrlStands
  <2>. QED
    BY <2>1, <2>2
<1>. QED
  BY <1>1, <1>6, <1>7, <1>8, <1>9, <1>10, <1>11 DEF IInv

\* A review that allows runs without a request, by the rules alone.
LEMMA AllowedKeeps == ASSUME IInv, NEW c \in Calls, Allowed(c) PROVE IInv'
<1>1. TypeOK /\ TypeOK'
  BY NextType DEF IInv, Next, CallStep
<1>2. IdsInv /\ SlotInv /\ FreshInv /\ RecordInv /\ SettledInv /\ GrantInv
  BY DEF IInv
<1>3. /\ job[c].at = "review" /\ Review(job[c].effect, job[c].raw) = "allow"
      /\ \A b \in Calls : b # c => job'[b] = job[b]
      /\ job'[c].at = "run" /\ job'[c].effect = job[c].effect
      /\ job'[c].judged = JudgedUrl(job[c].effect, job[c].raw)
      /\ job'[c].id = 0 /\ job'[c].outcome = job[c].outcome
      /\ job'[c].next = job[c].next /\ job'[c].seen = job[c].seen
  BY <1>1, JobType DEF JobSet, Allowed, Put, TypeOK, At
<1>4. /\ counter' = counter /\ pending' = pending /\ channel' = channel
      /\ events' = events /\ trail' = trail
  BY <1>1 DEF Allowed
<1>5. counter \in Nat /\ \A b \in Calls : job[b].id \in Nat
                                       /\ (job[b].id # 0 => job[b].id \in Requests)
  BY <1>1, JobIds, CounterType
<1>6. IdsInv'
  BY <1>2, <1>3, <1>4, <1>5 DEF IdsInv, Asking
<1>7. SlotInv'
  BY <1>2, <1>3, <1>4, <1>5 DEF IdsInv, SlotInv, NoLeakedSlot
<1>8. FreshInv'
  BY <1>2, <1>4 DEF FreshInv
<1>9. RecordInv'
  <2>. SUFFICES ASSUME NEW b \in Calls PROVE RecordOf(job[b])'
    BY DEF RecordInv
  <2>1. CASE b # c
    BY <1>2, <1>3, <1>4, <1>5, <2>1 DEF RecordInv, RecordOf, IdsInv, Asking
  <2>2. CASE b = c
    BY <1>2, <1>3, <1>4, <1>5, <2>2 DEF RecordInv, RecordOf, IdsInv, Asking
  <2>. QED
    BY <2>1, <2>2
<1>10. SettledInv'
  <2>. SUFFICES ASSUME NEW r \in Requests, r < counter', ~Unsettled(r)'
                PROVE Settled(r)'
    BY DEF SettledInv
  <2>1. r < counter /\ ~Unsettled(r)
    BY <1>2, <1>3, <1>4, <1>5 DEF Unsettled, Asking, IdsInv
  <2>. QED
    BY <1>2, <1>4, <2>1 DEF SettledInv, Settled
<1>11. GrantInv'
  <2>. SUFFICES ASSUME NEW b \in Calls PROVE GrantOf(job[b])'
    BY DEF GrantInv
  <2>1. CASE b # c
    BY <1>2, <1>3, <1>4, <1>5, <2>1 DEF GrantInv, GrantOf, IdsInv, Asking, UrlStands
  <2>2. CASE b = c
    BY <1>2, <1>3, <1>4, <1>5, <2>2 DEF GrantInv, GrantOf, IdsInv, Asking, UrlStands, Review, JudgedUrl
  <2>. QED
    BY <2>1, <2>2
<1>. QED
  BY <1>1, <1>6, <1>7, <1>8, <1>9, <1>10, <1>11 DEF IInv

\* A denied operation ends without a request.
LEMMA DeniedKeeps == ASSUME IInv, NEW c \in Calls, Denied(c) PROVE IInv'
<1>1. TypeOK /\ TypeOK'
  BY NextType DEF IInv, Next, CallStep
<1>2. IdsInv /\ SlotInv /\ FreshInv /\ RecordInv /\ SettledInv /\ GrantInv
  BY DEF IInv
<1>3. /\ job[c].at = "review"
      /\ \A b \in Calls : b # c => job'[b] = job[b]
      /\ job'[c].at = "done" /\ job'[c].effect = job[c].effect
      /\ job'[c].judged = job[c].judged /\ job'[c].id = 0
      /\ job'[c].outcome = job[c].outcome /\ job'[c].next = job[c].next
      /\ job'[c].seen = job[c].seen
  BY <1>1, JobType DEF JobSet, Denied, Put, TypeOK, At
<1>4. /\ counter' = counter /\ pending' = pending /\ channel' = channel
      /\ events' = events /\ trail' = trail
  BY <1>1 DEF Denied
<1>5. counter \in Nat /\ \A b \in Calls : job[b].id \in Nat
                                       /\ (job[b].id # 0 => job[b].id \in Requests)
  BY <1>1, JobIds, CounterType
<1>6. IdsInv'
  BY <1>2, <1>3, <1>4, <1>5 DEF IdsInv, Asking
<1>7. SlotInv'
  BY <1>2, <1>3, <1>4, <1>5 DEF IdsInv, SlotInv, NoLeakedSlot
<1>8. FreshInv'
  BY <1>2, <1>4 DEF FreshInv
<1>9. RecordInv'
  <2>. SUFFICES ASSUME NEW b \in Calls PROVE RecordOf(job[b])'
    BY DEF RecordInv
  <2>1. CASE b # c
    BY <1>2, <1>3, <1>4, <1>5, <2>1 DEF RecordInv, RecordOf, IdsInv, Asking
  <2>2. CASE b = c
    BY <1>2, <1>3, <1>4, <1>5, <2>2 DEF RecordInv, RecordOf, IdsInv, Asking
  <2>. QED
    BY <2>1, <2>2
<1>10. SettledInv'
  <2>. SUFFICES ASSUME NEW r \in Requests, r < counter', ~Unsettled(r)'
                PROVE Settled(r)'
    BY DEF SettledInv
  <2>1. r < counter /\ ~Unsettled(r)
    BY <1>2, <1>3, <1>4, <1>5 DEF Unsettled, Asking, IdsInv
  <2>. QED
    BY <1>2, <1>4, <2>1 DEF SettledInv, Settled
<1>11. GrantInv'
  <2>. SUFFICES ASSUME NEW b \in Calls PROVE GrantOf(job[b])'
    BY DEF GrantInv
  <2>1. CASE b # c
    BY <1>2, <1>3, <1>4, <1>5, <2>1 DEF GrantInv, GrantOf, IdsInv, Asking, UrlStands
  <2>2. CASE b = c
    BY <1>2, <1>3, <1>4, <1>5, <2>2 DEF GrantInv, GrantOf, IdsInv, Asking, UrlStands
  <2>. QED
    BY <2>1, <2>2
<1>. QED
  BY <1>1, <1>6, <1>7, <1>8, <1>9, <1>10, <1>11 DEF IInv

\* Opening mints an id nobody holds and parks its sender.
LEMMA OpenKeeps == ASSUME IInv, NEW c \in Calls, Open(c) PROVE IInv'
<1>1. TypeOK /\ TypeOK'
  BY NextType DEF IInv, Next, CallStep
<1>2. IdsInv /\ SlotInv /\ FreshInv /\ RecordInv /\ SettledInv /\ GrantInv
  BY DEF IInv
<1>3. /\ job[c].at = "review" /\ Review(job[c].effect, job[c].raw) = "require_approval"
      /\ \A b \in Calls : b # c => job'[b] = job[b]
      /\ job'[c].at = "opened" /\ job'[c].effect = job[c].effect
      /\ job'[c].judged = JudgedUrl(job[c].effect, job[c].raw)
      /\ job'[c].id = counter /\ job'[c].outcome = "none"
      /\ job'[c].next = "done" /\ job'[c].seen = job[c].seen
  BY <1>1, JobType DEF JobSet, Open, Put, TypeOK, At
<1>4. /\ counter' = counter + 1 /\ pending' = pending \cup {counter} /\ channel' = channel
      /\ counter \in Requests
      /\ events' = events /\ trail' = trail
  BY <1>1, BoundAssumption DEF Open, TypeOK, Requests
<1>5. counter \in Nat /\ \A b \in Calls : job[b].id \in Nat
                                       /\ (job[b].id # 0 => job[b].id \in Requests)
  BY <1>1, JobIds, CounterType
<1>6. IdsInv'
  BY <1>2, <1>3, <1>4, <1>5 DEF IdsInv, Asking
<1>7. SlotInv'
  BY <1>2, <1>3, <1>4, <1>5 DEF IdsInv, SlotInv, NoLeakedSlot, FreshInv
<1>8. FreshInv'
  BY <1>2, <1>3, <1>4, <1>5 DEF IdsInv, FreshInv, Asking
<1>9. RecordInv'
  <2>. SUFFICES ASSUME NEW b \in Calls PROVE RecordOf(job[b])'
    BY DEF RecordInv
  <2>1. CASE b # c
    BY <1>2, <1>3, <1>4, <1>5, <2>1 DEF RecordInv, RecordOf, IdsInv, Asking
  <2>2. CASE b = c
    BY <1>2, <1>3, <1>4, <1>5, <2>2 DEF RecordInv, RecordOf, IdsInv, Asking, FreshInv
  <2>. QED
    BY <2>1, <2>2
<1>10. SettledInv'
  <2>. SUFFICES ASSUME NEW r \in Requests, r < counter', ~Unsettled(r)'
                PROVE Settled(r)'
    BY DEF SettledInv
  <2>1. \A b \in Calls : ~(job'[b].id = r /\ job'[b].at \in Asking)
    BY DEF Unsettled
  <2>2. r # counter
    BY <1>3, <2>1 DEF Asking
  <2>3. r < counter
    BY <1>4, <1>5, <2>2 DEF Requests
  <2>4. ~Unsettled(r)
    <3>. SUFFICES ASSUME NEW b \in Calls, job[b].id = r, job[b].at \in Asking PROVE FALSE
      BY DEF Unsettled
    <3>1. b # c
      BY <1>3 DEF Asking
    <3>. QED
      BY <1>3, <2>1, <3>1
  <2>. QED
    BY <1>2, <1>4, <2>3, <2>4 DEF SettledInv, Settled
<1>11. GrantInv'
  <2>. SUFFICES ASSUME NEW b \in Calls PROVE GrantOf(job[b])'
    BY DEF GrantInv
  <2>1. CASE b # c
    BY <1>2, <1>3, <1>4, <1>5, <2>1 DEF GrantInv, GrantOf, IdsInv, Asking, UrlStands
  <2>2. CASE b = c
    BY <1>2, <1>3, <1>4, <1>5, <2>2 DEF GrantInv, GrantOf, IdsInv, Asking, UrlStands, JudgedUrl
  <2>. QED
    BY <2>1, <2>2
<1>. QED
  BY <1>1, <1>6, <1>7, <1>8, <1>9, <1>10, <1>11 DEF IInv

\* Asking publishes the request once.
LEMMA AskKeeps == ASSUME IInv, NEW c \in Calls, Ask(c) PROVE IInv'
<1>1. TypeOK /\ TypeOK'
  BY NextType DEF IInv, Next, CallStep
<1>2. IdsInv /\ SlotInv /\ FreshInv /\ RecordInv /\ SettledInv /\ GrantInv
  BY DEF IInv
<1>3. /\ job[c].at = "opened"
      /\ \A b \in Calls : b # c => job'[b] = job[b]
      /\ job'[c].at = "parked" /\ job'[c].effect = job[c].effect
      /\ job'[c].judged = job[c].judged /\ job'[c].id = job[c].id
      /\ job'[c].outcome = job[c].outcome /\ job'[c].next = job[c].next
      /\ job'[c].seen = job[c].seen
  BY <1>1, JobType DEF JobSet, Ask, Put, TypeOK, At
<1>4. /\ counter' = counter /\ pending' = pending /\ channel' = channel
      /\ trail' = trail /\ (\A r \in Requests : r # job[c].id => events'[r] = events[r])
      /\ events'[job[c].id] = Append(events[job[c].id], "requested")
  BY <1>1, <1>2, <1>3, JobIds DEF Ask, TypeOK, IdsInv, Asking
<1>5. counter \in Nat /\ \A b \in Calls : job[b].id \in Nat
                                       /\ (job[b].id # 0 => job[b].id \in Requests)
  BY <1>1, JobIds, CounterType
<1>6. IdsInv'
  BY <1>2, <1>3, <1>4, <1>5 DEF IdsInv, Asking
<1>7. SlotInv'
  BY <1>2, <1>3, <1>4, <1>5 DEF IdsInv, SlotInv, NoLeakedSlot
<1>8. FreshInv'
  BY <1>2, <1>3, <1>4, <1>5 DEF IdsInv, FreshInv, Asking
<1>9. RecordInv'
  <2>. SUFFICES ASSUME NEW b \in Calls PROVE RecordOf(job[b])'
    BY DEF RecordInv
  <2>1. CASE b # c
    <3>1. RecordOf(job[b]) /\ job'[b] = job[b]
      BY <1>2, <1>3, <2>1 DEF RecordInv
    <3>2. job[b].id # 0 => /\ events'[job[b].id] = events[job[b].id]
                           /\ trail'[job[b].id] = trail[job[b].id]
      BY <1>2, <1>4, <1>5, <2>1 DEF IdsInv
    <3>3. job[b].at \in Asking => job[b].id # 0
      BY <1>2 DEF IdsInv
    <3>. QED
      BY <1>4, <3>1, <3>2, <3>3 DEF RecordOf, Asking
  <2>2. CASE b = c
    BY <1>2, <1>3, <1>4, <1>5, <2>2, AppendFirst DEF RecordInv, RecordOf, IdsInv, Asking
  <2>. QED
    BY <2>1, <2>2
<1>10. SettledInv'
  <2>. SUFFICES ASSUME NEW r \in Requests, r < counter', ~Unsettled(r)'
                PROVE Settled(r)'
    BY DEF SettledInv
  <2>1. r # job[c].id /\ r < counter /\ ~Unsettled(r)
    BY <1>2, <1>3, <1>4 DEF Unsettled, Asking
  <2>. QED
    BY <1>2, <1>4, <2>1 DEF SettledInv, Settled
<1>11. GrantInv'
  <2>. SUFFICES ASSUME NEW b \in Calls PROVE GrantOf(job[b])'
    BY DEF GrantInv
  <2>1. CASE b # c
    <3>1. GrantOf(job[b]) /\ job'[b] = job[b]
      BY <1>2, <1>3, <2>1 DEF GrantInv
    <3>2. job[b].id # 0 => /\ events'[job[b].id] = events[job[b].id]
                           /\ trail'[job[b].id] = trail[job[b].id]
      BY <1>2, <1>4, <1>5, <2>1 DEF IdsInv
    <3>3. job[b].at \in Asking => job[b].id # 0
      BY <1>2 DEF IdsInv
    <3>. QED
      BY <1>4, <3>1, <3>2, <3>3 DEF GrantOf, Asking, UrlStands
  <2>2. CASE b = c
    BY <1>2, <1>3, <1>4, <1>5, <2>2 DEF GrantInv, GrantOf, IdsInv, Asking, UrlStands
  <2>. QED
    BY <2>1, <2>2
<1>. QED
  BY <1>1, <1>6, <1>7, <1>8, <1>9, <1>10, <1>11 DEF IInv

\* An answer is taken from the channel, and only a grant leads on.
LEMMA AnsweredKeeps == ASSUME IInv, NEW c \in Calls, Answered(c) PROVE IInv'
<1>1. TypeOK /\ TypeOK'
  BY NextType DEF IInv, Next, CallStep
<1>2. IdsInv /\ SlotInv /\ FreshInv /\ RecordInv /\ SettledInv /\ GrantInv
  BY DEF IInv
<1>3. /\ job[c].at = "parked"
      /\ \A b \in Calls : b # c => job'[b] = job[b]
      /\ \/ /\ channel[job[c].id] = "deny"
            /\ job'[c].at = "resolve" /\ job'[c].effect = job[c].effect
            /\ job'[c].judged = job[c].judged /\ job'[c].id = job[c].id
            /\ job'[c].outcome = "denied" /\ job'[c].next = job[c].next
            /\ job'[c].seen = job[c].seen
         \/ /\ channel[job[c].id] = "grant" /\ job[c].effect.kind = "navigation"
            /\ job'[c].at = "resolve" /\ job'[c].effect = job[c].effect
            /\ job'[c].judged = job[c].judged /\ job'[c].id = job[c].id
            /\ job'[c].outcome = "granted" /\ job'[c].next = "run"
            /\ job'[c].seen = job[c].seen
         \/ /\ channel[job[c].id] = "grant" /\ job[c].effect.kind # "navigation"
            /\ job'[c].at = "reread" /\ job'[c].effect = job[c].effect
            /\ job'[c].judged = job[c].judged /\ job'[c].id = job[c].id
            /\ job'[c].outcome = "granted" /\ job'[c].next = job[c].next
            /\ job'[c].seen = job[c].seen
  <2>1. job[c] \in JobSet /\ channel[job[c].id] # "empty" /\ job[c].at = "parked"
    BY <1>1, JobType DEF Answered, At
  <2>2. channel[job[c].id] \in {"empty", "grant", "deny"}
    BY <1>1, <1>2, <2>1, JobIds DEF TypeOK, Decisions, IdsInv, Asking
  <2>3. CASE channel[job[c].id] = "deny"
    BY <1>1, <2>1, <2>3 DEF JobSet, Answered, Put, TypeOK
  <2>4. CASE channel[job[c].id] = "grant" /\ job[c].effect.kind = "navigation"
    BY <1>1, <2>1, <2>4 DEF JobSet, Answered, Put, TypeOK
  <2>5. CASE channel[job[c].id] = "grant" /\ job[c].effect.kind # "navigation"
    BY <1>1, <2>1, <2>5 DEF JobSet, Answered, Put, TypeOK
  <2>. QED
    BY <2>1, <2>2, <2>3, <2>4, <2>5
<1>4. /\ counter' = counter /\ pending' = pending \ {job[c].id} /\ channel' = channel
      /\ events' = events /\ trail' = trail
  BY <1>1 DEF Answered
<1>5. counter \in Nat /\ \A b \in Calls : job[b].id \in Nat
                                       /\ (job[b].id # 0 => job[b].id \in Requests)
  BY <1>1, JobIds, CounterType
<1>6. IdsInv'
  BY <1>2, <1>3, <1>4, <1>5 DEF IdsInv, Asking
<1>7. SlotInv'
  BY <1>2, <1>3, <1>4, <1>5 DEF IdsInv, SlotInv, NoLeakedSlot
<1>8. FreshInv'
  BY <1>2, <1>4 DEF FreshInv
<1>9. RecordInv'
  <2>. SUFFICES ASSUME NEW b \in Calls PROVE RecordOf(job[b])'
    BY DEF RecordInv
  <2>1. CASE b # c
    BY <1>2, <1>3, <1>4, <1>5, <2>1 DEF RecordInv, RecordOf, IdsInv, Asking
  <2>2. CASE b = c
    BY <1>2, <1>3, <1>4, <1>5, <2>2 DEF RecordInv, RecordOf, IdsInv, Asking
  <2>. QED
    BY <2>1, <2>2
<1>10. SettledInv'
  <2>. SUFFICES ASSUME NEW r \in Requests, r < counter', ~Unsettled(r)'
                PROVE Settled(r)'
    BY DEF SettledInv
  <2>1. r < counter /\ ~Unsettled(r)
    BY <1>2, <1>3, <1>4, <1>5 DEF Unsettled, Asking, IdsInv
  <2>. QED
    BY <1>2, <1>4, <2>1 DEF SettledInv, Settled
<1>11. GrantInv'
  <2>. SUFFICES ASSUME NEW b \in Calls PROVE GrantOf(job[b])'
    BY DEF GrantInv
  <2>1. CASE b # c
    BY <1>2, <1>3, <1>4, <1>5, <2>1 DEF GrantInv, GrantOf, IdsInv, Asking, UrlStands
  <2>2. CASE b = c
    BY <1>2, <1>3, <1>4, <1>5, <2>2 DEF GrantInv, GrantOf, IdsInv, Asking, UrlStands
  <2>. QED
    BY <2>1, <2>2
<1>. QED
  BY <1>1, <1>6, <1>7, <1>8, <1>9, <1>10, <1>11 DEF IInv

\* A timer that fires leaves the sender parked for a moment.
LEMMA ElapseKeeps == ASSUME IInv, NEW c \in Calls, Elapse(c) PROVE IInv'
<1>1. TypeOK /\ TypeOK'
  BY NextType DEF IInv, Next, CallStep
<1>2. IdsInv /\ SlotInv /\ FreshInv /\ RecordInv /\ SettledInv /\ GrantInv
  BY DEF IInv
<1>3. /\ job[c].at = "parked"
      /\ \A b \in Calls : b # c => job'[b] = job[b]
      /\ job'[c].at = "expired" /\ job'[c].effect = job[c].effect
      /\ job'[c].judged = job[c].judged /\ job'[c].id = job[c].id
      /\ job'[c].outcome = job[c].outcome /\ job'[c].next = job[c].next
      /\ job'[c].seen = job[c].seen
  BY <1>1, JobType DEF JobSet, Elapse, Put, TypeOK, At
<1>4. /\ counter' = counter /\ pending' = pending /\ channel' = channel
      /\ events' = events /\ trail' = trail
  BY <1>1 DEF Elapse
<1>5. counter \in Nat /\ \A b \in Calls : job[b].id \in Nat
                                       /\ (job[b].id # 0 => job[b].id \in Requests)
  BY <1>1, JobIds, CounterType
<1>6. IdsInv'
  BY <1>2, <1>3, <1>4, <1>5 DEF IdsInv, Asking
<1>7. SlotInv'
  BY <1>2, <1>3, <1>4, <1>5 DEF IdsInv, SlotInv, NoLeakedSlot
<1>8. FreshInv'
  BY <1>2, <1>4 DEF FreshInv
<1>9. RecordInv'
  <2>. SUFFICES ASSUME NEW b \in Calls PROVE RecordOf(job[b])'
    BY DEF RecordInv
  <2>1. CASE b # c
    BY <1>2, <1>3, <1>4, <1>5, <2>1 DEF RecordInv, RecordOf, IdsInv, Asking
  <2>2. CASE b = c
    BY <1>2, <1>3, <1>4, <1>5, <2>2 DEF RecordInv, RecordOf, IdsInv, Asking
  <2>. QED
    BY <2>1, <2>2
<1>10. SettledInv'
  <2>. SUFFICES ASSUME NEW r \in Requests, r < counter', ~Unsettled(r)'
                PROVE Settled(r)'
    BY DEF SettledInv
  <2>1. r < counter /\ ~Unsettled(r)
    BY <1>2, <1>3, <1>4, <1>5 DEF Unsettled, Asking, IdsInv
  <2>. QED
    BY <1>2, <1>4, <2>1 DEF SettledInv, Settled
<1>11. GrantInv'
  <2>. SUFFICES ASSUME NEW b \in Calls PROVE GrantOf(job[b])'
    BY DEF GrantInv
  <2>1. CASE b # c
    BY <1>2, <1>3, <1>4, <1>5, <2>1 DEF GrantInv, GrantOf, IdsInv, Asking, UrlStands
  <2>2. CASE b = c
    BY <1>2, <1>3, <1>4, <1>5, <2>2 DEF GrantInv, GrantOf, IdsInv, Asking, UrlStands
  <2>. QED
    BY <2>1, <2>2
<1>. QED
  BY <1>1, <1>6, <1>7, <1>8, <1>9, <1>10, <1>11 DEF IInv

\* The guard removes the sender on the way out.
LEMMA ReclaimKeeps == ASSUME IInv, NEW c \in Calls, Reclaim(c) PROVE IInv'
<1>1. TypeOK /\ TypeOK'
  BY NextType DEF IInv, Next, CallStep
<1>2. IdsInv /\ SlotInv /\ FreshInv /\ RecordInv /\ SettledInv /\ GrantInv
  BY DEF IInv
<1>3. /\ job[c].at = "expired"
      /\ \A b \in Calls : b # c => job'[b] = job[b]
      /\ job'[c].at = "resolve" /\ job'[c].effect = job[c].effect
      /\ job'[c].judged = job[c].judged /\ job'[c].id = job[c].id
      /\ job'[c].outcome = "timed_out" /\ job'[c].next = job[c].next
      /\ job'[c].seen = job[c].seen
  BY <1>1, JobType DEF JobSet, Reclaim, Put, TypeOK, At
<1>4. /\ counter' = counter /\ pending' = pending \ {job[c].id} /\ channel' = channel
      /\ events' = events /\ trail' = trail
  BY <1>1 DEF Reclaim
<1>5. counter \in Nat /\ \A b \in Calls : job[b].id \in Nat
                                       /\ (job[b].id # 0 => job[b].id \in Requests)
  BY <1>1, JobIds, CounterType
<1>6. IdsInv'
  BY <1>2, <1>3, <1>4, <1>5 DEF IdsInv, Asking
<1>7. SlotInv'
  BY <1>2, <1>3, <1>4, <1>5 DEF IdsInv, SlotInv, NoLeakedSlot
<1>8. FreshInv'
  BY <1>2, <1>4 DEF FreshInv
<1>9. RecordInv'
  <2>. SUFFICES ASSUME NEW b \in Calls PROVE RecordOf(job[b])'
    BY DEF RecordInv
  <2>1. CASE b # c
    BY <1>2, <1>3, <1>4, <1>5, <2>1 DEF RecordInv, RecordOf, IdsInv, Asking
  <2>2. CASE b = c
    BY <1>2, <1>3, <1>4, <1>5, <2>2 DEF RecordInv, RecordOf, IdsInv, Asking
  <2>. QED
    BY <2>1, <2>2
<1>10. SettledInv'
  <2>. SUFFICES ASSUME NEW r \in Requests, r < counter', ~Unsettled(r)'
                PROVE Settled(r)'
    BY DEF SettledInv
  <2>1. r < counter /\ ~Unsettled(r)
    BY <1>2, <1>3, <1>4, <1>5 DEF Unsettled, Asking, IdsInv
  <2>. QED
    BY <1>2, <1>4, <2>1 DEF SettledInv, Settled
<1>11. GrantInv'
  <2>. SUFFICES ASSUME NEW b \in Calls PROVE GrantOf(job[b])'
    BY DEF GrantInv
  <2>1. CASE b # c
    BY <1>2, <1>3, <1>4, <1>5, <2>1 DEF GrantInv, GrantOf, IdsInv, Asking, UrlStands
  <2>2. CASE b = c
    BY <1>2, <1>3, <1>4, <1>5, <2>2 DEF GrantInv, GrantOf, IdsInv, Asking, UrlStands
  <2>. QED
    BY <2>1, <2>2
<1>. QED
  BY <1>1, <1>6, <1>7, <1>8, <1>9, <1>10, <1>11 DEF IInv

\* After a grant only the URL the human saw leads to a run.
LEMMA RereadKeeps == ASSUME IInv, NEW c \in Calls, Reread(c) PROVE IInv'
<1>1. TypeOK /\ TypeOK'
  BY NextType DEF IInv, Next, CallStep
<1>2. IdsInv /\ SlotInv /\ FreshInv /\ RecordInv /\ SettledInv /\ GrantInv
  BY DEF IInv
<1>3. /\ job[c].at = "reread"
      /\ \A b \in Calls : b # c => job'[b] = job[b]
      /\ \/ /\ job'[c].at = "resolve" /\ job'[c].effect = job[c].effect
            /\ job'[c].judged = job[c].judged /\ job'[c].id = job[c].id
            /\ job'[c].outcome = job[c].outcome /\ job'[c].next = "run"
            /\ job'[c].seen = job[c].judged
         \/ /\ job'[c].at = "resolve" /\ job'[c].effect = job[c].effect
            /\ job'[c].judged = job[c].judged /\ job'[c].id = job[c].id
            /\ job'[c].outcome = job[c].outcome
            /\ job'[c].next = "review" /\ job'[c].seen = job[c].seen
  BY <1>1, JobType DEF JobSet, Reread, Put, TypeOK, At
<1>4. /\ counter' = counter /\ pending' = pending /\ channel' = channel
      /\ events' = events /\ trail' = trail
  BY <1>1 DEF Reread
<1>5. counter \in Nat /\ \A b \in Calls : job[b].id \in Nat
                                       /\ (job[b].id # 0 => job[b].id \in Requests)
  BY <1>1, JobIds, CounterType
<1>6. IdsInv'
  BY <1>2, <1>3, <1>4, <1>5 DEF IdsInv, Asking
<1>7. SlotInv'
  BY <1>2, <1>3, <1>4, <1>5 DEF IdsInv, SlotInv, NoLeakedSlot
<1>8. FreshInv'
  BY <1>2, <1>4 DEF FreshInv
<1>9. RecordInv'
  <2>. SUFFICES ASSUME NEW b \in Calls PROVE RecordOf(job[b])'
    BY DEF RecordInv
  <2>1. CASE b # c
    BY <1>2, <1>3, <1>4, <1>5, <2>1 DEF RecordInv, RecordOf, IdsInv, Asking
  <2>2. CASE b = c
    BY <1>2, <1>3, <1>4, <1>5, <2>2 DEF RecordInv, RecordOf, IdsInv, Asking
  <2>. QED
    BY <2>1, <2>2
<1>10. SettledInv'
  <2>. SUFFICES ASSUME NEW r \in Requests, r < counter', ~Unsettled(r)'
                PROVE Settled(r)'
    BY DEF SettledInv
  <2>1. r < counter /\ ~Unsettled(r)
    BY <1>2, <1>3, <1>4, <1>5 DEF Unsettled, Asking, IdsInv
  <2>. QED
    BY <1>2, <1>4, <2>1 DEF SettledInv, Settled
<1>11. GrantInv'
  <2>. SUFFICES ASSUME NEW b \in Calls PROVE GrantOf(job[b])'
    BY DEF GrantInv
  <2>1. CASE b # c
    BY <1>2, <1>3, <1>4, <1>5, <2>1 DEF GrantInv, GrantOf, IdsInv, Asking, UrlStands
  <2>2. CASE b = c
    BY <1>2, <1>3, <1>4, <1>5, <2>2 DEF GrantInv, GrantOf, IdsInv, Asking, UrlStands
  <2>. QED
    BY <2>1, <2>2
<1>. QED
  BY <1>1, <1>6, <1>7, <1>8, <1>9, <1>10, <1>11 DEF IInv

\* A dropped call reclaims its sender and still settles its request.
LEMMA CancelKeeps == ASSUME IInv, NEW c \in Calls, Cancel(c) PROVE IInv'
<1>1. TypeOK /\ TypeOK'
  BY NextType DEF IInv, Next, CallStep
<1>2. IdsInv /\ SlotInv /\ FreshInv /\ RecordInv /\ SettledInv /\ GrantInv
  BY DEF IInv
<1>3. /\ \A b \in Calls : b # c => job'[b] = job[b]
      /\ \/ /\ job[c].at = "parked"
            /\ job'[c].at = "resolve" /\ job'[c].effect = job[c].effect
            /\ job'[c].judged = job[c].judged /\ job'[c].id = job[c].id
            /\ job'[c].outcome = job[c].outcome
            /\ job'[c].next = job[c].next /\ job'[c].seen = job[c].seen
         \/ /\ job[c].at = "reread"
            /\ job'[c].at = "resolve" /\ job'[c].effect = job[c].effect
            /\ job'[c].judged = job[c].judged /\ job'[c].id = job[c].id
            /\ job'[c].outcome = job[c].outcome /\ job'[c].next = "done"
            /\ job'[c].seen = job[c].seen
         \/ /\ job[c].at = "run"
            /\ job'[c].at = "done" /\ job'[c].effect = job[c].effect
            /\ job'[c].judged = job[c].judged /\ job'[c].id = job[c].id
            /\ job'[c].outcome = job[c].outcome
            /\ job'[c].next = job[c].next /\ job'[c].seen = job[c].seen
  <2>1. job[c] \in JobSet
    BY <1>1, JobType
  <2>2. CASE At(c, "parked") /\ Put(c, [job[c] EXCEPT !.at = "resolve"])
    BY <1>1, <2>1, <2>2 DEF JobSet, Put, TypeOK, At
  <2>3. CASE At(c, "reread") /\ Put(c, [job[c] EXCEPT !.at = "resolve", !.next = "done"])
    BY <1>1, <2>1, <2>3 DEF JobSet, Put, TypeOK, At
  <2>4. CASE At(c, "run") /\ Put(c, [job[c] EXCEPT !.at = "done"])
    BY <1>1, <2>1, <2>4 DEF JobSet, Put, TypeOK, At
  <2>. QED
    BY <2>2, <2>3, <2>4 DEF Cancel
<1>4. /\ counter' = counter /\ pending' = pending \ {job[c].id} /\ channel' = channel
      /\ events' = events /\ trail' = trail
  BY <1>1 DEF Cancel
<1>5. counter \in Nat /\ \A b \in Calls : job[b].id \in Nat
                                       /\ (job[b].id # 0 => job[b].id \in Requests)
  BY <1>1, JobIds, CounterType
<1>6. IdsInv'
  BY <1>2, <1>3, <1>4, <1>5 DEF IdsInv, Asking
<1>7. SlotInv'
  BY <1>2, <1>3, <1>4, <1>5 DEF IdsInv, SlotInv, NoLeakedSlot
<1>8. FreshInv'
  BY <1>2, <1>4 DEF FreshInv
<1>9. RecordInv'
  <2>. SUFFICES ASSUME NEW b \in Calls PROVE RecordOf(job[b])'
    BY DEF RecordInv
  <2>1. CASE b # c
    BY <1>2, <1>3, <1>4, <1>5, <2>1 DEF RecordInv, RecordOf, IdsInv, Asking
  <2>2. CASE b = c
    BY <1>2, <1>3, <1>4, <1>5, <2>2 DEF RecordInv, RecordOf, IdsInv, Asking
  <2>. QED
    BY <2>1, <2>2
<1>10. SettledInv'
  <2>. SUFFICES ASSUME NEW r \in Requests, r < counter', ~Unsettled(r)'
                PROVE Settled(r)'
    BY DEF SettledInv
  <2>1. r < counter /\ ~Unsettled(r)
    BY <1>2, <1>3, <1>4, <1>5 DEF Unsettled, Asking, IdsInv
  <2>. QED
    BY <1>2, <1>4, <2>1 DEF SettledInv, Settled
<1>11. GrantInv'
  <2>. SUFFICES ASSUME NEW b \in Calls PROVE GrantOf(job[b])'
    BY DEF GrantInv
  <2>1. CASE b # c
    BY <1>2, <1>3, <1>4, <1>5, <2>1 DEF GrantInv, GrantOf, IdsInv, Asking, UrlStands
  <2>2. CASE b = c
    BY <1>2, <1>3, <1>4, <1>5, <2>2 DEF GrantInv, GrantOf, IdsInv, Asking, UrlStands
  <2>. QED
    BY <2>1, <2>2
<1>. QED
  BY <1>1, <1>6, <1>7, <1>8, <1>9, <1>10, <1>11 DEF IInv

\* The resolution event follows the request, once.
LEMMA ResolveKeeps == ASSUME IInv, NEW c \in Calls, Resolve(c) PROVE IInv'
<1>1. TypeOK /\ TypeOK'
  BY NextType DEF IInv, Next, CallStep
<1>2. IdsInv /\ SlotInv /\ FreshInv /\ RecordInv /\ SettledInv /\ GrantInv
  BY DEF IInv
<1>3. /\ job[c].at = "resolve"
      /\ \A b \in Calls : b # c => job'[b] = job[b]
      /\ job'[c].at = "record" /\ job'[c].effect = job[c].effect
      /\ job'[c].judged = job[c].judged /\ job'[c].id = job[c].id
      /\ job'[c].outcome = job[c].outcome /\ job'[c].next = job[c].next
      /\ job'[c].seen = job[c].seen
  BY <1>1, JobType DEF JobSet, Resolve, Put, TypeOK, At
<1>4. /\ counter' = counter /\ pending' = pending /\ channel' = channel
      /\ trail' = trail /\ (\A r \in Requests : r # job[c].id => events'[r] = events[r])
      /\ events'[job[c].id] = Append(events[job[c].id], IF job[c].outcome = "granted"
                                     THEN "granted" ELSE "refused")
  BY <1>1, <1>2, <1>3, JobIds DEF Resolve, TypeOK, IdsInv, Asking
<1>5. counter \in Nat /\ \A b \in Calls : job[b].id \in Nat
                                       /\ (job[b].id # 0 => job[b].id \in Requests)
  BY <1>1, JobIds, CounterType
<1>6. IdsInv'
  BY <1>2, <1>3, <1>4, <1>5 DEF IdsInv, Asking
<1>7. SlotInv'
  BY <1>2, <1>3, <1>4, <1>5 DEF IdsInv, SlotInv, NoLeakedSlot
<1>8. FreshInv'
  BY <1>2, <1>3, <1>4, <1>5 DEF IdsInv, FreshInv, Asking
<1>9. RecordInv'
  <2>. SUFFICES ASSUME NEW b \in Calls PROVE RecordOf(job[b])'
    BY DEF RecordInv
  <2>1. CASE b # c
    <3>1. RecordOf(job[b]) /\ job'[b] = job[b]
      BY <1>2, <1>3, <2>1 DEF RecordInv
    <3>2. job[b].id # 0 => /\ events'[job[b].id] = events[job[b].id]
                           /\ trail'[job[b].id] = trail[job[b].id]
      BY <1>2, <1>4, <1>5, <2>1 DEF IdsInv
    <3>3. job[b].at \in Asking => job[b].id # 0
      BY <1>2 DEF IdsInv
    <3>. QED
      BY <1>4, <3>1, <3>2, <3>3 DEF RecordOf, Asking
  <2>2. CASE b = c
    <3>1. trail[job[c].id] = <<>> /\ events[job[c].id] = <<"requested">>
      BY <1>2, <1>3 DEF RecordInv, RecordOf, Asking
    <3>2. events'[job[c].id] = <<"requested", IF job[c].outcome = "granted"
                                             THEN "granted" ELSE "refused">>
      BY <1>4, <3>1, AppendSecond
    <3>. QED
      BY <1>3, <1>4, <2>2, <3>1, <3>2 DEF RecordOf
  <2>. QED
    BY <2>1, <2>2
<1>10. SettledInv'
  <2>. SUFFICES ASSUME NEW r \in Requests, r < counter', ~Unsettled(r)'
                PROVE Settled(r)'
    BY DEF SettledInv
  <2>1. r # job[c].id /\ r < counter /\ ~Unsettled(r)
    BY <1>2, <1>3, <1>4 DEF Unsettled, Asking
  <2>. QED
    BY <1>2, <1>4, <2>1 DEF SettledInv, Settled
<1>11. GrantInv'
  <2>. SUFFICES ASSUME NEW b \in Calls PROVE GrantOf(job[b])'
    BY DEF GrantInv
  <2>1. CASE b # c
    <3>1. GrantOf(job[b]) /\ job'[b] = job[b]
      BY <1>2, <1>3, <2>1 DEF GrantInv
    <3>2. job[b].id # 0 => /\ events'[job[b].id] = events[job[b].id]
                           /\ trail'[job[b].id] = trail[job[b].id]
      BY <1>2, <1>4, <1>5, <2>1 DEF IdsInv
    <3>3. job[b].at \in Asking => job[b].id # 0
      BY <1>2 DEF IdsInv
    <3>. QED
      BY <1>4, <3>1, <3>2, <3>3 DEF GrantOf, Asking, UrlStands
  <2>2. CASE b = c
    BY <1>2, <1>3, <1>4, <1>5, <2>2 DEF GrantInv, GrantOf, IdsInv, Asking, UrlStands
  <2>. QED
    BY <2>1, <2>2
<1>. QED
  BY <1>1, <1>6, <1>7, <1>8, <1>9, <1>10, <1>11 DEF IInv

\* The audit line agrees with the event and settles the request.
LEMMA RecordKeeps == ASSUME IInv, NEW c \in Calls, Record(c) PROVE IInv'
<1>1. TypeOK /\ TypeOK'
  BY NextType DEF IInv, Next, CallStep
<1>2. IdsInv /\ SlotInv /\ FreshInv /\ RecordInv /\ SettledInv /\ GrantInv
  BY DEF IInv
<1>3. /\ job[c].at = "record"
      /\ \A b \in Calls : b # c => job'[b] = job[b]
      /\ job'[c].at = job[c].next /\ job'[c].effect = job[c].effect
      /\ job'[c].judged = job[c].judged /\ job'[c].id = job[c].id
      /\ job'[c].outcome = job[c].outcome /\ job'[c].next = job[c].next
      /\ job'[c].seen = job[c].seen
  BY <1>1, JobType DEF JobSet, Record, Put, TypeOK, At
<1>4. /\ counter' = counter /\ pending' = pending /\ channel' = channel
      /\ events' = events /\ (\A r \in Requests : r # job[c].id => trail'[r] = trail[r])
      /\ trail'[job[c].id] = Append(trail[job[c].id], IF job[c].outcome = "none"
                                     THEN "cancelled" ELSE job[c].outcome)
  BY <1>1, <1>2, <1>3, JobIds DEF Record, TypeOK, IdsInv, Asking
<1>5. counter \in Nat /\ \A b \in Calls : job[b].id \in Nat
                                       /\ (job[b].id # 0 => job[b].id \in Requests)
  BY <1>1, JobIds, CounterType
<1>6. IdsInv'
  BY <1>2, <1>3, <1>4, <1>5 DEF IdsInv, Asking
<1>7. SlotInv'
  BY <1>2, <1>3, <1>4, <1>5 DEF IdsInv, SlotInv, NoLeakedSlot
<1>8. FreshInv'
  BY <1>2, <1>3, <1>4, <1>5 DEF IdsInv, FreshInv, Asking
<1>9. RecordInv'
  <2>. SUFFICES ASSUME NEW b \in Calls PROVE RecordOf(job[b])'
    BY DEF RecordInv
  <2>1. CASE b # c
    <3>1. RecordOf(job[b]) /\ job'[b] = job[b]
      BY <1>2, <1>3, <2>1 DEF RecordInv
    <3>2. job[b].id # 0 => /\ events'[job[b].id] = events[job[b].id]
                           /\ trail'[job[b].id] = trail[job[b].id]
      BY <1>2, <1>4, <1>5, <2>1 DEF IdsInv
    <3>3. job[b].at \in Asking => job[b].id # 0
      BY <1>2 DEF IdsInv
    <3>. QED
      BY <1>4, <3>1, <3>2, <3>3 DEF RecordOf, Asking
  <2>2. CASE b = c
    <3>1. job[c].next \in {"run", "review", "done"}
      BY <1>1, JobType DEF JobSet
    <3>. QED
      BY <1>3, <2>2, <3>1 DEF RecordOf, Asking
  <2>. QED
    BY <2>1, <2>2
<1>10. SettledInv'
  <2>. SUFFICES ASSUME NEW r \in Requests, r < counter', ~Unsettled(r)'
                PROVE Settled(r)'
    BY DEF SettledInv
  <2>1. CASE r # job[c].id
    <3>1. r < counter /\ ~Unsettled(r)
      BY <1>2, <1>3, <1>4, <2>1 DEF Unsettled
    <3>. QED
      BY <1>2, <1>4, <2>1, <3>1 DEF SettledInv, Settled
  <2>2. CASE r = job[c].id
    <3>1. trail[r] = <<>> /\ events[r] = <<"requested", IF job[c].outcome = "granted"
                                                       THEN "granted" ELSE "refused">>
      BY <1>2, <1>3, <2>2 DEF RecordInv, RecordOf, Asking
    <3>2. PICK x : /\ x = IF job[c].outcome = "none" THEN "cancelled" ELSE job[c].outcome
                   /\ trail'[r] = Append(<<>>, x)
      BY <1>4, <2>2, <3>1
    <3>3. trail'[r] = <<x>> /\ Len(trail'[r]) = 1
      BY <3>2, AppendFirst
    <3>4. (trail'[r] = <<"granted">>) <=> (job[c].outcome = "granted")
      BY <3>2, <3>3
    <3>. QED
      BY <1>4, <3>1, <3>3, <3>4 DEF Settled
  <2>. QED
    BY <2>1, <2>2
<1>11. GrantInv'
  <2>. SUFFICES ASSUME NEW b \in Calls PROVE GrantOf(job[b])'
    BY DEF GrantInv
  <2>1. CASE b # c
    <3>1. GrantOf(job[b]) /\ job'[b] = job[b]
      BY <1>2, <1>3, <2>1 DEF GrantInv
    <3>2. job[b].id # 0 => /\ events'[job[b].id] = events[job[b].id]
                           /\ trail'[job[b].id] = trail[job[b].id]
      BY <1>2, <1>4, <1>5, <2>1 DEF IdsInv
    <3>3. job[b].at \in Asking => job[b].id # 0
      BY <1>2 DEF IdsInv
    <3>. QED
      BY <1>4, <3>1, <3>2, <3>3 DEF GrantOf, Asking, UrlStands
  <2>2. CASE b = c
    <3>1. job[c].next \in {"run", "review", "done"} /\ job[c].id # 0
      BY <1>1, <1>2, <1>3, JobType DEF JobSet, IdsInv, Asking
    <3>2. job[c].next = "run" => /\ job[c].outcome = "granted"
                                 /\ channel[job[c].id] = "grant" /\ UrlStands(job[c])
      BY <1>2, <1>3 DEF GrantInv, GrantOf
    <3>3. trail[job[c].id] = <<>>
      BY <1>2, <1>3 DEF RecordInv, RecordOf, Asking
    <3>4. job[c].next = "run" => trail'[job[c].id] = <<"granted">>
      BY <1>4, <3>2, <3>3, AppendFirst
    <3>. QED
      BY <1>3, <1>4, <2>2, <3>1, <3>2, <3>4 DEF GrantOf, Asking, UrlStands
  <2>. QED
    BY <2>1, <2>2
<1>. QED
  BY <1>1, <1>6, <1>7, <1>8, <1>9, <1>10, <1>11 DEF IInv

\* Running changes no record of any request.
LEMMA RunKeeps == ASSUME IInv, NEW c \in Calls, Run(c) PROVE IInv'
<1>1. TypeOK /\ TypeOK'
  BY NextType DEF IInv, Next, CallStep
<1>2. IdsInv /\ SlotInv /\ FreshInv /\ RecordInv /\ SettledInv /\ GrantInv
  BY DEF IInv
<1>3. /\ job[c].at = "run"
      /\ \A b \in Calls : b # c => job'[b] = job[b]
      /\ job'[c].at = "ran" /\ job'[c].effect = job[c].effect
      /\ job'[c].judged = job[c].judged /\ job'[c].id = job[c].id
      /\ job'[c].outcome = job[c].outcome /\ job'[c].next = job[c].next
      /\ job'[c].seen = job[c].seen
  BY <1>1, JobType DEF JobSet, Run, Put, TypeOK, At
<1>4. /\ counter' = counter /\ pending' = pending /\ channel' = channel
      /\ events' = events /\ trail' = trail
  BY <1>1 DEF Run
<1>5. counter \in Nat /\ \A b \in Calls : job[b].id \in Nat
                                       /\ (job[b].id # 0 => job[b].id \in Requests)
  BY <1>1, JobIds, CounterType
<1>6. IdsInv'
  BY <1>2, <1>3, <1>4, <1>5 DEF IdsInv, Asking
<1>7. SlotInv'
  BY <1>2, <1>3, <1>4, <1>5 DEF IdsInv, SlotInv, NoLeakedSlot
<1>8. FreshInv'
  BY <1>2, <1>4 DEF FreshInv
<1>9. RecordInv'
  <2>. SUFFICES ASSUME NEW b \in Calls PROVE RecordOf(job[b])'
    BY DEF RecordInv
  <2>1. CASE b # c
    BY <1>2, <1>3, <1>4, <1>5, <2>1 DEF RecordInv, RecordOf, IdsInv, Asking
  <2>2. CASE b = c
    BY <1>2, <1>3, <1>4, <1>5, <2>2 DEF RecordInv, RecordOf, IdsInv, Asking
  <2>. QED
    BY <2>1, <2>2
<1>10. SettledInv'
  <2>. SUFFICES ASSUME NEW r \in Requests, r < counter', ~Unsettled(r)'
                PROVE Settled(r)'
    BY DEF SettledInv
  <2>1. r < counter /\ ~Unsettled(r)
    BY <1>2, <1>3, <1>4, <1>5 DEF Unsettled, Asking, IdsInv
  <2>. QED
    BY <1>2, <1>4, <2>1 DEF SettledInv, Settled
<1>11. GrantInv'
  <2>. SUFFICES ASSUME NEW b \in Calls PROVE GrantOf(job[b])'
    BY DEF GrantInv
  <2>1. CASE b # c
    BY <1>2, <1>3, <1>4, <2>1 DEF GrantInv, GrantOf, UrlStands
  <2>2. CASE b = c
    BY <1>2, <1>3, <1>4, <1>5, <2>2 DEF GrantInv, GrantOf, IdsInv, Asking, UrlStands
  <2>. QED
    BY <2>1, <2>2
<1>. QED
  BY <1>1, <1>6, <1>7, <1>8, <1>9, <1>10, <1>11 DEF IInv

\* A decision uses up the parked sender.
LEMMA DecideKeeps == ASSUME IInv, NEW r \in Requests, NEW d \in Decisions, Decide(r, d) PROVE IInv'
<1>1. TypeOK /\ TypeOK'
  BY NextType DEF IInv, Next
<1>2. IdsInv /\ SlotInv /\ FreshInv /\ RecordInv /\ SettledInv /\ GrantInv
  BY DEF IInv
<1>3. /\ r \in pending /\ pending' = pending \ {r}
      /\ \A i \in Requests : i # r => channel'[i] = channel[i]
      /\ counter' = counter /\ job' = job /\ events' = events /\ trail' = trail
  BY <1>1 DEF Decide, TypeOK
<1>4. channel[r] = "empty"
  BY <1>2, <1>3 DEF SlotInv
<1>5. counter \in Nat /\ \A b \in Calls : job[b].id # 0 => job[b].id \in Requests
  BY <1>1, JobIds, CounterType
<1>6. r < counter
  <2>1. PICK c \in Calls : job[c].id = r
    BY <1>2, <1>3 DEF SlotInv, NoLeakedSlot
  <2>. QED
    BY <1>2, <2>1 DEF IdsInv
<1>7. IdsInv' /\ RecordInv' /\ SettledInv'
  BY <1>2, <1>3 DEF IdsInv, RecordInv, RecordOf, SettledInv, Settled, Unsettled
<1>8. SlotInv'
  BY <1>1, <1>2, <1>3 DEF SlotInv, NoLeakedSlot, TypeOK
<1>9. FreshInv'
  BY <1>2, <1>3, <1>6, <1>5, CounterType, <1>1 DEF FreshInv
<1>10. GrantInv'
  <2>. SUFFICES ASSUME NEW b \in Calls PROVE GrantOf(job[b])'
    BY DEF GrantInv
  <2>1. GrantOf(job[b])
    BY <1>2 DEF GrantInv
  <2>2. channel[job[b].id] = "grant" /\ job[b].id # 0 => channel'[job[b].id] = "grant"
    BY <1>3, <1>4, <1>5
  <2>. QED
    BY <1>2, <1>3, <2>1, <2>2 DEF GrantOf, UrlStands, IdsInv, Asking
<1>. QED
  BY <1>1, <1>7, <1>8, <1>9, <1>10 DEF IInv

\* A step that leaves calls and records alone keeps what is said of them.
LEMMA Untouched ==
    ASSUME IInv, counter' = counter, pending' = pending, channel' = channel,
           job' = job, events' = events, trail' = trail
    PROVE  /\ IdsInv' /\ SlotInv' /\ FreshInv'
           /\ RecordInv' /\ SettledInv' /\ GrantInv'
<1>1. IdsInv' /\ SlotInv'
  BY DEF IInv, IdsInv, SlotInv, NoLeakedSlot
<1>2. FreshInv' /\ SettledInv'
  BY DEF IInv, FreshInv, SettledInv, Settled, Unsettled
<1>3. RecordInv'
  BY DEF IInv, RecordInv, RecordOf
<1>4. GrantInv'
  BY DEF IInv, GrantInv, GrantOf, UrlStands
<1>. QED
  BY <1>1, <1>2, <1>3, <1>4

\* The page moves without touching a request.
LEMMA MoveKeeps == ASSUME IInv, Move PROVE IInv'
<1>1. TypeOK /\ TypeOK'
  BY NextType DEF IInv, Next
<1>2. IdsInv /\ SlotInv /\ FreshInv /\ RecordInv /\ SettledInv /\ GrantInv
  BY DEF IInv
<1>3. /\ counter' = counter /\ pending' = pending /\ channel' = channel
      /\ job' = job /\ events' = events /\ trail' = trail
  BY DEF Move
<1>4. IdsInv' /\ SlotInv' /\ FreshInv' /\ RecordInv' /\ SettledInv' /\ GrantInv'
  BY <1>3, Untouched
<1>. QED
  BY <1>1, <1>4 DEF IInv

-------------------------------------------------------------------------------
(* The inductive invariant behind the theorems: ids are held once, and each *)
(* stage of a call fixes what its request's channel, card and line hold.    *)
THEOREM Inductive == Spec => []IInv
<1>1. Init => IInv
  <2>. SUFFICES ASSUME Init PROVE IInv
    OBVIOUS
  <2>. USE BoundAssumption DEF Init, Call
  <2>1. TypeOK
    <3>1. Call \in JobSet
      BY HeldIds DEF JobSet, Outcomes, Effects, Call
    <3>2. job \in [Calls -> JobSet] /\ page \in Raw
      BY <3>1
    <3>3. /\ counter \in 1 .. MaxRequests + 1 /\ moves \in 0 .. MaxMoves
          /\ pending \subseteq Requests /\ acked \subseteq Requests /\ kept \subseteq Held
      OBVIOUS
    <3>4. /\ channel \in [Requests -> {"empty"} \cup Decisions]
          /\ events \in [Requests -> Seq({"requested", "granted", "refused"})]
          /\ trail \in [Requests -> Seq({"granted", "denied", "timed_out", "cancelled"})]
      OBVIOUS
    <3>. QED
      BY <3>2, <3>3, <3>4 DEF TypeOK
  <2>2. IdsInv /\ SlotInv /\ FreshInv
    BY DEF IdsInv, SlotInv, NoLeakedSlot, FreshInv, Requests, Asking
  <2>3. RecordInv /\ SettledInv /\ GrantInv
    BY DEF RecordInv, RecordOf, SettledInv, Settled, GrantInv, GrantOf, Requests, Asking
  <2>. QED
    BY <2>1, <2>2, <2>3 DEF IInv
<1>2. IInv /\ [Next]_vars => IInv'
  <2>. SUFFICES ASSUME IInv, [Next]_vars PROVE IInv'
    OBVIOUS
  <2>1. CASE Next
    BY <2>1, BeginKeeps, AllowedKeeps, DeniedKeeps, OpenKeeps, AskKeeps, AnsweredKeeps,
       ElapseKeeps, ReclaimKeeps, RereadKeeps, CancelKeeps, ResolveKeeps,
       RecordKeeps, RunKeeps, DecideKeeps, MoveKeeps
       DEF Next, CallStep
  <2>2. CASE UNCHANGED vars
    <3>1. /\ counter' = counter /\ pending' = pending /\ channel' = channel
          /\ page' = page /\ moves' = moves /\ job' = job
          /\ events' = events /\ trail' = trail /\ acked' = acked /\ kept' = kept
      BY <2>2 DEF vars
    <3>2. TypeOK'
      BY <3>1 DEF IInv, TypeOK
    <3>. QED
      BY <3>1, <3>2, Untouched DEF IInv
  <2>. QED
    BY <2>1, <2>2
<1>. QED
  BY <1>1, <1>2, PTL DEF Spec

(* Every variable keeps its type.                                          *)
THEOREM TypeCorrect == Spec => []TypeOK
<1>1. IInv => TypeOK
  BY DEF IInv
<1>. QED
  BY <1>1, Inductive, PTL

(* broker.rs: the parked slot is reclaimed on every way out of the wait.   *)
THEOREM SlotsReclaimed == Spec => []SlotsSound
<1>1. IInv => SlotsSound
  BY DEF IInv, SlotInv, SlotsSound
<1>. QED
  BY <1>1, Inductive, PTL

\* A line reaches the file only with its outcome on record.
LEMMA KeptStep == ASSUME IInv, KeptInv, [Next]_vars PROVE KeptInv'
<1>1. ASSUME NEW c \in Calls, Record(c) PROVE KeptInv'
  <2>1. /\ job[c].id \in Requests /\ trail \in [Requests -> Seq({"granted", "denied", "timed_out", "cancelled"})]
    BY <1>1, JobIds DEF Record, At, IInv, IdsInv, Asking, TypeOK
  <2>2. PICK x : trail' = [trail EXCEPT ![job[c].id] = Append(@, x)]
    BY <1>1 DEF Record
  <2>3. kept' \subseteq kept \cup {job[c].id}
    BY <1>1 DEF Record
  <2>4. ASSUME NEW r \in kept', r \in Requests PROVE trail'[r] # <<>>
    <3>1. CASE r = job[c].id
      <4>1. trail'[r] = Append(trail[r], x)
        BY <2>1, <2>2, <3>1
      <4>. QED
        BY <2>1, <4>1, <3>1
    <3>2. CASE r # job[c].id
      BY <2>1, <2>2, <2>3, <2>4, <3>2 DEF KeptInv
    <3>. QED
      BY <3>1, <3>2
  <2>. QED
    BY <2>4 DEF KeptInv
<1>2. CASE UNCHANGED <<trail, kept>>
  BY <1>2 DEF KeptInv
<1>3. ASSUME NEW c \in Calls, CallStep(c) \/ Cancel(c) \/ \E e \in Effects : Begin(c, e)
      PROVE KeptInv'
  <2>1. CASE Record(c)
    BY <1>1, <2>1
  <2>2. CASE ~Record(c)
    <3>1. UNCHANGED <<trail, kept>>
      BY <1>3, <2>2 DEF CallStep, Begin, Allowed, Denied, Open, Ask, Answered, Elapse,
                        Reclaim, Reread, Cancel, Resolve, Run
    <3>. QED
      BY <3>1, <1>2
  <2>. QED
    BY <2>1, <2>2
<1>4. CASE \E r \in Requests, d \in Decisions : Decide(r, d)
  BY <1>4, <1>2 DEF Decide
<1>5. CASE Move
  BY <1>5, <1>2 DEF Move
<1>6. CASE UNCHANGED vars
  BY <1>6, <1>2 DEF vars
<1>. QED
  BY <1>3, <1>4, <1>5, <1>6 DEF Next

(* ParkTicket::drop: one card retired and one outcome recorded for each    *)
(* request, in agreement, whichever way the request ended; a line in the   *)
(* audit file is never the second of its request.                          *)
THEOREM EachAccounted == Spec => []Accounted
<1>1. IInv /\ KeptInv => Accounted
  <2>. SUFFICES ASSUME IInv, KeptInv, NEW r \in Requests
                PROVE /\ Len(events[r]) <= 2 /\ Len(trail[r]) <= 1
                      /\ r \in kept => Len(trail[r]) = 1
                      /\ r < counter /\ ~Unsettled(r) =>
                            /\ Len(trail[r]) = 1
                            /\ events[r] = <<"requested",
                                  IF trail[r] = <<"granted">> THEN "granted" ELSE "refused">>
    BY DEF Accounted
  <2>1. CASE r >= counter
    <3>1. events[r] = <<>> /\ trail[r] = <<>>
      BY <2>1 DEF IInv, FreshInv
    <3>2. r \notin kept
      BY <3>1 DEF KeptInv
    <3>. QED
      BY <2>1, <3>1, <3>2 DEF IInv, TypeOK, Requests
  <2>2. CASE Unsettled(r)
    <3>1. PICK c \in Calls : job[c].id = r /\ job[c].at \in Asking
      BY <2>2 DEF Unsettled
    <3>2. trail[r] = <<>>
      BY <3>1 DEF IInv, RecordInv, RecordOf
    <3>3. \/ events[r] = <<>> \/ events[r] = <<"requested">>
          \/ \E x : events[r] = <<"requested", x>>
      BY <3>1 DEF IInv, RecordInv, RecordOf, Asking
    <3>4. Len(trail[r]) = 0 /\ r \notin kept
      BY <3>2 DEF KeptInv
    <3>5. Len(events[r]) <= 2
      <4>1. CASE events[r] = <<>>
        BY <4>1
      <4>2. CASE events[r] = <<"requested">>
        BY <4>2, AppendFirst
      <4>3. CASE \E x : events[r] = <<"requested", x>>
        BY <4>3, AppendSecond
      <4>. QED
        BY <3>3, <4>1, <4>2, <4>3
    <3>. QED
      BY <2>2, <3>4, <3>5
  <2>3. CASE r < counter /\ ~Unsettled(r)
    <3>1. /\ Len(trail[r]) = 1
          /\ events[r] = <<"requested",
                IF trail[r] = <<"granted">> THEN "granted" ELSE "refused">>
      BY <2>3 DEF IInv, SettledInv, Settled
    <3>2. Len(events[r]) = 2
      BY <3>1, AppendSecond
    <3>. QED
      BY <3>1, <3>2
  <2>. QED
    BY <2>1, <2>2, <2>3 DEF IInv, TypeOK, Requests
<1>2. Init => KeptInv
  BY DEF Init, KeptInv
<1>3. IInv /\ KeptInv /\ [Next]_vars => KeptInv'
  BY KeptStep
<1>. QED
  BY <1>1, <1>2, <1>3, Inductive, PTL DEF Spec

(* enforce: no operation runs that the rules did not allow or a human did  *)
(* not grant as it was described, whatever the rules say.                  *)
THEOREM RunsSupervised == Spec => []Supervised
<1>1. IInv => Supervised
  BY DEF IInv, GrantInv, GrantOf, Supervised, UrlStands
<1>. QED
  BY <1>1, Inductive, PTL
-------------------------------------------------------------------------------
(* How a human's answer reaches a dashboard, for any processes, ports and   *)
(* tabs.                                                                    *)

ServerSet ==
    [at : {"new", "bound", "removed", "serving", "ended"}, port : Ports \cup {None}]
TabSet ==
    [port : Ports \cup {None}, query : Instances \cup {None}, cards : SUBSET Instances]
TakenSet == [of : Instances \cup {None}, at : Instances, byUrl : BOOLEAN]

(* The planted cookie sorts ahead of the one slot the dashboards share.    *)
CookieShapes ==
    {<<>>, <<Planted>>} \cup {<<i>> : i \in Instances} \cup {<<Planted, i>> : i \in Instances}

AccessState ==
    /\ terminal \subseteq Instances
    /\ server \in [Instances -> ServerSet]
    /\ \A i \in Instances : server[i].at \in {"bound", "removed", "serving"} =>
                               server[i].port \in Ports
    /\ urlFile \in [Ports -> Instances \cup {None}]
    /\ printed \subseteq [port : Ports, token : Instances]
    /\ cookies \in CookieShapes
    /\ tab \in [Tabs -> TabSet] /\ taken \subseteq TakenSet

(* A port has one holder.                                                  *)
OneHolder ==
    \A p \in Ports, i, j \in Instances : Holds(i, p) /\ Holds(j, p) => i = j

(* A page opened by its access URL only ever showed briefs of the process  *)
(* whose URL that was.                                                     *)
CardsOwn == \A t \in Tabs : tab[t].query # None => tab[t].cards \subseteq {tab[t].query}

AccessInv == AccessState /\ OneHolder /\ CardsOwn /\ HandOffHolds /\ AnswersOwnBrief

LEMMA ServerFields ==
    ASSUME NEW s \in ServerSet
    PROVE  /\ s.at \in {"new", "bound", "removed", "serving", "ended"}
           /\ s.port \in Ports \cup {None}
  BY DEF ServerSet

LEMMA TabFields ==
    ASSUME NEW s \in TabSet
    PROVE  /\ s.port \in Ports \cup {None} /\ s.query \in Instances \cup {None}
           /\ s.cards \subseteq Instances
  BY DEF TabSet

LEMMA ServesIs ==
    ASSUME NEW i \in Instances, NEW p, server[i] \in ServerSet
    PROVE  Serves(i, p) <=> server[i].at = "serving" /\ server[i].port = p
  BY DEF Serves, ServerSet

LEMMA NoneIs == None \notin Instances /\ None \notin Ports
  BY AccessAssumption

(* An origin means the port the page is served on, spelled out or not.     *)
LEMMA PortMeant ==
    ASSUME NEW p \in Ports
    PROVE  EffectivePort(OriginOf(p)) = p /\ OriginOf(p) # None
  <1>1. CASE p = 80
    <2>1. OriginOf(p) = [scheme |-> "http", port |-> None] /\ p = 80
      BY <1>1 DEF OriginOf
    <2>2. EffectivePort(OriginOf(p)) = p
      BY <2>1 DEF EffectivePort
    <2>3. OriginOf(p) # None
      <3>1. OriginOf(p) \in [scheme : {"http"}, port : Ports \cup {None}]
        BY <2>1
      <3> QED
        BY <3>1, AccessAssumption
    <2> QED
      BY <2>2, <2>3
  <1>2. CASE p # 80
    <2>1. OriginOf(p) = [scheme |-> "http", port |-> p] /\ p # None
      BY <1>2, NoneIs DEF OriginOf
    <2>2. EffectivePort(OriginOf(p)) = p
      BY <2>1 DEF EffectivePort
    <2>3. OriginOf(p) # None
      <3>1. OriginOf(p) \in [scheme : {"http"}, port : Ports \cup {None}]
        BY <2>1
      <3> QED
        BY <3>1, AccessAssumption
    <2> QED
      BY <2>2, <2>3
  <1> QED
    BY <1>1, <1>2

(* A query token that is let in is the instance's own.                     *)
LEMMA QuerySpeaks ==
    ASSUME NEW i, NEW origin, NEW query, query # None,
           AccessAllowed(i, Request(origin, query))
    PROVE  query = i
  BY DEF AccessAllowed, TokenOk, Request

LEMMA CookieShape ==
    ASSUME NEW c \in CookieShapes
    PROVE  /\ ToSet(c) \subseteq Instances \cup {Planted} /\ Len(c) <= 2
           /\ Planted \notin ToSet(c) => <<Planted>> \o c \in CookieShapes
  <1>1. CASE c = <<>>
    BY <1>1 DEF CookieShapes, ToSet
  <1>2. CASE c = <<Planted>>
    BY <1>2 DEF CookieShapes, ToSet
  <1>3. CASE \E i \in Instances : c = <<i>>
    <2>1. PICK i \in Instances : c = <<i>>
      BY <1>3
    <2>2. <<Planted>> \o c = <<Planted, i>>
      <3> DEFINE S == {Planted, i}
                 s == <<Planted>>
                 d == <<Planted, i>>
      <3>1. s \in Seq(S) /\ c \in Seq(S) /\ d \in Seq(S)
        BY <2>1
      <3>2. Len(s) = 1 /\ Len(c) = 1 /\ Len(d) = 2 /\ s[1] = d[1] /\ c[1] = d[2]
        BY <2>1
      <3> HIDE DEF S, s, d
      <3>3. /\ s \o c \in Seq(S) /\ Len(s \o c) = 2 /\ (s \o c)[1] = d[1]
            /\ (s \o c)[2] = d[2]
        BY <3>1, <3>2, ConcatProperties
      <3>4. s \o c = d
        BY <3>1, <3>2, <3>3, SeqEqual
      <3> QED
        BY <3>4 DEF s, d
    <2> QED
      BY <2>1, <2>2 DEF CookieShapes, ToSet
  <1>4. CASE \E i \in Instances : c = <<Planted, i>>
    <2>1. PICK i \in Instances : c = <<Planted, i>>
      BY <1>4
    <2>2. c[1] = Planted /\ 1 \in DOMAIN c
      BY <2>1
    <2>3. Planted \in ToSet(c)
      BY <2>2 DEF ToSet
    <2> QED
      BY <2>1, <2>3 DEF CookieShapes, ToSet
  <1> QED
    BY <1>1, <1>2, <1>3, <1>4 DEF CookieShapes

(* A server moves on, keeping its port.                                    *)
LEMMA ServerStep ==
    ASSUME AccessInv, NEW i \in Instances, NEW at \in {"removed", "serving", "ended"},
           server[i].at \in {"bound", "removed", "serving"},
           server' = [server EXCEPT ![i].at = at], terminal' = terminal,
           UNCHANGED <<cookies, tab, taken>>,
           urlFile' \in [Ports -> Instances \cup {None}],
           printed' \subseteq [port : Ports, token : Instances],
           \A p \in Ports : p # server[i].port => urlFile'[p] = urlFile[p],
           urlFile'[server[i].port] = urlFile[server[i].port] \/ at = "removed"
              \/ urlFile'[server[i].port] = i,
           at = "serving" /\ i \notin terminal => urlFile'[server[i].port] = i
    PROVE  AccessInv'
  <1> DEFINE j == [server[i] EXCEPT !.at = at]
  <1>1. server \in [Instances -> ServerSet] /\ server[i] \in ServerSet
        /\ server[i].port \in Ports
    BY DEF AccessInv, AccessState
  <1>2. j \in ServerSet /\ j.at = at /\ j.port = server[i].port
    BY <1>1 DEF ServerSet
  <1>3. server' = [server EXCEPT ![i] = j]
    OBVIOUS
  <1> HIDE DEF j
  <1>4. /\ server' \in [Instances -> ServerSet] /\ server'[i] = j
        /\ \A k \in Instances : k # i => server'[k] = server[k]
    BY <1>1, <1>2, <1>3
  <1>5. AccessState'
    BY <1>1, <1>2, <1>4 DEF AccessInv, AccessState
  <1>6. \A p \in Ports, k \in Instances : Holds(k, p)' => Holds(k, p)
    BY <1>2, <1>4 DEF Holds
  <1>7. OneHolder'
    BY <1>6 DEF AccessInv, OneHolder
  <1>8. HandOffHolds'
    <2> SUFFICES ASSUME NEW k \in Instances \ terminal, NEW p \in Ports, Serves(k, p)'
                 PROVE  urlFile'[p] = k
      BY DEF HandOffHolds
    <2>1. CASE k = i
      <3>1. p = server[i].port /\ at = "serving"
        BY <1>2, <1>4, <2>1 DEF Serves
      <3> QED
        BY <2>1, <3>1
    <2>2. CASE k # i
      <3>1. Serves(k, p)
        BY <1>4, <2>2 DEF Serves
      <3>2. Holds(k, p) /\ Holds(i, server[i].port)
        BY <3>1, <1>1, ServesIs DEF AccessInv, AccessState, Holds
      <3>3. p # server[i].port
        BY <1>1, <2>2, <3>2 DEF AccessInv, OneHolder
      <3> QED
        BY <3>1, <3>3 DEF AccessInv, HandOffHolds
    <2> QED
      BY <2>1, <2>2
  <1> QED
    BY <1>5, <1>7, <1>8 DEF AccessInv, CardsOwn, AnswersOwnBrief

LEMMA BindKeeps ==
    ASSUME AccessInv, NEW i \in Instances, NEW p \in Ports, Bind(i, p)
    PROVE  AccessInv'
  <1> DEFINE s == IF Free(p) THEN [at |-> "bound", port |-> p]
                             ELSE [at |-> "ended", port |-> None]
  <1>1. /\ server \in [Instances -> ServerSet] /\ server' = [server EXCEPT ![i] = s]
        /\ UNCHANGED <<terminal, urlFile, printed, cookies, tab, taken>>
    BY DEF AccessInv, AccessState, Bind
  <1>2. /\ s \in ServerSet /\ s.at \in {"bound", "ended"}
        /\ s.at = "bound" => Free(p) /\ s.port = p
    BY DEF ServerSet
  <1> HIDE DEF s
  <1>3. /\ server' \in [Instances -> ServerSet] /\ server'[i] = s
        /\ \A k \in Instances : k # i => server'[k] = server[k]
    BY <1>1, <1>2
  <1>4. AccessState'
    BY <1>1, <1>2, <1>3 DEF AccessInv, AccessState
  <1>5. OneHolder'
    <2> SUFFICES ASSUME NEW q \in Ports, NEW k \in Instances, NEW l \in Instances,
                        Holds(k, q)', Holds(l, q)', k # l
                 PROVE  FALSE
      BY DEF OneHolder
    <2>1. CASE k # i /\ l # i
      BY <1>3, <2>1 DEF AccessInv, OneHolder, Holds
    <2>2. CASE k = i
      <3>1. Holds(l, q) /\ Free(p) /\ q = p
        BY <1>2, <1>3, <2>2 DEF Holds
      <3> QED
        BY <3>1 DEF Free
    <2>3. CASE l = i
      <3>1. Holds(k, q) /\ Free(p) /\ q = p
        BY <1>2, <1>3, <2>3 DEF Holds
      <3> QED
        BY <3>1 DEF Free
    <2> QED
      BY <2>1, <2>2, <2>3
  <1>6. HandOffHolds'
    <2> SUFFICES ASSUME NEW k \in Instances \ terminal, NEW q \in Ports, Serves(k, q)'
                 PROVE  urlFile[q] = k
      BY <1>1 DEF HandOffHolds
    <2>1. k # i
      BY <1>2, <1>3 DEF Serves
    <2> QED
      BY <1>3, <2>1 DEF AccessInv, HandOffHolds, Serves
  <1> QED
    BY <1>1, <1>4, <1>5, <1>6 DEF AccessInv, CardsOwn, AnswersOwnBrief

LEMMA HandOffKeeps ==
    ASSUME AccessInv, NEW i \in Instances,
           Announce(i) \/ RemoveOld(i) \/ WriteNew(i) \/ End(i)
    PROVE  AccessInv'
  <1>1. /\ urlFile \in [Ports -> Instances \cup {None}] /\ server[i] \in ServerSet
        /\ printed \subseteq [port : Ports, token : Instances]
        /\ server[i].at \in {"bound", "removed", "serving"} => server[i].port \in Ports
    BY DEF AccessInv, AccessState
  <1>2. CASE Announce(i)
    <2>1. printed' \subseteq [port : Ports, token : Instances]
      BY <1>1, <1>2 DEF Announce
    <2> QED
      BY <1>1, <1>2, <2>1, ServerStep DEF Announce
  <1>3. CASE RemoveOld(i)
    BY <1>1, <1>3, ServerStep DEF RemoveOld
  <1>4. CASE WriteNew(i)
    BY <1>1, <1>4, ServerStep DEF WriteNew
  <1>5. CASE End(i)
    BY <1>1, <1>5, ServerStep DEF End
  <1> QED
    BY <1>2, <1>3, <1>4, <1>5

(* What the browser does leaves the servers and their hand-off alone.      *)
LEMMA BrowserStep ==
    ASSUME AccessInv, UNCHANGED <<terminal, server, urlFile, printed>>,
           cookies' \in CookieShapes, tab' \in [Tabs -> TabSet], taken' \subseteq TakenSet,
           CardsOwn', AnswersOwnBrief'
    PROVE  AccessInv'
  <1>1. AccessState'
    BY DEF AccessInv, AccessState
  <1>2. OneHolder' /\ HandOffHolds'
    BY DEF AccessInv, OneHolder, Holds, HandOffHolds, Serves
  <1> QED
    BY <1>1, <1>2 DEF AccessInv

LEMMA PlantKeeps ==
    ASSUME AccessInv, Plant
    PROVE  AccessInv'
  <1>1. cookies' \in CookieShapes
    BY CookieShape DEF AccessInv, AccessState, Plant
  <1> QED
    BY <1>1, BrowserStep
    DEF Plant, AccessInv, AccessState, CardsOwn, AnswersOwnBrief

LEMMA PageKeeps ==
    ASSUME AccessInv, NEW i \in Instances, NEW t \in Tabs, NEW p \in Ports, OpenPage(i, t, p)
    PROVE  AccessInv'
  <1>1. PICK query \in {urlFile[p]} \cup {u.token : u \in {v \in printed : v.port = p}}
                       \cup {None} : Visit(i, t, p, query)
    BY DEF OpenPage
  <1>2. query \in Instances \cup {None}
    <2>1. urlFile[p] \in Instances \cup {None}
      BY DEF AccessInv, AccessState
    <2>2. \A u \in printed : u.token \in Instances
      BY DEF AccessInv, AccessState
    <2> QED
      BY <2>1, <2>2
  <1> DEFINE s == [port |-> p, query |-> query, cards |-> {}]
  <1>3. /\ tab' = [tab EXCEPT ![t] = s] /\ cookies' = SetCookie(i) /\ tab \in [Tabs -> TabSet]
        /\ UNCHANGED <<terminal, server, urlFile, printed, taken>>
    BY <1>1 DEF Visit, AccessInv, AccessState
  <1>4. s \in TabSet /\ s.cards = {}
    BY <1>2 DEF TabSet
  <1> HIDE DEF s
  <1>5. tab' \in [Tabs -> TabSet] /\ CardsOwn'
    BY <1>3, <1>4 DEF AccessInv, CardsOwn
  <1>6. cookies' \in CookieShapes
    BY <1>3 DEF SetCookie, CookieShapes
  <1> QED
    BY <1>3, <1>5, <1>6, BrowserStep DEF AccessInv, AccessState, AnswersOwnBrief

LEMMA ConnectKeeps ==
    ASSUME AccessInv, NEW i \in Instances, NEW t \in Tabs, Connect(i, t)
    PROVE  AccessInv'
  <1> DEFINE s == [tab[t] EXCEPT !.cards = @ \cup {i}]
  <1>1. /\ tab' = [tab EXCEPT ![t] = s] /\ tab \in [Tabs -> TabSet] /\ tab[t] \in TabSet
        /\ UNCHANGED <<terminal, server, urlFile, printed, cookies, taken>>
    BY DEF Connect, AccessInv, AccessState
  <1>2. tab[t].query # None => tab[t].query = i
    BY QuerySpeaks DEF Connect
  <1>3. s \in TabSet /\ s.cards = tab[t].cards \cup {i} /\ s.query = tab[t].query
    BY <1>1 DEF TabSet
  <1> HIDE DEF s
  <1>4. tab' \in [Tabs -> TabSet] /\ CardsOwn'
    BY <1>1, <1>2, <1>3 DEF AccessInv, CardsOwn
  <1> QED
    BY <1>1, <1>4, BrowserStep DEF AccessInv, AccessState, AnswersOwnBrief

LEMMA AnswerKeeps ==
    ASSUME AccessInv, NEW i \in Instances, NEW t \in Tabs, NEW card \in Instances,
           Answer(i, t, card)
    PROVE  AccessInv'
  <1> DEFINE byUrl == tab[t].query # None
             d == [of |-> card, at |-> i, byUrl |-> byUrl]
  <1>1. /\ taken' = taken \cup {d} /\ card \in tab[t].cards
        /\ UNCHANGED <<terminal, server, urlFile, printed, cookies, tab>>
    BY DEF Answer
  <1>2. byUrl => tab[t].query = i
    BY QuerySpeaks DEF Answer
  <1>3. byUrl => card = i
    BY <1>1, <1>2 DEF AccessInv, CardsOwn
  <1>4. byUrl \in BOOLEAN
    OBVIOUS
  <1> HIDE DEF byUrl
  <1>5. d \in TakenSet /\ d.of = card /\ d.at = i /\ d.byUrl = byUrl
    BY <1>4 DEF TakenSet
  <1>6. taken' \subseteq TakenSet
    BY <1>1, <1>5 DEF AccessInv, AccessState
  <1>7. AnswersOwnBrief'
    <2> SUFFICES ASSUME NEW x \in taken' PROVE x.of # None /\ (x.byUrl => x.of = x.at)
      BY DEF AnswersOwnBrief
    <2>1. CASE x \in taken
      BY <2>1 DEF AccessInv, AnswersOwnBrief
    <2>2. CASE x = d
      <3>1. x.of = card /\ x.at = i /\ (x.byUrl => byUrl)
        BY <1>5, <2>2
      <3>2. card # None
        BY NoneIs
      <3> QED
        BY <1>3, <3>1, <3>2
    <2> QED
      BY <1>1, <2>1, <2>2
  <1> QED
    BY <1>1, <1>6, <1>7, BrowserStep DEF AccessInv, AccessState, CardsOwn

(* A page of another port is turned away by its origin.                    *)
LEMMA NoAnswerAcross ==
    ASSUME AccessInv, NEW i \in Instances, NEW p \in Ports
    PROVE  ~AnswerAcross(i, p)
  BY PortMeant DEF AnswerAcross, AccessAllowed, OriginAllowed, Request

LEMMA AccessStep == AccessInv /\ [AccessNext]_accessVars => AccessInv'
  <1> SUFFICES ASSUME AccessInv, [AccessNext]_accessVars PROVE AccessInv'
    OBVIOUS
  <1>1. CASE UNCHANGED accessVars
    BY <1>1, BrowserStep
    DEF accessVars, AccessInv, AccessState, CardsOwn, AnswersOwnBrief
  <1>2. CASE Plant
    BY <1>2, PlantKeeps
  <1>3. ASSUME NEW i \in Instances, NEW p \in Ports, Bind(i, p) \/ AnswerAcross(i, p)
        PROVE  AccessInv'
    BY <1>3, BindKeeps, NoAnswerAcross
  <1>4. ASSUME NEW i \in Instances, Announce(i) \/ RemoveOld(i) \/ WriteNew(i) \/ End(i)
        PROVE  AccessInv'
    BY <1>4, HandOffKeeps
  <1>5. ASSUME NEW i \in Instances, NEW t \in Tabs,
               \/ \E p \in Ports : OpenPage(i, t, p)
               \/ Connect(i, t)
               \/ \E card \in Instances : Answer(i, t, card)
        PROVE  AccessInv'
    BY <1>5, PageKeeps, ConnectKeeps, AnswerKeeps
  <1> QED
    BY <1>1, <1>2, <1>3, <1>4, <1>5 DEF AccessNext

LEMMA AccessStart == AccessInit => AccessInv
  <1> SUFFICES ASSUME AccessInit PROVE AccessInv
    OBVIOUS
  <1>1. [at |-> "new", port |-> None] \in ServerSet /\ Closed \in TabSet
        /\ Closed.query = None
    BY DEF ServerSet, TabSet, Closed
  <1>2. \A i \in Instances : server[i] = [at |-> "new", port |-> None]
    BY DEF AccessInit
  <1>3. AccessState
    <2>1. /\ server \in [Instances -> ServerSet] /\ tab \in [Tabs -> TabSet]
          /\ urlFile \in [Ports -> Instances \cup {None}]
      BY <1>1 DEF AccessInit
    <2>2. cookies \in CookieShapes
      BY DEF AccessInit, CookieShapes
    <2>3. terminal \subseteq Instances /\ printed = {} /\ taken = {}
      BY DEF AccessInit
    <2>4. \A i \in Instances : server[i].at = "new"
      BY <1>2
    <2> QED
      BY <2>1, <2>2, <2>3, <2>4 DEF AccessState
  <1>4. OneHolder
    BY <1>2, NoneIs DEF OneHolder, Holds
  <1>5. HandOffHolds
    BY <1>2 DEF HandOffHolds, Serves
  <1>6. CardsOwn /\ AnswersOwnBrief
    BY <1>1 DEF AccessInit, CardsOwn, AnswersOwnBrief
  <1> QED
    BY <1>3, <1>4, <1>5, <1>6 DEF AccessInv

(* Whoever binds, fails, restarts or plants a cookie: the hand-off file of *)
(* a dashboard that serves names it, an answer is taken from a page of the *)
(* dashboard's own port, and from a page its access URL opened only for a  *)
(* brief of its own (lib.rs, hand_off and decide; auth.rs, access_allowed). *)
THEOREM AnswersReached == AccessSpec => []AnswersReach
  <1>1. AccessInv => AnswersReach
    <2> SUFFICES ASSUME AccessInv PROVE AnswersReach
      OBVIOUS
    <2>1. AccessTypes
      BY CookieShape DEF AccessInv, AccessState, AccessTypes, ServerSet, TabSet, TakenSet
    <2>2. NotShadowed
      <3> SUFFICES ASSUME NEW i \in Instances, NEW p \in Ports, Serves(i, p),
                          i \in ToSet(cookies)
                   PROVE  AccessAllowed(i, Request(OriginOf(p), None))
        BY DEF NotShadowed
      <3>1. server[i].port = p
        BY DEF Serves
      <3> QED
        BY <3>1, PortMeant DEF AccessAllowed, OriginAllowed, TokenOk, CookieTokens, Request
    <2> QED
      BY <2>1, <2>2 DEF AccessInv, AnswersReach
  <1> QED
    BY <1>1, AccessStart, AccessStep, PTL DEF AccessSpec
--------------------------------------------------------------------------------
(* wildcard_match.                                                          *)

(* The start of the pattern takes the text up to position a; the rest of   *)
(* the pattern from byte i takes the text from position a to its end.      *)
Taken(i, a) ==
    \E cut \in [1 .. i -> 1 .. Len(text) + 1] :
        /\ cut[1] = 1 /\ cut[i] = a
        /\ \A k \in 1 .. i - 1 : Takes(pattern[k], text, cut[k], cut[k + 1])
Left(i, a) ==
    \E cut \in [i .. Len(pattern) + 1 -> 1 .. Len(text) + 1] :
        /\ cut[i] = a /\ cut[Len(pattern) + 1] = Len(text) + 1
        /\ \A k \in i .. Len(pattern) : Takes(pattern[k], text, cut[k], cut[k + 1])

LoopType ==
    /\ pattern \in Seq(Bytes) /\ text \in Seq(Bytes)
    /\ loop \in [p : 1 .. Len(pattern) + 1, t : 1 .. Len(text) + 1,
                 star : 0 .. Len(pattern), starText : 1 .. Len(text) + 1, failed : BOOLEAN]
    /\ answer \in {"none", "yes", "no"}
    /\ loop.failed => answer = "no"
    /\ loop.star # 0 => /\ loop.star < loop.p /\ loop.starText <= loop.t
                        /\ pattern[loop.star] = "*"

(* What was taken so far is a way to take it, up to the last star and up   *)
(* to the cursor.                                                          *)
TakenInv ==
    answer = "none" =>
        /\ Taken(loop.p, loop.t)
        /\ loop.star # 0 => \E a \in 1 .. loop.starText : Taken(loop.star, a)

(* Behind the last star the pattern's bytes were compared one by one: what *)
(* can be taken from there on can be taken from as far on as the cursor.   *)
Abreast ==
    /\ loop.t - loop.starText = loop.p - loop.star - 1
    /\ \E a \in loop.starText .. Len(text) + 1 : Left(loop.star + 1, a)
    /\ \A a \in loop.starText .. Len(text) + 1 :
          Left(loop.star + 1, a) => Left(loop.p, a + (loop.p - loop.star - 1))

(* No way to take the whole text was given up.                             *)
LeftInv ==
    answer = "none" /\ Left(1, 1) =>
        \/ loop.star = 0 /\ Left(loop.p, loop.t)
        \/ loop.star # 0 /\ Abreast
        \/ loop.t = Len(text) + 1 /\ Left(loop.p, loop.t)

LoopInv == LoopType /\ TakenInv /\ LeftInv /\ LoopMeans
-------------------------------------------------------------------------------
LEMMA Lengths ==
    ASSUME LoopType
    PROVE  /\ Len(pattern) \in Nat /\ Len(text) \in Nat
           /\ DOMAIN pattern = 1 .. Len(pattern) /\ DOMAIN text = 1 .. Len(text)
  BY LenProperties DEF LoopType

(* A pattern matches when all of it takes all of the text, from either end.*)
LEMMA Whole ==
    ASSUME LoopType
    PROVE  /\ WildcardMatch(pattern, text) <=> Left(1, 1)
           /\ WildcardMatch(pattern, text) <=> Taken(Len(pattern) + 1, Len(text) + 1)
  <1> DEFINE n == Len(pattern)
  <1>1. n \in Nat /\ DOMAIN pattern = 1 .. n
    BY Lengths
  <1>2. (n + 1) - 1 = n
    BY <1>1
  <1> QED
    BY <1>1, <1>2 DEF WildcardMatch, Left, Taken

(* One more byte of the pattern at the end of what is taken.               *)
LEMMA TakeOne ==
    ASSUME LoopType, NEW i \in 1 .. Len(pattern), NEW a, NEW b \in 1 .. Len(text) + 1,
           Taken(i, a), Takes(pattern[i], text, a, b)
    PROVE  Taken(i + 1, b)
  <1>1. Len(pattern) \in Nat /\ Len(text) \in Nat
    BY Lengths
  <1>2. PICK cut \in [1 .. i -> 1 .. Len(text) + 1] :
          /\ cut[1] = 1 /\ cut[i] = a
          /\ \A k \in 1 .. i - 1 : Takes(pattern[k], text, cut[k], cut[k + 1])
    BY DEF Taken
  <1> DEFINE more == [k \in 1 .. i + 1 |-> IF k <= i THEN cut[k] ELSE b]
  <1>3. more \in [1 .. i + 1 -> 1 .. Len(text) + 1] /\ more[1] = 1 /\ more[i + 1] = b
    BY <1>1, <1>2
  <1>4. \A k \in 1 .. i : more[k] = cut[k]
    BY <1>1
  <1> HIDE DEF more
  <1>5. ASSUME NEW k \in 1 .. (i + 1) - 1 PROVE Takes(pattern[k], text, more[k], more[k + 1])
    <2>1. CASE k = i
      BY <2>1, <1>2, <1>3, <1>4
    <2>2. CASE k # i
      <3>1. k \in 1 .. i - 1 /\ k \in 1 .. i /\ k + 1 \in 1 .. i
        BY <2>2, <1>1
      <3> QED
        BY <3>1, <1>2, <1>4
    <2> QED
      BY <2>1, <2>2
  <1> QED
    BY <1>3, <1>5 DEF Taken

(* The next byte of what is left takes some of the text.                   *)
LEMMA LeaveOne ==
    ASSUME LoopType, NEW i \in 1 .. Len(pattern), NEW a, Left(i, a)
    PROVE  \E b \in 1 .. Len(text) + 1 : Takes(pattern[i], text, a, b) /\ Left(i + 1, b)
  <1>1. Len(pattern) \in Nat /\ Len(text) \in Nat
    BY Lengths
  <1>2. PICK cut \in [i .. Len(pattern) + 1 -> 1 .. Len(text) + 1] :
          /\ cut[i] = a /\ cut[Len(pattern) + 1] = Len(text) + 1
          /\ \A k \in i .. Len(pattern) : Takes(pattern[k], text, cut[k], cut[k + 1])
    BY DEF Left
  <1> DEFINE rest == [k \in i + 1 .. Len(pattern) + 1 |-> cut[k]]
  <1>3. /\ rest \in [i + 1 .. Len(pattern) + 1 -> 1 .. Len(text) + 1]
        /\ \A k \in i + 1 .. Len(pattern) + 1 : rest[k] = cut[k]
    BY <1>1
  <1> HIDE DEF rest
  <1>4. /\ i + 1 \in i + 1 .. Len(pattern) + 1
        /\ Len(pattern) + 1 \in i + 1 .. Len(pattern) + 1 /\ i \in i .. Len(pattern)
        /\ \A k \in i + 1 .. Len(pattern) : /\ k \in i .. Len(pattern)
                                            /\ k \in i + 1 .. Len(pattern) + 1
                                            /\ k + 1 \in i + 1 .. Len(pattern) + 1
    BY <1>1
  <1>5. Left(i + 1, cut[i + 1])
    <2>1. rest[i + 1] = cut[i + 1] /\ rest[Len(pattern) + 1] = Len(text) + 1
      BY <1>2, <1>3, <1>4
    <2>2. \A k \in i + 1 .. Len(pattern) : Takes(pattern[k], text, rest[k], rest[k + 1])
      BY <1>2, <1>3, <1>4
    <2> QED
      BY <2>1, <2>2, <1>3 DEF Left
  <1>6. cut[i + 1] \in 1 .. Len(text) + 1 /\ Takes(pattern[i], text, a, cut[i + 1])
    BY <1>2, <1>4, <1>3
  <1> QED
    BY <1>5, <1>6

LEMMA LeaveLiteral ==
    ASSUME LoopType, NEW i \in 1 .. Len(pattern), NEW a, Left(i, a), pattern[i] # "*"
    PROVE  a <= Len(text) /\ text[a] = pattern[i] /\ Left(i + 1, a + 1)
  BY LeaveOne DEF Takes

LEMMA LeaveStar ==
    ASSUME LoopType, NEW i \in 1 .. Len(pattern), NEW a, Left(i, a), pattern[i] = "*"
    PROVE  \E b \in 1 .. Len(text) + 1 : a <= b /\ Left(i + 1, b)
  BY LeaveOne DEF Takes

LEMMA LeaveNone ==
    ASSUME LoopType, NEW a, Left(Len(pattern) + 1, a)
    PROVE  a = Len(text) + 1
  BY DEF Left

LEMMA LeftPosition ==
    ASSUME LoopType, NEW i \in 1 .. Len(pattern) + 1, NEW a, Left(i, a)
    PROVE  a \in 1 .. Len(text) + 1
  <1>1. i \in i .. Len(pattern) + 1
    BY Lengths
  <1> QED
    BY <1>1 DEF Left

LEMMA Same ==
    ASSUME UNCHANGED <<pattern, text>>
    PROVE  /\ \A i, a : (Taken(i, a)' <=> Taken(i, a)) /\ (Left(i, a)' <=> Left(i, a))
           /\ WildcardMatch(pattern, text)' <=> WildcardMatch(pattern, text)
  BY DEF Taken, Left, WildcardMatch, Takes

(* The fields of the loop.                                                 *)
LEMMA LoopFields ==
    ASSUME LoopType
    PROVE  /\ loop.p \in 1 .. Len(pattern) + 1 /\ loop.t \in 1 .. Len(text) + 1
           /\ loop.star \in 0 .. Len(pattern) /\ loop.starText \in 1 .. Len(text) + 1
           /\ loop.p \in Nat /\ loop.t \in Nat /\ loop.star \in Nat /\ loop.starText \in Nat
           /\ loop.failed \in BOOLEAN
  <1>1. Len(pattern) \in Nat /\ Len(text) \in Nat
    BY Lengths
  <1> QED
    BY <1>1 DEF LoopType

(* What is left when a turn meets neither a star nor the byte it needs.    *)
LEMMA Mismatch ==
    ASSUME LoopType, loop.t <= Len(text), ~AtStar,
           ~(loop.p <= Len(pattern) /\ pattern[loop.p] = text[loop.t])
    PROVE  ~Left(loop.p, loop.t)
  <1> SUFFICES ASSUME Left(loop.p, loop.t) PROVE FALSE
    OBVIOUS
  <1>1. /\ Len(pattern) \in Nat /\ Len(text) \in Nat
        /\ loop.p \in 1 .. Len(pattern) + 1 /\ loop.t \in Nat
    BY Lengths, LoopFields
  <1>2. CASE loop.p <= Len(pattern)
    <2>1. loop.p \in 1 .. Len(pattern) /\ pattern[loop.p] # "*"
      BY <1>1, <1>2 DEF AtStar
    <2> QED
      BY <1>2, <2>1, LeaveLiteral
  <1>3. CASE ~(loop.p <= Len(pattern))
    <2>1. loop.p = Len(pattern) + 1
      BY <1>1, <1>3
    <2>2. loop.t = Len(text) + 1
      BY <2>1, LeaveNone
    <2> QED
      BY <1>1, <2>2
  <1> QED
    BY <1>2, <1>3

(* When the text is at its end, what was not given up is left at the       *)
(* cursor.                                                                 *)
LEMMA AtEnd ==
    ASSUME LoopType, LeftInv, answer = "none", Left(1, 1), loop.t = Len(text) + 1
    PROVE  Left(loop.p, loop.t)
  <1>1. /\ Len(pattern) \in Nat /\ Len(text) \in Nat
        /\ loop.p \in 1 .. Len(pattern) + 1 /\ loop.t \in Nat
        /\ loop.star \in Nat /\ loop.starText \in Nat
    BY Lengths, LoopFields
  <1>2. CASE loop.star # 0 /\ Abreast
    <2> DEFINE d == loop.p - loop.star - 1
    <2>1. PICK a \in loop.starText .. Len(text) + 1 : Left(loop.star + 1, a)
      BY <1>2 DEF Abreast
    <2>2. Left(loop.p, a + d) /\ loop.t - loop.starText = d
      BY <1>2, <2>1 DEF Abreast
    <2>3. a + d \in 1 .. Len(text) + 1
      BY <1>1, <2>2, LeftPosition
    <2>4. a \in Int /\ d \in Int /\ a >= loop.starText
      BY <1>1, <2>1
    <2> HIDE DEF d
    <2>5. a + d = loop.t
      BY <1>1, <2>2, <2>3, <2>4
    <2> QED
      BY <2>2, <2>5
  <1> QED
    BY <1>2 DEF LeftInv

(* A turn meets a star: it becomes the one to come back to.                *)
LEMMA StarKeeps ==
    ASSUME LoopInv, MatchNext, Turn, AtStar
    PROVE  LoopInv'
  <1>0. PICK p, t : p = loop.p /\ t = loop.t
    OBVIOUS
  <1>1. /\ LoopType /\ TakenInv /\ LeftInv /\ LoopMeans /\ answer = "none" /\ ~loop.failed
        /\ t <= Len(text) /\ p <= Len(pattern) /\ pattern[p] = "*"
    BY <1>0 DEF LoopInv, LoopType, Turn, AtStar
  <1>2. /\ Len(pattern) \in Nat /\ Len(text) \in Nat
        /\ p \in 1 .. Len(pattern) + 1 /\ t \in 1 .. Len(text) + 1 /\ p \in Nat /\ t \in Nat
        /\ loop.star \in Nat /\ loop.starText \in Nat
    BY <1>0, <1>1, Lengths, LoopFields
  <1>3. p \in 1 .. Len(pattern) /\ p + 1 \in 1 .. Len(pattern) + 1 /\ p \in 0 .. Len(pattern)
    BY <1>1, <1>2
  <1>4. loop' = [loop EXCEPT !.star = p, !.starText = t, !.p = @ + 1]
    BY <1>0, <1>1 DEF Turn, Advance
  <1>5. UNCHANGED <<pattern, text>>
    BY DEF MatchNext
  <1>6. /\ loop' \in [p : 1 .. Len(pattern) + 1, t : 1 .. Len(text) + 1,
                      star : 0 .. Len(pattern), starText : 1 .. Len(text) + 1, failed : BOOLEAN]
        /\ loop'.star = p /\ loop'.starText = t /\ loop'.p = p + 1 /\ loop'.t = t
        /\ loop'.failed = FALSE
    BY <1>0, <1>1, <1>2, <1>3, <1>4 DEF LoopType
  <1>7. answer' = "none"
    BY <1>6 DEF Turn
  <1>8. LoopType'
    BY <1>0, <1>1, <1>2, <1>5, <1>6, <1>7 DEF LoopType
  <1>9. TakenInv'
    <2>1. Taken(p, t)
      BY <1>0, <1>1 DEF TakenInv
    <2>2. Takes(pattern[p], text, t, t)
      BY <1>1, <1>2 DEF Takes
    <2>3. Taken(p + 1, t)
      BY <1>1, <1>2, <1>3, <2>1, <2>2, TakeOne
    <2>4. t \in 1 .. t
      BY <1>2
    <2>5. Taken(p + 1, t)' /\ Taken(p, t)'
      BY <1>5, <2>1, <2>3, Same
    <2> QED
      BY <1>6, <2>4, <2>5 DEF TakenInv
  <1>10. LeftInv'
    <2> SUFFICES ASSUME Left(1, 1) PROVE loop'.star # 0 /\ Abreast'
      BY <1>5, Same DEF LeftInv
    <2>1. \E b \in t .. Len(text) + 1 : Left(p + 1, b)
      <3>1. CASE loop.star = 0 /\ Left(p, t)
        <4>1. PICK b \in 1 .. Len(text) + 1 : t <= b /\ Left(p + 1, b)
          BY <1>1, <1>3, <3>1, LeaveStar
        <4> QED
          BY <1>2, <4>1
      <3>2. CASE loop.star # 0 /\ Abreast
        <4> DEFINE d == p - loop.star - 1
        <4>1. PICK a \in loop.starText .. Len(text) + 1 : Left(loop.star + 1, a)
          BY <3>2 DEF Abreast
        <4>2. Left(p, a + d) /\ t - loop.starText = d
          BY <1>0, <3>2, <4>1 DEF Abreast
        <4>3. a \in Int /\ d \in Int /\ a >= loop.starText
          BY <1>2, <4>1
        <4>4. PICK b \in 1 .. Len(text) + 1 : a + d <= b /\ Left(p + 1, b)
          BY <1>1, <1>3, <4>2, LeaveStar
        <4> HIDE DEF d
        <4>5. b >= t
          BY <1>2, <4>2, <4>3, <4>4
        <4> QED
          BY <1>2, <4>4, <4>5
      <3>3. t # Len(text) + 1
        BY <1>1, <1>2
      <3> QED
        BY <1>0, <1>1, <3>1, <3>2, <3>3 DEF LeftInv
    <2>2. loop'.p - loop'.star - 1 = 0 /\ loop'.t - loop'.starText = 0 /\ loop'.star # 0
      BY <1>2, <1>3, <1>6
    <2>3. \A a \in t .. Len(text) + 1 : a + 0 = a
      BY <1>2
    <2>4. \A i, a : Left(i, a)' <=> Left(i, a)
      BY <1>5, Same
    <2>5. Abreast'
      BY <1>5, <1>6, <2>1, <2>2, <2>3, <2>4 DEF Abreast
    <2> QED
      BY <2>2, <2>5
  <1>11. LoopMeans'
    BY <1>7 DEF LoopMeans
  <1> QED
    BY <1>8, <1>9, <1>10, <1>11 DEF LoopInv

(* A turn finds the byte it needs.                                         *)
LEMMA EqualKeeps ==
    ASSUME LoopInv, MatchNext, Turn, ~AtStar,
           loop.p <= Len(pattern), pattern[loop.p] = text[loop.t]
    PROVE  LoopInv'
  <1>0. PICK p, t : p = loop.p /\ t = loop.t
    OBVIOUS
  <1>1. /\ LoopType /\ TakenInv /\ LeftInv /\ LoopMeans /\ answer = "none" /\ ~loop.failed
        /\ t <= Len(text) /\ p <= Len(pattern) /\ pattern[p] # "*" /\ pattern[p] = text[t]
    BY <1>0 DEF LoopInv, LoopType, Turn, AtStar
  <1>2. /\ Len(pattern) \in Nat /\ Len(text) \in Nat
        /\ p \in 1 .. Len(pattern) + 1 /\ t \in 1 .. Len(text) + 1 /\ p \in Nat /\ t \in Nat
        /\ loop.star \in Nat /\ loop.starText \in Nat
    BY <1>0, <1>1, Lengths, LoopFields
  <1>3. /\ p \in 1 .. Len(pattern) /\ p + 1 \in 1 .. Len(pattern) + 1
        /\ t + 1 \in 1 .. Len(text) + 1
    BY <1>1, <1>2
  <1>4. loop' = [loop EXCEPT !.p = @ + 1, !.t = @ + 1]
    BY <1>0, <1>1 DEF Turn, Advance
  <1>5. UNCHANGED <<pattern, text>>
    BY DEF MatchNext
  <1>6. /\ loop' \in [p : 1 .. Len(pattern) + 1, t : 1 .. Len(text) + 1,
                      star : 0 .. Len(pattern), starText : 1 .. Len(text) + 1, failed : BOOLEAN]
        /\ loop'.star = loop.star /\ loop'.starText = loop.starText
        /\ loop'.p = p + 1 /\ loop'.t = t + 1 /\ loop'.failed = FALSE
    BY <1>0, <1>1, <1>3, <1>4 DEF LoopType
  <1>7. answer' = "none"
    BY <1>6 DEF Turn
  <1>8. LoopType'
    <2>1. loop.star # 0 => /\ loop.star < loop.p /\ loop.starText <= loop.t
                           /\ pattern[loop.star] = "*"
      BY <1>1 DEF LoopType
    <2>2. loop.star # 0 => loop.star < p + 1 /\ loop.starText <= t + 1
      BY <1>0, <1>2, <2>1
    <2> QED
      BY <1>1, <1>5, <1>6, <1>7, <2>1, <2>2 DEF LoopType
  <1>9. TakenInv'
    <2>1. /\ Taken(p, t)
          /\ loop.star # 0 => \E a \in 1 .. loop.starText : Taken(loop.star, a)
      BY <1>0, <1>1 DEF TakenInv
    <2>2. Takes(pattern[p], text, t, t + 1)
      BY <1>1 DEF Takes
    <2>3. Taken(p + 1, t + 1)
      BY <1>1, <1>3, <2>1, <2>2, TakeOne
    <2> QED
      BY <1>5, <1>6, <2>1, <2>3, Same DEF TakenInv
  <1>10. LeftInv'
    <2> SUFFICES ASSUME Left(1, 1)
                 PROVE  \/ loop'.star = 0 /\ Left(p + 1, t + 1)
                        \/ loop'.star # 0 /\ Abreast'
      BY <1>5, <1>6, Same DEF LeftInv
    <2>1. CASE loop.star = 0 /\ Left(p, t)
      BY <1>1, <1>3, <1>6, <2>1, LeaveLiteral
    <2>2. CASE loop.star # 0 /\ Abreast
      <3> DEFINE d == p - loop.star - 1
      <3>1. /\ t - loop.starText = d
            /\ \E a \in loop.starText .. Len(text) + 1 : Left(loop.star + 1, a)
            /\ \A a \in loop.starText .. Len(text) + 1 :
                  Left(loop.star + 1, a) => Left(p, a + d)
        BY <1>0, <2>2 DEF Abreast
      <3>2. /\ d \in Int /\ loop'.p - loop'.star - 1 = d + 1
            /\ loop'.t - loop'.starText = d + 1
        <4>1. /\ loop'.p = p + 1 /\ loop'.t = t + 1 /\ loop'.star = loop.star
              /\ loop'.starText = loop.starText
          BY <1>6
        <4>2. /\ p - loop.star - 1 \in Int
              /\ (p + 1) - loop.star - 1 = (p - loop.star - 1) + 1
              /\ (t + 1) - loop.starText = (t - loop.starText) + 1
          BY <1>2
        <4> QED
          BY <3>1, <4>1, <4>2
      <3> HIDE DEF d
      <3>3. ASSUME NEW a \in loop.starText .. Len(text) + 1, Left(loop.star + 1, a)
            PROVE  Left(p + 1, a + (d + 1))
        <4>1. Left(p + 1, (a + d) + 1)
          BY <1>1, <1>3, <3>1, <3>3, LeaveLiteral
        <4>2. (a + d) + 1 = a + (d + 1)
          BY <1>2, <3>2
        <4> QED
          BY <4>1, <4>2
      <3>4. \A i, a : Left(i, a)' <=> Left(i, a)
        BY <1>5, Same
      <3>5. Abreast'
        BY <1>5, <1>6, <3>1, <3>2, <3>3, <3>4 DEF Abreast
      <3> QED
        BY <1>6, <2>2, <3>5
    <2>3. t # Len(text) + 1
      BY <1>1, <1>2
    <2> QED
      BY <1>0, <1>1, <2>1, <2>2, <2>3 DEF LeftInv
  <1>11. LoopMeans'
    BY <1>7 DEF LoopMeans
  <1> QED
    BY <1>8, <1>9, <1>10, <1>11 DEF LoopInv

(* A turn goes back to the last star, which takes one byte more.           *)
LEMMA BackKeeps ==
    ASSUME LoopInv, MatchNext, Turn, ~AtStar, loop.star # 0,
           ~(loop.p <= Len(pattern) /\ pattern[loop.p] = text[loop.t])
    PROVE  LoopInv'
  <1>0. PICK s, u : s = loop.star /\ u = loop.starText
    OBVIOUS
  <1>1. /\ LoopType /\ TakenInv /\ LeftInv /\ LoopMeans /\ answer = "none" /\ ~loop.failed
        /\ loop.t <= Len(text) /\ s # 0 /\ pattern[s] = "*" /\ u <= loop.t
    BY <1>0 DEF LoopInv, LoopType, Turn
  <1>2. /\ Len(pattern) \in Nat /\ Len(text) \in Nat /\ loop.p \in Nat /\ loop.t \in Nat
        /\ s \in 0 .. Len(pattern) /\ s \in Nat
        /\ u \in 1 .. Len(text) + 1 /\ u \in Nat
    BY <1>0, <1>1, Lengths, LoopFields
  <1>3. /\ s \in 1 .. Len(pattern) /\ s + 1 \in 1 .. Len(pattern) + 1
        /\ u + 1 \in 1 .. Len(text) + 1
    BY <1>1, <1>2
  <1>4. loop' = [loop EXCEPT !.p = s + 1, !.starText = @ + 1, !.t = u + 1]
    BY <1>0, <1>1 DEF Turn, Advance, AtStar
  <1>5. UNCHANGED <<pattern, text>>
    BY DEF MatchNext
  <1>6. /\ loop' \in [p : 1 .. Len(pattern) + 1, t : 1 .. Len(text) + 1,
                      star : 0 .. Len(pattern), starText : 1 .. Len(text) + 1, failed : BOOLEAN]
        /\ loop'.star = s /\ loop'.starText = u + 1
        /\ loop'.p = s + 1 /\ loop'.t = u + 1 /\ loop'.failed = FALSE
    BY <1>0, <1>1, <1>2, <1>3, <1>4 DEF LoopType
  <1>7. answer' = "none"
    BY <1>6 DEF Turn
  <1>8. LoopType'
    <2>1. s < s + 1 /\ u + 1 <= u + 1
      BY <1>2
    <2> QED
      BY <1>1, <1>5, <1>6, <1>7, <2>1 DEF LoopType
  <1>9. TakenInv'
    <2>1. PICK a \in 1 .. u : Taken(s, a)
      BY <1>0, <1>1 DEF TakenInv
    <2>2. a <= u + 1 /\ a \in 1 .. u + 1
      BY <1>2
    <2>3. Takes(pattern[s], text, a, u + 1)
      BY <1>1, <2>2 DEF Takes
    <2>4. Taken(s + 1, u + 1)
      BY <1>1, <1>3, <2>1, <2>3, TakeOne
    <2> QED
      BY <1>5, <1>6, <2>1, <2>2, <2>4, Same DEF TakenInv
  <1>10. LeftInv'
    <2> SUFFICES ASSUME Left(1, 1) PROVE Abreast'
      BY <1>1, <1>5, <1>6, Same DEF LeftInv
    <2>1. ~Left(loop.p, loop.t)
      BY <1>1, Mismatch
    <2>2. Abreast
      BY <1>0, <1>1, <2>1 DEF LeftInv
    <2>3. ~Left(s + 1, u)
      <3> DEFINE d == loop.p - s - 1
      <3>1. Left(s + 1, u) => Left(loop.p, u + d)
        BY <1>0, <1>2, <2>2 DEF Abreast
      <3>2. loop.t - u = d
        BY <1>0, <2>2 DEF Abreast
      <3>3. u + d = loop.t
        BY <1>2, <3>2
      <3> QED
        BY <2>1, <3>1, <3>3
    <2>4. PICK a \in u .. Len(text) + 1 : Left(s + 1, a)
      BY <1>0, <2>2 DEF Abreast
    <2>5. a # u
      BY <2>3, <2>4
    <2>6. a \in u + 1 .. Len(text) + 1
      BY <1>2, <2>4, <2>5
    <2>7. (s + 1) - s - 1 = 0 /\ (u + 1) - (u + 1) = 0
      BY <1>2
    <2>8. \A b \in u + 1 .. Len(text) + 1 : b + 0 = b
      BY <1>2
    <2>9. \A i, b : Left(i, b)' <=> Left(i, b)
      BY <1>5, Same
    <2> QED
      BY <1>5, <1>6, <2>4, <2>6, <2>7, <2>8, <2>9 DEF Abreast
  <1>11. LoopMeans'
    BY <1>7 DEF LoopMeans
  <1> QED
    BY <1>8, <1>9, <1>10, <1>11 DEF LoopInv

(* A turn that has no star to go back to answers no, and rightly.          *)
LEMMA FailKeeps ==
    ASSUME LoopInv, MatchNext, Turn, ~AtStar, loop.star = 0,
           ~(loop.p <= Len(pattern) /\ pattern[loop.p] = text[loop.t])
    PROVE  LoopInv'
  <1>1. /\ LoopType /\ LeftInv /\ answer = "none" /\ loop.t <= Len(text)
    BY DEF LoopInv, Turn
  <1>2. Len(text) \in Nat /\ loop.t \in Nat
    BY <1>1, Lengths, LoopFields
  <1>3. loop' = [loop EXCEPT !.failed = TRUE] /\ UNCHANGED <<pattern, text>>
    BY <1>1 DEF Turn, Advance, AtStar, MatchNext
  <1>4. /\ loop' \in [p : 1 .. Len(pattern) + 1, t : 1 .. Len(text) + 1,
                      star : 0 .. Len(pattern), starText : 1 .. Len(text) + 1, failed : BOOLEAN]
        /\ loop'.failed = TRUE /\ loop'.star = 0
    BY <1>1, <1>3 DEF LoopType
  <1>5. answer' = "no"
    BY <1>4 DEF Turn
  <1>6. LoopType'
    BY <1>1, <1>3, <1>4, <1>5 DEF LoopType
  <1>7. ~Left(1, 1)
    <2>1. ~Left(loop.p, loop.t) /\ loop.t # Len(text) + 1
      BY <1>1, <1>2, Mismatch
    <2> QED
      BY <1>1, <2>1 DEF LeftInv
  <1>8. ~WildcardMatch(pattern, text)'
    BY <1>1, <1>3, <1>7, Whole, Same
  <1> QED
    BY <1>5, <1>6, <1>8 DEF LoopInv, TakenInv, LeftInv, LoopMeans

(* Past the text's end a star takes nothing.                               *)
LEMMA SkipKeeps ==
    ASSUME LoopInv, MatchNext, SkipStar
    PROVE  LoopInv'
  <1>0. PICK p, t : p = loop.p /\ t = loop.t
    OBVIOUS
  <1>1. /\ LoopType /\ TakenInv /\ LeftInv /\ LoopMeans /\ answer = "none" /\ ~loop.failed
        /\ t > Len(text) /\ p <= Len(pattern) /\ pattern[p] = "*"
    BY <1>0 DEF LoopInv, LoopType, SkipStar, AtStar
  <1>2. /\ Len(pattern) \in Nat /\ Len(text) \in Nat
        /\ p \in 1 .. Len(pattern) + 1 /\ t \in 1 .. Len(text) + 1 /\ p \in Nat /\ t \in Nat
        /\ loop.star \in Nat
    BY <1>0, <1>1, Lengths, LoopFields
  <1>3. p \in 1 .. Len(pattern) /\ p + 1 \in 1 .. Len(pattern) + 1 /\ t = Len(text) + 1
    BY <1>1, <1>2
  <1>4. loop' = [loop EXCEPT !.p = @ + 1] /\ answer' = answer /\ UNCHANGED <<pattern, text>>
    BY DEF SkipStar, MatchNext
  <1>5. /\ loop' \in [p : 1 .. Len(pattern) + 1, t : 1 .. Len(text) + 1,
                      star : 0 .. Len(pattern), starText : 1 .. Len(text) + 1, failed : BOOLEAN]
        /\ loop'.star = loop.star /\ loop'.starText = loop.starText
        /\ loop'.p = p + 1 /\ loop'.t = t /\ loop'.failed = FALSE
    BY <1>0, <1>1, <1>3, <1>4 DEF LoopType
  <1>6. LoopType'
    <2>1. loop.star # 0 => /\ loop.star < p /\ loop.starText <= t
                           /\ pattern[loop.star] = "*"
      BY <1>0, <1>1 DEF LoopType
    <2>2. loop.star # 0 => loop.star < p + 1
      BY <1>2, <2>1
    <2> QED
      BY <1>1, <1>4, <1>5, <2>1, <2>2 DEF LoopType
  <1>7. TakenInv'
    <2>1. /\ Taken(p, t)
          /\ loop.star # 0 => \E a \in 1 .. loop.starText : Taken(loop.star, a)
      BY <1>0, <1>1 DEF TakenInv
    <2>2. Takes(pattern[p], text, t, t)
      BY <1>1, <1>2 DEF Takes
    <2>3. Taken(p + 1, t)
      BY <1>1, <1>2, <1>3, <2>1, <2>2, TakeOne
    <2> QED
      BY <1>4, <1>5, <2>1, <2>3, Same DEF TakenInv
  <1>8. LeftInv'
    <2> SUFFICES ASSUME Left(1, 1) PROVE Left(p + 1, t)
      BY <1>3, <1>4, <1>5, Same DEF LeftInv
    <2>1. Left(p, t)
      BY <1>0, <1>1, <1>3, AtEnd
    <2>2. PICK b \in 1 .. Len(text) + 1 : t <= b /\ Left(p + 1, b)
      BY <1>1, <1>3, <2>1, LeaveStar
    <2>3. b = t
      BY <1>2, <1>3, <2>2
    <2> QED
      BY <2>2, <2>3
  <1>9. LoopMeans'
    BY <1>1, <1>4 DEF LoopMeans
  <1> QED
    BY <1>6, <1>7, <1>8, <1>9 DEF LoopInv

(* The loop returns: the whole pattern took the whole text, or a byte of   *)
(* it has nothing left to take.                                            *)
LEMMA ReturnKeeps ==
    ASSUME LoopInv, MatchNext, Return
    PROVE  LoopInv'
  <1>1. /\ LoopType /\ TakenInv /\ LeftInv /\ answer = "none"
        /\ loop.t > Len(text) /\ UNCHANGED <<pattern, text, loop>>
        /\ answer' = IF loop.p > Len(pattern) THEN "yes" ELSE "no"
    BY DEF LoopInv, Return, MatchNext
  <1>2. /\ Len(pattern) \in Nat /\ Len(text) \in Nat
        /\ loop.p \in 1 .. Len(pattern) + 1 /\ loop.t \in 1 .. Len(text) + 1
    BY <1>1, Lengths, LoopFields
  <1>3. loop.t = Len(text) + 1
    BY <1>1, <1>2
  <1>4. LoopType'
    BY <1>1 DEF LoopType
  <1>5. ASSUME loop.p > Len(pattern) PROVE WildcardMatch(pattern, text)
    <2>1. loop.p = Len(pattern) + 1
      BY <1>2, <1>5
    <2> QED
      BY <1>1, <1>3, <2>1, Whole DEF TakenInv
  <1>6. ASSUME ~(loop.p > Len(pattern)), WildcardMatch(pattern, text) PROVE FALSE
    <2>1. loop.p \in 1 .. Len(pattern) /\ pattern[loop.p] # "*"
      BY <1>1, <1>2, <1>6 DEF Return, AtStar
    <2>2. Left(loop.p, loop.t)
      BY <1>1, <1>3, <1>6, Whole, AtEnd
    <2>3. loop.t <= Len(text)
      BY <1>1, <2>1, <2>2, LeaveLiteral
    <2> QED
      BY <1>2, <1>3, <2>3
  <1>7. LoopMeans'
    BY <1>1, <1>5, <1>6, Same DEF LoopMeans
  <1> QED
    BY <1>1, <1>4, <1>7 DEF LoopInv, TakenInv, LeftInv

LEMMA LoopBegins == InputsAreBytes /\ MatchInit => LoopInv
  <1> SUFFICES ASSUME InputsAreBytes, MatchInit PROVE LoopInv
    OBVIOUS
  <1>1. /\ pattern \in Seq(Bytes) /\ text \in Seq(Bytes) /\ answer = "none"
        /\ loop = [p |-> 1, t |-> 1, star |-> 0, starText |-> 1, failed |-> FALSE]
    BY DEF InputsAreBytes, MatchInit, Start
  <1>2. Len(pattern) \in Nat /\ Len(text) \in Nat
    BY <1>1, LenProperties
  <1>3. LoopType
    BY <1>1, <1>2 DEF LoopType
  <1>4. Taken(1, 1)
    <2> DEFINE cut == [k \in 1 .. 1 |-> 1]
    <2>1. cut \in [1 .. 1 -> 1 .. Len(text) + 1] /\ cut[1] = 1
      BY <1>2
    <2>2. \A k \in 1 .. 1 - 1 : FALSE
      OBVIOUS
    <2> HIDE DEF cut
    <2> QED
      BY <2>1, <2>2 DEF Taken
  <1> QED
    BY <1>1, <1>3, <1>4 DEF LoopInv, TakenInv, LeftInv, LoopMeans

LEMMA LoopStep == LoopInv /\ [MatchNext]_matchVars => LoopInv'
  <1> SUFFICES ASSUME LoopInv, [MatchNext]_matchVars PROVE LoopInv'
    OBVIOUS
  <1>1. CASE MatchNext /\ Turn
    BY <1>1, StarKeeps, EqualKeeps, BackKeeps, FailKeeps
  <1>2. CASE MatchNext /\ SkipStar
    BY <1>2, SkipKeeps
  <1>3. CASE MatchNext /\ Return
    BY <1>3, ReturnKeeps
  <1>4. CASE UNCHANGED matchVars
    <2>1. UNCHANGED <<pattern, text, loop, answer>>
      BY <1>4 DEF matchVars
    <2>2. LoopType'
      BY <2>1 DEF LoopInv, LoopType
    <2>3. TakenInv'
      BY <2>1, Same DEF LoopInv, TakenInv
    <2>4. LeftInv'
      BY <2>1, Same DEF LoopInv, LeftInv, Abreast
    <2>5. LoopMeans'
      BY <2>1, Same DEF LoopInv, LoopMeans
    <2> QED
      BY <2>2, <2>3, <2>4, <2>5 DEF LoopInv
  <1> QED
    BY <1>1, <1>2, <1>3, <1>4 DEF MatchNext

(* The invariant of wildcard_match: what was taken is a way to take it,    *)
(* and no way to take the whole text was given up.                         *)
THEOREM LoopInductive == ASSUME InputsAreBytes PROVE MatchSpec => []LoopInv
  <1>1. MatchInit => LoopInv
    BY LoopBegins
  <1>2. LoopInv /\ [MatchNext]_matchVars => LoopInv'
    BY LoopStep
  <1> QED
    BY <1>1, <1>2, PTL DEF MatchSpec

(* Coming back only to the last star is enough: what wildcard_match        *)
(* answers is what the pattern means, for every pattern and every text.    *)
THEOREM LoopDecides == ASSUME InputsAreBytes PROVE MatchSpec => []LoopMeans
  <1>1. LoopInv => LoopMeans
    BY DEF LoopInv
  <1> QED
    BY <1>1, LoopInductive, PTL

(* The last star, what it takes and the pattern's cursor are within the    *)
(* pattern and the text, and every turn moves one of them on: the loop     *)
(* ends on every pattern and text (pattern.rs, wildcard_match).            *)
THEOREM LoopEnds == ASSUME InputsAreBytes PROVE MatchSpec => LoopAdvances
  <1>1. LoopInv /\ [MatchNext]_matchVars =>
          [\/ answer' # "none"
           \/ loop'.star > loop.star
           \/ /\ loop'.star = loop.star
              /\ \/ loop'.starText > loop.starText
                 \/ loop'.starText = loop.starText /\ loop'.p > loop.p]_<<loop, answer>>
    <2> SUFFICES ASSUME LoopInv, MatchNext, answer' = "none"
                 PROVE  \/ loop'.star > loop.star
                        \/ /\ loop'.star = loop.star
                           /\ \/ loop'.starText > loop.starText
                              \/ loop'.starText = loop.starText /\ loop'.p > loop.p
      BY DEF matchVars
    <2>1. /\ loop.p \in Nat /\ loop.star \in Nat /\ loop.starText \in Nat
          /\ loop.star # 0 => loop.star < loop.p
          /\ loop.p >= 1
          /\ loop \in [p : 1 .. Len(pattern) + 1, t : 1 .. Len(text) + 1,
                       star : 0 .. Len(pattern), starText : 1 .. Len(text) + 1,
                       failed : BOOLEAN]
      BY LoopFields, Lengths DEF LoopInv, LoopType
    <2>2. loop' # [loop EXCEPT !.failed = TRUE] \/ ~Turn
      BY <2>1 DEF Turn
    <2>3. CASE loop' = [loop EXCEPT !.star = loop.p, !.starText = loop.t, !.p = @ + 1]
      BY <2>1, <2>3
    <2>4. CASE loop' = [loop EXCEPT !.p = @ + 1, !.t = @ + 1]
      BY <2>1, <2>4
    <2>5. CASE loop' = [loop EXCEPT !.p = loop.star + 1, !.starText = @ + 1,
                                    !.t = loop.starText + 1]
      BY <2>1, <2>5
    <2>6. CASE loop' = [loop EXCEPT !.p = @ + 1]
      BY <2>1, <2>6
    <2> QED
      BY <2>2, <2>3, <2>4, <2>5, <2>6 DEF MatchNext, Turn, SkipStar, Return, Advance
  <1> QED
    BY <1>1, LoopInductive, PTL DEF MatchSpec, LoopAdvances
--------------------------------------------------------------------------------
(* What a policy file means.                                                *)

(* A set of naturals that is not empty has a least member.                 *)
Below == {pair \in Nat \X Nat : pair[1] < pair[2]}

LEMMA BelowFounded == IsWellFoundedOn(Below, Nat)
  BY NatLessThanWellFounded DEF OpToRel, Below

LEMMA Least ==
    ASSUME NEW S \in SUBSET Nat, S # {}
    PROVE  \E x \in S : \A y \in S : x <= y
  <1>1. PICK x \in S : \A y \in S : ~(<<y, x>> \in Below)
    BY WFMin, BelowFounded
  <1>2. \A y \in S : y \in Nat /\ x \in Nat
    OBVIOUS
  <1>3. \A y \in S : ~(y < x)
    BY <1>1, <1>2 DEF Below
  <1> QED
    BY <1>2, <1>3

LEMMA MinLeast ==
    ASSUME NEW S \in SUBSET Nat, S # {}
    PROVE  Min(S) \in S /\ \A y \in S : Min(S) <= y
  BY Least DEF Min

(* str::find: the first place of a byte.                                   *)
LEMMA FindFirst ==
    ASSUME NEW s \in Seq(Bytes), NEW b
    PROVE  /\ (\E i \in DOMAIN s : s[i] = b) =>
                  Find(s, b) # 0 /\ \A i \in DOMAIN s : s[i] = b => Find(s, b) <= i
           /\ Find(s, b) # 0 => Find(s, b) \in DOMAIN s /\ s[Find(s, b)] = b
  <1> DEFINE at == {i \in DOMAIN s : s[i] = b}
  <1>1. DOMAIN s = 1 .. Len(s) /\ Len(s) \in Nat
    BY LenProperties
  <1>2. at \in SUBSET Nat /\ 0 \notin at
    BY <1>1
  <1>3. Find(s, b) = IF at = {} THEN 0 ELSE Min(at)
    BY DEF Find
  <1>4. at # {} => Min(at) \in at /\ \A y \in at : Min(at) <= y
    BY <1>2, MinLeast
  <1>5. \A i : i \in at <=> i \in DOMAIN s /\ s[i] = b
    OBVIOUS
  <1> HIDE DEF at
  <1> QED
    BY <1>2, <1>3, <1>4, <1>5

(* What a byte takes lies before what a later byte takes.                  *)
LEMMA CutsAscend ==
    ASSUME NEW n \in Nat, NEW m \in Nat, NEW cut \in [1 .. n + 1 -> 1 .. m],
           \A k \in 1 .. n : cut[k] <= cut[k + 1],
           NEW i \in 1 .. n + 1, NEW j \in i .. n + 1
    PROVE  cut[i] <= cut[j]
  <1> SUFFICES ASSUME ~(cut[i] <= cut[j]) PROVE FALSE
    OBVIOUS
  <1> DEFINE S == {k \in i .. n + 1 : ~(cut[i] <= cut[k])}
  <1>1. PICK k \in S : \A y \in S : k <= y
    <2>1. S \in SUBSET Nat /\ j \in S
      OBVIOUS
    <2> HIDE DEF S
    <2> QED
      BY <2>1, Least
  <1>2. k \in i .. n + 1 /\ ~(cut[i] <= cut[k]) /\ k # i
    OBVIOUS
  <1>3. k - 1 \in i .. n + 1 /\ k - 1 \in 1 .. n /\ (k - 1) + 1 = k /\ ~(k <= k - 1)
    BY <1>2
  <1>4. cut[i] <= cut[k - 1]
    BY <1>1, <1>3
  <1>5. cut[k - 1] <= cut[k]
    BY <1>3
  <1>6. cut[i] \in Nat /\ cut[k - 1] \in Nat /\ cut[k] \in Nat
    BY <1>2, <1>3
  <1> QED
    BY <1>2, <1>4, <1>5, <1>6

(* A byte that is no star stands in the text where the pattern is cut, and *)
(* what comes later in the pattern comes later in the text.                *)
LEMMA CutsKeep ==
    ASSUME LoopType, WildcardMatch(pattern, text)
    PROVE  \E cut \in [1 .. Len(pattern) + 1 -> 1 .. Len(text) + 1] :
              /\ \A i \in DOMAIN pattern : pattern[i] # "*" =>
                    cut[i] \in DOMAIN text /\ text[cut[i]] = pattern[i]
              /\ \A i, j \in DOMAIN pattern :
                    pattern[i] # "*" /\ i < j => cut[i] < cut[j]
  <1>1. /\ Len(pattern) \in Nat /\ Len(text) \in Nat
        /\ DOMAIN pattern = 1 .. Len(pattern) /\ DOMAIN text = 1 .. Len(text)
    BY Lengths
  <1>2. PICK cut \in [1 .. Len(pattern) + 1 -> 1 .. Len(text) + 1] :
          \A i \in DOMAIN pattern : Takes(pattern[i], text, cut[i], cut[i + 1])
    BY DEF WildcardMatch
  <1>3. \A i \in 1 .. Len(pattern) :
            i \in 1 .. Len(pattern) + 1 /\ i + 1 \in 1 .. Len(pattern) + 1
    BY <1>1
  <1>4. \A i \in 1 .. Len(pattern) + 1 : cut[i] \in Nat /\ cut[i] >= 1
    BY <1>1, <1>2
  <1>5. \A i \in DOMAIN pattern : pattern[i] # "*" =>
            /\ cut[i] \in DOMAIN text /\ text[cut[i]] = pattern[i]
            /\ cut[i + 1] = cut[i] + 1
    BY <1>1, <1>2, <1>3, <1>4 DEF Takes
  <1>6. \A i \in 1 .. Len(pattern) : cut[i] <= cut[i + 1]
    BY <1>1, <1>2, <1>3, <1>4 DEF Takes
  <1>7. ASSUME NEW i \in DOMAIN pattern, NEW j \in DOMAIN pattern, pattern[i] # "*", i < j
        PROVE  cut[i] < cut[j]
    <2>1. i + 1 \in 1 .. Len(pattern) + 1 /\ j \in i + 1 .. Len(pattern) + 1
      BY <1>1, <1>7
    <2>2. Len(text) + 1 \in Nat
      BY <1>1
    <2>3. cut[i + 1] <= cut[j]
      BY <1>1, <1>2, <1>6, <2>1, <2>2, CutsAscend
    <2>4. cut[i] \in Nat /\ cut[i + 1] \in Nat /\ cut[j] \in Nat
      BY <1>1, <1>3, <1>4
    <2> QED
      BY <1>5, <1>7, <2>3, <2>4
  <1> QED
    BY <1>5, <1>7

LEMMA MatchAnchored ==
    ASSUME LoopType, WildcardMatch(pattern, text), Parses(pattern), AuthorityStar(pattern) # 0
    PROVE  LET scheme == Find(text, SchemeEnd)
           IN  scheme # 0 /\ \E i \in scheme + 1 .. Len(text) : text[i] = "/"
  <1> DEFINE scheme == Find(pattern, SchemeEnd)
             stars  == {i \in DOMAIN pattern : /\ i > scheme /\ pattern[i] = "*"
                                               /\ \A j \in scheme + 1 .. i : pattern[j] # "/"}
             star   == AuthorityStar(pattern)
             there  == Find(text, SchemeEnd)
  <1>1. /\ Len(pattern) \in Nat /\ Len(text) \in Nat
        /\ DOMAIN pattern = 1 .. Len(pattern) /\ DOMAIN text = 1 .. Len(text)
        /\ pattern \in Seq(Bytes) /\ text \in Seq(Bytes)
    BY Lengths DEF LoopType
  <1>2. scheme # 0 /\ stars # {} /\ star = Min(stars)
    BY DEF AuthorityStar
  <1>3. scheme \in DOMAIN pattern /\ pattern[scheme] = SchemeEnd
    BY <1>1, <1>2, FindFirst
  <1>4. star \in DOMAIN pattern /\ star > scheme
    <2>1. stars \in SUBSET Nat
      BY <1>1
    <2>2. Min(stars) \in stars
      BY <1>2, <2>1, MinLeast
    <2> QED
      BY <1>2, <2>2
  <1>5. PICK i \in DOMAIN pattern : i > star /\ pattern[i] = "/"
    BY DEF Parses, UnanchoredAuthorityWildcard
  <1>6. scheme < i /\ pattern[scheme] # "*" /\ pattern[i] # "*"
    BY <1>1, <1>3, <1>4, <1>5 DEF SchemeEnd
  <1> HIDE DEF scheme, star
  <1>7. PICK cut \in [1 .. Len(pattern) + 1 -> 1 .. Len(text) + 1] :
          /\ cut[scheme] \in DOMAIN text /\ text[cut[scheme]] = SchemeEnd
          /\ cut[i] \in DOMAIN text /\ text[cut[i]] = "/"
          /\ cut[scheme] < cut[i]
    BY <1>3, <1>5, <1>6, CutsKeep
  <1>8. there # 0 /\ there <= cut[scheme] /\ there \in DOMAIN text
    BY <1>1, <1>7, FindFirst
  <1> HIDE DEF there
  <1>9. cut[i] \in there + 1 .. Len(text)
    BY <1>1, <1>7, <1>8
  <1>10. there # 0 /\ \E at \in there + 1 .. Len(text) : text[at] = "/"
    BY <1>7, <1>8, <1>9
  <1> QED
    BY <1>10 DEF there

LEMMA FileMeans ==
    ASSUME ConfigAssumption, toml \in Files
    PROVE  FileSpeaks
  <1> DEFINE config  == Read(toml)
             ruleset == RuleSetOf(config)
             entries == DOMAIN config.rules
  <1> SUFFICES ASSUME Accepted(config) PROVE FileSpeaks
    BY DEF FileSpeaks
  <1>1. /\ entries \subseteq DOMAIN toml.rules /\ entries \in SUBSET Nat
        /\ \A i \in entries : /\ config.rules[i].class = Key(toml.rules[i], "class")
                              /\ config.rules[i].pattern = Key(toml.rules[i], "pattern")
                              /\ config.rules[i].verdict = Key(toml.rules[i], "verdict")
    <2>1. CASE "rules" \in toml.misspelled
      BY <2>1 DEF Read
    <2>2. CASE "rules" \notin toml.misspelled
      BY <2>2 DEF Read, ConfigAssumption
    <2> QED
      BY <2>1, <2>2
  <1> HIDE DEF config
  <1>2. /\ DOMAIN ruleset.rules = entries
        /\ \A i \in entries : /\ ruleset.rules[i].class = config.rules[i].class
                              /\ ruleset.rules[i].pattern = config.rules[i].pattern
                              /\ ruleset.rules[i].verdict = config.rules[i].verdict
    BY DEF RuleSetOf, RulePattern, Every
  <1>3. ruleset.timeout \in 1 .. MAX_APPROVAL_TIMEOUT_MS
    BY DEF RuleSetOf, Accepted, TimeoutParses, ConfigAssumption
  <1> HIDE DEF ruleset
  <1>4. \A i \in entries : /\ config.rules[i].verdict = toml.rules[i].verdict
                           /\ config.rules[i].pattern # Omitted => config.rules[i].pattern # <<>>
                           /\ config.rules[i].class = Omitted => config.rules[i].pattern # Omitted
    <2> SUFFICES ASSUME NEW i \in entries
                 PROVE  /\ config.rules[i].verdict = toml.rules[i].verdict
                        /\ config.rules[i].pattern # Omitted => config.rules[i].pattern # <<>>
                        /\ config.rules[i].class = Omitted => config.rules[i].pattern # Omitted
      OBVIOUS
    <2>1. EntryParses(config.rules[i])
      BY DEF Accepted
    <2>2. config.rules[i].verdict # Omitted
      BY <2>1 DEF EntryParses, ConfigAssumption
    <2>3. config.rules[i].verdict = toml.rules[i].verdict
      <3>1. config.rules[i].verdict = Key(toml.rules[i], "verdict")
        BY <1>1
      <3>2. Key(toml.rules[i], "verdict") \in {Omitted, toml.rules[i].verdict}
        BY DEF Key
      <3> QED
        BY <3>1, <3>2, <2>2
    <2>4. config.rules[i].pattern # Omitted => config.rules[i].pattern # <<>>
      BY <2>1 DEF EntryParses, Parses
    <2> QED
      BY <2>1, <2>3, <2>4 DEF EntryParses
  <1>5. ASSUME NEW class \in ClassNames, NEW url \in Texts
        PROVE  LET speaking == {i \in entries : Speaks(i, class, url)}
                   decided  == Evaluate(ruleset, class, url)
               IN  IF speaking = {} THEN decided = ruleset.default
                   ELSE \E i \in speaking : /\ decided = toml.rules[i].verdict
                                            /\ \A j \in speaking : i <= j
    <2> DEFINE speaking == {i \in entries : Speaks(i, class, url)}
               matching == {i \in DOMAIN ruleset.rules :
                              LET rule == ruleset.rules[i] IN
                              /\ rule.class \in {class, Every}
                              /\ rule.pattern = Every \/ WildcardMatch(rule.pattern, url)}
    <2>1. ASSUME NEW i \in entries
          PROVE  Speaks(i, class, url) <=>
                    /\ ruleset.rules[i].class \in {class, Every}
                    /\ ruleset.rules[i].pattern = Every
                       \/ WildcardMatch(ruleset.rules[i].pattern, url)
      <3>1. CASE "class" \in toml.rules[i].misspelled /\ "pattern" \in toml.rules[i].misspelled
        BY <1>1, <1>2, <1>4, <3>1 DEF Speaks, Every, Key
      <3>2. CASE "class" \in toml.rules[i].misspelled /\ "pattern" \notin toml.rules[i].misspelled
        BY <1>1, <1>2, <1>4, <3>2 DEF Speaks, Every, Key
      <3>3. CASE "class" \notin toml.rules[i].misspelled /\ "pattern" \in toml.rules[i].misspelled
        BY <1>1, <1>2, <1>4, <3>3 DEF Speaks, Every, Key
      <3>4. CASE "class" \notin toml.rules[i].misspelled /\ "pattern" \notin toml.rules[i].misspelled
        BY <1>1, <1>2, <1>4, <3>4 DEF Speaks, Every, Key
      <3> QED
        BY <3>1, <3>2, <3>3, <3>4
    <2>2. matching = speaking
      BY <1>2, <2>1
    <2>3. Evaluate(ruleset, class, url) =
            IF matching = {} THEN ruleset.default ELSE ruleset.rules[Min(matching)].verdict
      BY DEF Evaluate
    <2>4. speaking \in SUBSET Nat /\ speaking \subseteq entries
      BY <1>1
    <2> HIDE DEF speaking, matching
    <2>5. speaking # {} => Min(speaking) \in speaking /\ \A j \in speaking : Min(speaking) <= j
      BY <2>4, MinLeast
    <2>6. IF speaking = {} THEN Evaluate(ruleset, class, url) = ruleset.default
          ELSE \E i \in speaking : /\ Evaluate(ruleset, class, url) = toml.rules[i].verdict
                                   /\ \A j \in speaking : i <= j
      BY <1>2, <1>4, <2>2, <2>3, <2>4, <2>5
    <2> QED
      BY <2>6 DEF speaking
  <1> QED
    BY <1>3, <1>4, <1>5 DEF FileSpeaks, ruleset, config

(* For every set of files, patterns and texts: a file that is accepted     *)
(* decides by the first of its entries that speaks, the loop finds the     *)
(* matches there are, and a star stays inside the authority its pattern    *)
(* puts it in (config.rs, parse_policy; pattern.rs, Pattern::parse,        *)
(* Pattern::matches).                                                      *)
THEOREM PolicyDecides ==
    ASSUME InputsAreBytes, ConfigAssumption PROVE PolicySpec => []PolicyMeans
  <1> DEFINE PolicyInv == LoopInv /\ toml \in Files
  <1>1. PolicyInit => PolicyInv
    BY LoopBegins DEF PolicyInit
  <1>2. PolicyInv /\ [PolicyNext]_policyVars => PolicyInv'
    <2>1. [PolicyNext]_policyVars => [MatchNext]_matchVars /\ UNCHANGED toml
      BY DEF PolicyNext, policyVars
    <2> QED
      BY <2>1, LoopStep
  <1>3. PolicyInv => PolicyMeans
    <2> SUFFICES ASSUME PolicyInv PROVE PolicyMeans
      OBVIOUS
    <2>1. FileSpeaks
      BY FileMeans
    <2>2. LoopMeans /\ LoopType
      BY DEF LoopInv
    <2>3. Anchored
      BY <2>2, MatchAnchored DEF Anchored, LoopMeans
    <2> QED
      BY <2>1, <2>2, <2>3 DEF PolicyMeans
  <1> QED
    BY <1>1, <1>2, <1>3, PTL DEF PolicySpec
================================================================================
