-------------------------- MODULE SessionPagesProofs --------------------------
(***************************************************************************)
(* The pages of a session for any number of clients, tabs, engines and     *)
(* pages per engine: what each registry operation does to the list, what   *)
(* each step does (lemmas named ...Does), that every step keeps the        *)
(* inductive invariant (...Keeps), and the theorems on the list, its active*)
(* page, the feeds and the targets.  Then the observation feeds of one     *)
(* page id, and last the actions run against it.                           *)
(***************************************************************************)
EXTENDS SessionPages, PageFeeds, Executor, SequenceTheorems, WellFoundedInduction, TLAPS

-------------------------------------------------------------------------------
(* The page list: what each operation of the registry does to it. *)

RegSet == [slots : Seq(SlotSet), recovering : BOOLEAN]

Unique(s)   == \A i, j \in DOMAIN s : s[i].id = s[j].id => i = j
UniqueOn(s) == \A i, j \in DOMAIN s : s[i].id = s[j].id /\ s[i].ctx = s[j].ctx => i = j
OneAct(s)   == \A i, j \in DOMAIN s : s[i].active /\ s[j].active => i = j
SomeAct(s)  == \E i \in DOMAIN s : s[i].active
Has(s, id)  == \E i \in DOMAIN s : s[i].id = id
Occurs(s, id, e)      == \E i \in DOMAIN s : s[i].id = id /\ s[i].ctx = e
Tracks(s, id, tab, e) == \E i \in DOMAIN s : s[i].id = id /\ s[i].tab = tab /\ s[i].ctx = e

\* the same pages under the same ids
SameTabs(s, t) ==
    /\ (Unique(t) <=> Unique(s)) /\ (UniqueOn(t) <=> UniqueOn(s))
    /\ \A id : Has(t, id) <=> Has(s, id)
    /\ \A id, e : Occurs(t, id, e) <=> Occurs(s, id, e)
    /\ \A id, tab, e : Tracks(t, id, tab, e) <=> Tracks(s, id, tab, e)

\* page x more
OneMore(s, t, x) ==
    /\ Unique(s) /\ ~Has(s, x.id) => Unique(t)
    /\ UniqueOn(s) /\ ~Occurs(s, x.id, x.ctx) => UniqueOn(t)
    /\ \A id : Has(t, id) <=> Has(s, id) \/ id = x.id
    /\ \A id, e : Occurs(t, id, e) <=> Occurs(s, id, e) \/ (id = x.id /\ e = x.ctx)
    /\ \A id, tab, e : Tracks(t, id, tab, e)
          <=> Tracks(s, id, tab, e) \/ (id = x.id /\ tab = x.tab /\ e = x.ctx)

\* page x less
OneLess(s, t, x) ==
    /\ (Unique(s) => Unique(t)) /\ (UniqueOn(s) => UniqueOn(t))
    /\ \A id : (Has(t, id) => Has(s, id)) /\ (Has(s, id) => Has(t, id) \/ id = x.id)
    /\ \A id, e : Occurs(t, id, e) => Occurs(s, id, e)
    /\ \A id, tab, e : Tracks(s, id, tab, e)
          => Tracks(t, id, tab, e) \/ (id = x.id /\ tab = x.tab /\ e = x.ctx)

\* some page is active unless there is none
Led(s) == SomeAct(s) \/ \A id : ~Has(s, id)

LEMMA ListFacts ==
    ASSUME NEW s \in Seq(SlotSet)
    PROVE  /\ Len(s) \in Nat /\ DOMAIN s = 1 .. Len(s) /\ s \in [1 .. Len(s) -> SlotSet]
           /\ \A i \in DOMAIN s : s[i] \in SlotSet
  BY LenProperties

LEMMA ListOf ==
    ASSUME NEW n \in Nat, NEW s \in [1 .. n -> SlotSet]
    PROVE  s \in Seq(SlotSet) /\ Len(s) = n
  <1>1. s \in Seq(SlotSet)
    BY SeqDef
  <1>2. DOMAIN s = 1 .. n /\ DOMAIN s = 1 .. Len(s) /\ Len(s) \in Nat
    BY <1>1, LenProperties
  <1> QED
    BY <1>1, <1>2

LEMMA SlotFields ==
    ASSUME NEW x \in SlotSet
    PROVE  /\ x.id \in Ids /\ x.url \in Urls /\ x.tab \in 1 .. MaxTabs
           /\ x.ctx \in 1 .. MaxEngines /\ x.active \in BOOLEAN /\ x.key \in 1 .. MaxTabs
  BY DEF SlotSet

LEMMA FlagSet ==
    ASSUME NEW x \in SlotSet, NEW b \in BOOLEAN
    PROVE  LET y == [x EXCEPT !.active = b] IN
           /\ y \in SlotSet /\ y.active = b
           /\ y.id = x.id /\ y.tab = x.tab /\ y.ctx = x.ctx
  BY DEF SlotSet

LEMMA UrlSet ==
    ASSUME NEW x \in SlotSet, NEW u \in Urls
    PROVE  LET y == [x EXCEPT !.url = u] IN
           /\ y \in SlotSet /\ y.active = x.active
           /\ y.id = x.id /\ y.tab = x.tab /\ y.ctx = x.ctx
  BY DEF SlotSet

LEMMA RegFields ==
    ASSUME NEW r \in RegSet, NEW s
    PROVE  /\ r.slots \in Seq(SlotSet) /\ r.recovering \in BOOLEAN
           /\ [r EXCEPT !.slots = s].slots = s
           /\ [r EXCEPT !.slots = s].recovering = r.recovering
           /\ s \in Seq(SlotSet) => [r EXCEPT !.slots = s] \in RegSet
  BY DEF RegSet

Below == {pair \in Nat \X Nat : pair[1] < pair[2]}

LEMMA BelowFounded == IsWellFoundedOn(Below, Nat)
  BY NatLessThanWellFounded DEF OpToRel, Below

LEMMA FirstIs ==
    ASSUME NEW S \in SUBSET Nat, S # {}
    PROVE  First(S) \in S
  <1>1. PICK x \in S : \A y \in S : ~(<<y, x>> \in Below)
    BY WFMin, BelowFounded
  <1>2. \A y \in S : y \in Nat /\ x \in Nat
    OBVIOUS
  <1>3. \A y \in S : ~(y < x)
    BY <1>1, <1>2 DEF Below
  <1>4. \E k \in S : \A y \in S : k <= y
    BY <1>2, <1>3
  <1> QED
    BY <1>4 DEF First

LEMMA SameIds ==
    ASSUME NEW s, NEW t, DOMAIN t = DOMAIN s,
           \A i \in DOMAIN s : t[i].id = s[i].id /\ t[i].tab = s[i].tab /\ t[i].ctx = s[i].ctx
    PROVE  SameTabs(s, t)
  <1>1. (Unique(t) <=> Unique(s)) /\ (UniqueOn(t) <=> UniqueOn(s))
    BY DEF Unique, UniqueOn
  <1>2. \A id : Has(t, id) <=> Has(s, id)
    BY DEF Has
  <1>3. \A id, e : Occurs(t, id, e) <=> Occurs(s, id, e)
    BY DEF Occurs
  <1>4. \A id, tab, e : Tracks(t, id, tab, e) <=> Tracks(s, id, tab, e)
    BY DEF Tracks
  <1> QED
    BY <1>1, <1>2, <1>3, <1>4 DEF SameTabs

(* select: a page of that id makes it the active one, no page moves        *)
(* (pages.rs, activate).                                                   *)
LEMMA ActivateDoes ==
    ASSUME NEW r \in RegSet, NEW id
    PROVE  LET q == Activate(r, id) IN
           /\ q \in RegSet /\ q.recovering = r.recovering /\ SameTabs(r.slots, q.slots)
           /\ SomeAct(r.slots) \/ Has(r.slots, id) => SomeAct(q.slots)
           /\ Unique(r.slots) /\ OneAct(r.slots) => OneAct(q.slots)
  <1> DEFINE s == r.slots
             t == [i \in DOMAIN s |-> [s[i] EXCEPT !.active = (s[i].id = id)]]
  <1>1. s \in Seq(SlotSet)
    BY RegFields
  <1>2. CASE ~Has(s, id)
    <2>1. Activate(r, id) = r
      BY <1>2 DEF Activate, Contains, Indices, Has
    <2>2. SameTabs(s, s)
      BY SameIds
    <2> QED
      BY <2>1, <2>2, <1>2
  <1>3. CASE Has(s, id)
    <2>1. Activate(r, id) = [r EXCEPT !.slots = t]
      BY <1>3 DEF Activate, Contains, Indices, Has
    <2>2. \A i \in DOMAIN s : /\ t[i] \in SlotSet /\ t[i].active = (s[i].id = id)
                              /\ t[i].id = s[i].id /\ t[i].tab = s[i].tab /\ t[i].ctx = s[i].ctx
      <3> SUFFICES ASSUME NEW i \in DOMAIN s
                   PROVE  /\ t[i] \in SlotSet /\ t[i].active = (s[i].id = id)
                          /\ t[i].id = s[i].id /\ t[i].tab = s[i].tab /\ t[i].ctx = s[i].ctx
        OBVIOUS
      <3>1. s[i] \in SlotSet /\ (s[i].id = id) \in BOOLEAN
        BY <1>1, ListFacts
      <3> QED
        BY <3>1, FlagSet
    <2>3. DOMAIN t = DOMAIN s
      OBVIOUS
    <2>4. t \in [1 .. Len(s) -> SlotSet] /\ Len(s) \in Nat
      BY <2>2, <1>1, ListFacts
    <2>5. t \in Seq(SlotSet)
      BY <2>4, ListOf
    <2> HIDE DEF t
    <2>6. SameTabs(s, t)
      BY <2>3, <2>2, SameIds
    <2>7. Unique(s) => OneAct(t)
      <3>1. \A i \in DOMAIN s : t[i].active => s[i].id = id
        BY <2>2
      <3> QED
        BY <3>1, <2>3 DEF OneAct, Unique
    <2>8. SomeAct(t)
      BY <2>2, <2>3, <1>3 DEF SomeAct, Has
    <2> QED
      BY <2>1, <2>5, <2>6, <2>7, <2>8, RegFields
  <1> QED
    BY <1>2, <1>3

(* A page that answers has its URL refreshed, nothing else (set_url).      *)
LEMMA SetUrlDoes ==
    ASSUME NEW r \in RegSet, NEW id, NEW u \in Urls
    PROVE  LET q == SetUrl(r, id, u) IN
           /\ q \in RegSet /\ q.recovering = r.recovering /\ SameTabs(r.slots, q.slots)
           /\ SomeAct(r.slots) => SomeAct(q.slots)
           /\ OneAct(r.slots) => OneAct(q.slots)
  <1> DEFINE s == r.slots
             t == [i \in DOMAIN s |-> IF s[i].id = id THEN [s[i] EXCEPT !.url = u] ELSE s[i]]
  <1>1. s \in Seq(SlotSet)
    BY RegFields
  <1>2. SetUrl(r, id, u) = [r EXCEPT !.slots = t]
    BY DEF SetUrl, Indices
  <1>3. \A i \in DOMAIN s : /\ t[i] \in SlotSet /\ t[i].active = s[i].active
                            /\ t[i].id = s[i].id /\ t[i].tab = s[i].tab /\ t[i].ctx = s[i].ctx
    <2> SUFFICES ASSUME NEW i \in DOMAIN s
                 PROVE  /\ t[i] \in SlotSet /\ t[i].active = s[i].active
                        /\ t[i].id = s[i].id /\ t[i].tab = s[i].tab /\ t[i].ctx = s[i].ctx
      OBVIOUS
    <2>1. s[i] \in SlotSet
      BY <1>1, ListFacts
    <2> QED
      BY <2>1, UrlSet
  <1>4. DOMAIN t = DOMAIN s
    OBVIOUS
  <1>5. t \in [1 .. Len(s) -> SlotSet] /\ Len(s) \in Nat
    BY <1>3, <1>1, ListFacts
  <1>6. t \in Seq(SlotSet)
    BY <1>5, ListOf
  <1> HIDE DEF t
  <1>7. SameTabs(s, t)
    BY <1>4, <1>3, SameIds
  <1>8. (SomeAct(s) => SomeAct(t)) /\ (OneAct(s) => OneAct(t))
    BY <1>3, <1>4 DEF OneAct, SomeAct
  <1> QED
    BY <1>2, <1>6, <1>7, <1>8, RegFields

(* A page more at the end of the list.                                     *)
LEMMA AppendDoes ==
    ASSUME NEW s \in Seq(SlotSet), NEW x \in SlotSet
    PROVE  LET t == Append(s, x) IN
           /\ t \in Seq(SlotSet) /\ OneMore(s, t, x)
           /\ DOMAIN t = 1 .. Len(s) + 1 /\ t[Len(s) + 1] = x
           /\ \A i \in DOMAIN s : i \in DOMAIN t /\ t[i] = s[i]
           /\ \A i \in DOMAIN t : i \in DOMAIN s \/ i = Len(s) + 1
           /\ OneAct(s) /\ (x.active => ~SomeAct(s)) => OneAct(t)
           /\ SomeAct(t) <=> SomeAct(s) \/ x.active
  <1> DEFINE t == Append(s, x)
  <1>1. /\ t \in Seq(SlotSet) /\ Len(t) = Len(s) + 1 /\ t[Len(s) + 1] = x
        /\ \A i \in 1 .. Len(s) : t[i] = s[i]
    BY AppendProperties
  <1>2. Len(s) \in Nat /\ DOMAIN s = 1 .. Len(s) /\ DOMAIN t = 1 .. Len(s) + 1
    BY <1>1, ListFacts
  <1> HIDE DEF t
  <1>3. /\ \A i \in DOMAIN s : i \in DOMAIN t /\ t[i] = s[i]
        /\ \A i \in DOMAIN t : i \in DOMAIN s \/ i = Len(s) + 1
        /\ Len(s) + 1 \in DOMAIN t
    BY <1>1, <1>2
  <1>4. OneMore(s, t, x)
    <2>1. \A id : Has(t, id) <=> Has(s, id) \/ id = x.id
      BY <1>1, <1>3 DEF Has
    <2>2. \A id, tab, e : Tracks(t, id, tab, e)
             <=> Tracks(s, id, tab, e) \/ (id = x.id /\ tab = x.tab /\ e = x.ctx)
      BY <1>1, <1>3 DEF Tracks
    <2>3. \A id, e : Occurs(t, id, e) <=> Occurs(s, id, e) \/ (id = x.id /\ e = x.ctx)
      BY <1>1, <1>3 DEF Occurs
    <2>4. Unique(s) /\ ~Has(s, x.id) => Unique(t)
      BY <1>1, <1>3 DEF Unique, Has
    <2>5. UniqueOn(s) /\ ~Occurs(s, x.id, x.ctx) => UniqueOn(t)
      BY <1>1, <1>3 DEF UniqueOn, Occurs
    <2> QED
      BY <2>1, <2>2, <2>3, <2>4, <2>5 DEF OneMore
  <1>7. OneAct(s) /\ (x.active => ~SomeAct(s)) => OneAct(t)
    BY <1>1, <1>3 DEF OneAct, SomeAct
  <1>8. SomeAct(t) <=> SomeAct(s) \/ x.active
    BY <1>1, <1>3 DEF SomeAct
  <1> QED
    BY <1>1, <1>2, <1>3, <1>4, <1>7, <1>8 DEF t

(* A page under an id that is not in the list, inactive (admit).           *)
LEMMA AdmitDoes ==
    ASSUME NEW r \in RegSet, NEW x \in SlotSet, ~x.active, CanAdmit(r, x)
    PROVE  LET q == Admit(r, x) IN
           /\ q \in RegSet /\ q.recovering = r.recovering /\ OneMore(r.slots, q.slots, x)
           /\ ~r.recovering /\ ~Has(r.slots, x.id)
           /\ SomeAct(r.slots) => SomeAct(q.slots)
           /\ OneAct(r.slots) => OneAct(q.slots)
  <1> DEFINE s == r.slots
             t == Append(s, x)
  <1>1. s \in Seq(SlotSet) /\ ~Has(s, x.id) /\ ~r.recovering
    BY RegFields DEF CanAdmit, Contains, Indices, Has
  <1>2. Admit(r, x) = [r EXCEPT !.slots = t]
    BY DEF Admit
  <1> HIDE DEF t
  <1>3. /\ t \in Seq(SlotSet) /\ OneMore(s, t, x) /\ (SomeAct(t) <=> SomeAct(s))
        /\ OneAct(s) => OneAct(t)
    BY <1>1, AppendDoes DEF t
  <1> QED
    BY <1>1, <1>2, <1>3, RegFields

(* The page of a session without an active one takes the flag              *)
(* (admit_active).                                                         *)
LEMMA AdmitActiveDoes ==
    ASSUME NEW r \in RegSet, NEW x \in SlotSet, CanAdmitActive(r)
    PROVE  LET q == AdmitActive(r, x) IN
           /\ q \in RegSet /\ q.recovering = r.recovering /\ OneMore(r.slots, q.slots, x)
           /\ ~r.recovering /\ SomeAct(q.slots) /\ OneAct(q.slots)
  <1> DEFINE s == r.slots
             y == [x EXCEPT !.active = TRUE]
             t == Append(s, y)
  <1>1. s \in Seq(SlotSet) /\ ~r.recovering /\ ~SomeAct(s)
    BY RegFields DEF CanAdmitActive, ActiveIn, SomeAct
  <1>2. OneAct(s)
    BY <1>1 DEF OneAct, SomeAct
  <1>3. AdmitActive(r, x) = [r EXCEPT !.slots = t]
    BY DEF AdmitActive
  <1>4. y \in SlotSet /\ y.id = x.id /\ y.tab = x.tab /\ y.ctx = x.ctx /\ y.active
    BY FlagSet
  <1> HIDE DEF y
  <1>5. t \in Seq(SlotSet) /\ OneMore(s, t, y) /\ OneAct(t) /\ SomeAct(t)
    BY <1>1, <1>2, <1>4, AppendDoes
  <1> HIDE DEF t
  <1>6. OneMore(s, t, x)
    BY <1>4, <1>5 DEF OneMore
  <1> QED
    BY <1>1, <1>3, <1>5, <1>6, RegFields

(* The first of the list takes the flag.                                   *)
LEMMA PromotedDoes ==
    ASSUME NEW s \in Seq(SlotSet)
    PROVE  LET t == Promoted(s) IN
           /\ t \in Seq(SlotSet) /\ SameTabs(s, t) /\ Led(t)
           /\ ~SomeAct(s) => OneAct(t)
  <1>1. CASE s = <<>>
    <2>1. Promoted(s) = s /\ \A id : ~Has(s, id)
      BY <1>1 DEF Promoted, Has
    <2>2. SameTabs(s, s) /\ OneAct(s)
      BY <1>1, SameIds DEF OneAct
    <2> QED
      BY <2>1, <2>2 DEF Led
  <1>2. CASE s # <<>>
    <2> DEFINE y == [s[1] EXCEPT !.active = TRUE]
               t == [s EXCEPT ![1] = y]
    <2>1. Len(s) \in Nat \ {0} /\ DOMAIN s = 1 .. Len(s) /\ \A i \in DOMAIN s : s[i] \in SlotSet
      BY <1>2, EmptySeq, ListFacts
    <2>2. Promoted(s) = t
      BY <1>2 DEF Promoted
    <2>3. y \in SlotSet /\ y.id = s[1].id /\ y.tab = s[1].tab /\ y.ctx = s[1].ctx /\ y.active
      <3>1. s[1] \in SlotSet
        BY <2>1
      <3> QED
        BY <3>1, FlagSet
    <2> HIDE DEF y
    <2>4. /\ t \in Seq(SlotSet) /\ DOMAIN t = DOMAIN s
          /\ \A i \in DOMAIN s : t[i] = IF i = 1 THEN y ELSE s[i]
      BY <2>1, <2>3, ExceptSeq
    <2> HIDE DEF t
    <2>5. SameTabs(s, t)
      <3>1. \A i \in DOMAIN s : t[i].id = s[i].id /\ t[i].tab = s[i].tab /\ t[i].ctx = s[i].ctx
        BY <2>3, <2>4
      <3> QED
        BY <3>1, <2>4, SameIds
    <2>6. SomeAct(t) /\ (~SomeAct(s) => OneAct(t))
      BY <2>1, <2>3, <2>4 DEF OneAct, SomeAct
    <2> QED
      BY <2>2, <2>4, <2>5, <2>6 DEF Led
  <1> QED
    BY <1>1, <1>2

(* A list without its p-th page.                                           *)
LEMMA WithoutDoes ==
    ASSUME NEW s \in Seq(SlotSet), NEW p \in DOMAIN s
    PROVE  LET t == Without(s, p) IN
           /\ t \in Seq(SlotSet) /\ OneLess(s, t, s[p])
           /\ OneAct(s) => OneAct(t) /\ (s[p].active => ~SomeAct(t))
           /\ SomeAct(s) => SomeAct(t) \/ s[p].active
  <1> DEFINE n == Len(s) - 1
             t == Without(s, p)
             Back(i) == IF i < p THEN i ELSE i + 1
  <1>1. /\ Len(s) \in Nat /\ DOMAIN s = 1 .. Len(s) /\ \A i \in DOMAIN s : s[i] \in SlotSet
    BY ListFacts
  <1>2. /\ n \in Nat /\ t = [i \in 1 .. n |-> IF i < p THEN s[i] ELSE s[i + 1]]
        /\ p \in 1 .. n + 1 /\ DOMAIN s = 1 .. n + 1
    BY <1>1 DEF Without
  <1> HIDE DEF n, t
  <1>3. \A i \in 1 .. n : /\ Back(i) \in DOMAIN s /\ Back(i) # p
                          /\ t[i] = s[Back(i)] /\ t[i] \in SlotSet
    BY <1>2, <1>1
  <1>4. \A i, j \in 1 .. n : Back(i) = Back(j) => i = j
    BY <1>2
  <1>5. \A j \in DOMAIN s : j # p => \E i \in 1 .. n : Back(i) = j
    <2> SUFFICES ASSUME NEW j \in DOMAIN s, j # p
                 PROVE  \E i \in 1 .. n : Back(i) = j
      OBVIOUS
    <2>1. CASE j < p
      BY <2>1, <1>2
    <2>2. CASE j > p
      <3>1. j - 1 \in 1 .. n /\ Back(j - 1) = j
        BY <2>2, <1>2
      <3> QED
        BY <3>1
    <2> QED
      BY <2>1, <2>2, <1>2
  <1> HIDE DEF Back
  <1>6. t \in Seq(SlotSet) /\ DOMAIN t = 1 .. n
    <2>1. t \in [1 .. n -> SlotSet]
      BY <1>2, <1>3
    <2> QED
      BY <2>1, <1>2, ListOf
  <1>7. OneLess(s, t, s[p])
    <2>1. (Unique(s) => Unique(t)) /\ (UniqueOn(s) => UniqueOn(t))
      BY <1>3, <1>4, <1>6 DEF Unique, UniqueOn
    <2>2. \A id : (Has(t, id) => Has(s, id)) /\ (Has(s, id) => Has(t, id) \/ id = s[p].id)
      BY <1>3, <1>5, <1>6 DEF Has
    <2>3. \A id, e : Occurs(t, id, e) => Occurs(s, id, e)
      BY <1>3, <1>6 DEF Occurs
    <2>4. \A id, tab, e : Tracks(s, id, tab, e)
             => Tracks(t, id, tab, e) \/ (id = s[p].id /\ tab = s[p].tab /\ e = s[p].ctx)
      BY <1>3, <1>5, <1>6 DEF Tracks
    <2> QED
      BY <2>1, <2>2, <2>3, <2>4 DEF OneLess
  <1>8. OneAct(s) => OneAct(t) /\ (s[p].active => ~SomeAct(t))
    BY <1>3, <1>4, <1>6 DEF OneAct, SomeAct
  <1>9. SomeAct(s) => SomeAct(t) \/ s[p].active
    BY <1>3, <1>5, <1>6 DEF SomeAct
  <1> QED
    BY <1>6, <1>7, <1>8, <1>9 DEF t

(* A closed page leaves the list; when it was the active one, another is   *)
(* (remove).                                                               *)
LEMMA RemoveDoes ==
    ASSUME NEW r \in RegSet, NEW id, Contains(r, id)
    PROVE  LET q == Remove(r, id)
               x == r.slots[Place(r, id)] IN
           /\ q \in RegSet /\ q.recovering = r.recovering
           /\ x \in SlotSet /\ x.id = id /\ OneLess(r.slots, q.slots, x)
           /\ OneAct(r.slots) => OneAct(q.slots)
           /\ SomeAct(r.slots) => Led(q.slots)
  <1> DEFINE s == r.slots
             p == Place(r, id)
             x == s[p]
             rest == Without(s, p)
             t == IF x.active THEN Promoted(rest) ELSE rest
  <1>1. /\ s \in Seq(SlotSet) /\ Len(s) \in Nat /\ DOMAIN s = 1 .. Len(s)
        /\ \A i \in DOMAIN s : s[i] \in SlotSet
    BY RegFields, ListFacts
  <1>2. p \in DOMAIN s /\ x.id = id /\ x \in SlotSet
    <2> DEFINE S == {i \in Indices(r) : r.slots[i].id = id}
    <2>1. S \in SUBSET Nat /\ S # {} /\ p = First(S)
      BY <1>1 DEF Contains, Indices, Place
    <2>2. p \in S
      BY <2>1, FirstIs
    <2> QED
      BY <2>2, <1>1 DEF Indices
  <1>3. Remove(r, id) = [r EXCEPT !.slots = t]
    BY DEF Remove
  <1> HIDE DEF p
  <1>4. /\ rest \in Seq(SlotSet) /\ OneLess(s, rest, x)
        /\ OneAct(s) => OneAct(rest) /\ (x.active => ~SomeAct(rest))
        /\ SomeAct(s) => SomeAct(rest) \/ x.active
    BY <1>1, <1>2, WithoutDoes
  <1> HIDE DEF rest, x
  <1>5. CASE x.active
    <2>1. /\ t \in Seq(SlotSet) /\ SameTabs(rest, t) /\ Led(t)
          /\ ~SomeAct(rest) => OneAct(t)
      BY <1>4, <1>5, PromotedDoes
    <2> HIDE DEF t
    <2>2. OneLess(s, t, x)
      BY <2>1, <1>4 DEF OneLess, SameTabs
    <2>3. OneAct(s) => OneAct(t)
      BY <2>1, <1>4, <1>5
    <2> QED
      BY <1>2, <1>3, <2>1, <2>2, <2>3, RegFields DEF x, p
  <1>6. CASE ~x.active
    <2>1. t = rest /\ (SomeAct(s) => Led(t))
      BY <1>4, <1>6 DEF Led
    <2> HIDE DEF t
    <2> QED
      BY <1>2, <1>3, <1>4, <2>1, RegFields DEF x, p
  <1> QED
    BY <1>5, <1>6

(* The rebuilt list keeps its pages, one of them active (finish_recovery). *)
LEMMA FinishDoes ==
    ASSUME NEW s \in Seq(SlotSet)
    PROVE  LET q == FinishRecovery(s) IN
           /\ q \in RegSet /\ ~q.recovering /\ SameTabs(s, q.slots) /\ Led(q.slots)
           /\ OneAct(s) => OneAct(q.slots)
  <1> DEFINE t == IF ActiveIn(s) # {} THEN s ELSE Promoted(s)
  <1>1. FinishRecovery(s) = [slots |-> t, recovering |-> FALSE]
    BY DEF FinishRecovery
  <1>2. ActiveIn(s) # {} <=> SomeAct(s)
    BY DEF ActiveIn, SomeAct
  <1>3. SameTabs(s, s)
    BY SameIds
  <1>4. t \in Seq(SlotSet) /\ SameTabs(s, t) /\ Led(t) /\ (OneAct(s) => OneAct(t))
    BY <1>2, <1>3, PromotedDoes DEF Led
  <1> HIDE DEF t
  <1>5. [slots |-> t, recovering |-> FALSE] \in RegSet
    BY <1>4 DEF RegSet
  <1> QED
    BY <1>1, <1>4, <1>5
-------------------------------------------------------------------------------
(* The inductive invariant. *)

DrivenSet == [id : Ids, tab : 1 .. MaxTabs]
Drivens   == [1 .. MaxEngines -> SUBSET DrivenSet]
Serials   == [1 .. MaxEngines -> 0 .. MaxSerial]
RecSet == [at : {"idle", "clear", "swap", "restore", "prepare", "feed"},
           ctx : 0 .. MaxEngines, saved : Seq(SlotSet), next : Nat,
           id : Ids \cup {OwnId(0)}, tab : 0 .. MaxTabs, restored : Seq(SlotSet)]

Shapes ==
    /\ reg \in RegSet /\ rec \in RecSet /\ rec.next \in 1 .. Len(rec.saved) + 1
    /\ engines \in 1 .. MaxEngines /\ engine \in {0, engines} /\ context \in 1 .. engines
    /\ born \in 0 .. MaxTabs /\ windows \subseteq tabs /\ tabs \subseteq 1 .. born
    /\ driven \in Drivens /\ serial \in Serials
    /\ job \in [Clients -> JobSet]

\* an id that engine e has given out, by the counters n
Numbered(n, e, id) == \E k \in 1 .. n[e] : id = OwnId(k)

\* a call that has a page of its own making which is not listed
Holding(j)    == j.at \in {"prepare", "discard"} \/ (j.at = "admit" /\ j.op # "list")
Rebuilding(r) == r.at \in {"prepare", "feed"}

\* what a call knows at each stage, in context ctx and with counters n
CallOK(j, ctx, n) ==
    /\ j.at \in {"create", "prepare", "admit", "activate", "feed", "discard", "lookup", "close",
                 "remove", "list", "adopt", "attach"} => j.ctx \in 1 .. ctx
    /\ j.at \in {"gate", "create"} \/ Holding(j) => j.op \in {"ensure", "open"}
    /\ j.at = "context" => j.op \in {"ensure", "open", "list", "close"}
    /\ j.at \in {"list", "adopt", "attach"} => j.op = "list"
    /\ Holding(j) => Numbered(n, j.ctx, j.id)
    /\ j.at \in {"prepare", "discard", "admit", "attach"} => j.tab \in 1 .. MaxTabs
    /\ j.at \in {"gate", "context", "create", "lookup"} => j.tab = 0
    /\ j.at = "attach" \/ (j.at = "admit" /\ j.op = "list") => j.id \in Ids \ OwnIds
    /\ j.at \in {"activate", "feed", "lookup", "close", "remove", "unfeed"} => j.id \in Ids
    /\ j.at \in {"lookup", "close", "remove", "unfeed"}
          \/ (j.at = "context" /\ j.op = "close") => j.key \in 1 .. MaxTabs /\ j.id \in Ids
CallInv == \A c \in Clients : CallOK(job[c], context, serial)

\* a page that is held is nobody else's, on no list, and registered at most once
Apart(j, slots, r) ==
    /\ ~Occurs(slots, j.id, j.ctx) /\ ~Occurs(r.restored, j.id, j.ctx)
    /\ ~(Rebuilding(r) /\ r.ctx = j.ctx /\ r.id = j.id)
HeldIn(j, drv) == \A d \in drv[j.ctx] : d.id = j.id => j.at # "prepare" /\ d.tab = j.tab
HoldInv ==
    /\ \A c \in Clients : Holding(job[c]) => Apart(job[c], reg.slots, rec) /\ HeldIn(job[c], driven)
    /\ \A c, d \in Clients : Holding(job[c]) /\ Holding(job[d])
          /\ job[c].ctx = job[d].ctx /\ job[c].id = job[d].id => c = d

\* the gate is shut while a rebuild is under way, which is on the newest engine,
\* not yet the session's until its context is swapped in
GateInv ==
    /\ rec.at # "idle" <=> reg.recovering
    /\ rec.at # "idle" => rec.ctx = engines
    /\ rec.at \in {"clear", "swap"} => context < engines
    /\ rec.at \in {"restore", "prepare", "feed"} => context = engines

\* what is restored so far: numbered as the context counts, active by position
RestoredOK(r, n) ==
    /\ Unique(r.restored) /\ UniqueOn(r.restored) /\ OneAct(r.restored)
    /\ r.at \in {"idle", "clear", "swap"} => r.restored = <<>>
    /\ \A i \in DOMAIN r.restored :
          r.restored[i].ctx = r.ctx /\ Numbered(n, r.ctx, r.restored[i].id)
    /\ \A i \in DOMAIN r.restored :
          r.restored[i].active => \E k \in 1 .. r.next - 1 : k = First(ActiveIn(r.saved))
    /\ Rebuilding(r) =>
          /\ Numbered(n, r.ctx, r.id) /\ r.tab \in 1 .. MaxTabs
          /\ r.next <= Len(r.saved) /\ ~Has(r.restored, r.id)
ReopenedOK(r, drv) ==
    Rebuilding(r) => \A d \in drv[r.ctx] : d.id = r.id => r.at = "feed" /\ d.tab = r.tab
RestoreInv == RestoredOK(rec, serial) /\ ReopenedOK(rec, driven)

\* the session's own pages, on the list and in the contexts, have been counted
ListCounted(slots, n) ==
    \A id \in OwnIds, e \in 1 .. MaxEngines : Occurs(slots, id, e) => Numbered(n, e, id)
DrivenCounted(drv, n, b) ==
    \A e \in 1 .. MaxEngines : \A d \in drv[e] :
        d.id \in OwnIds => Numbered(n, e, d.id) /\ d.tab \in 1 .. b
CountInv == ListCounted(reg.slots, serial) /\ DrivenCounted(driven, serial, born)

\* while no page is active, each of the session's own is about to be
AboutTo(jobs, id) == \E c \in Clients : jobs[c].at = "activate" /\ jobs[c].id = id
ActiveInv ==
    SomeAct(reg.slots) \/ \A id \in OwnIds : Has(reg.slots, id) => AboutTo(job, id)

PagesInv == /\ Shapes /\ CallInv /\ HoldInv /\ GateInv /\ RestoreInv /\ CountInv
            /\ ActiveInv /\ UniqueOn(reg.slots)
-------------------------------------------------------------------------------
(* What each step of a call does. *)

\* what a step of one call leaves of the others
Others(c) ==
    job' \in [Clients -> JobSet] /\ \A d \in Clients \ {c} : job'[d] = job[d]
Moves(c) == /\ Others(c) /\ CallOK(job'[c], context', serial')
            /\ UNCHANGED <<context, engine, engines, rec>>

\* no page is taken into a call's hands, or out of them
Stays(j, k) == Holding(k) => /\ Holding(j) /\ k.ctx = j.ctx /\ k.id = j.id /\ k.tab = j.tab
                             /\ (k.at = "prepare" => j.at = "prepare")
Retains(j, k) == Holding(j) /\ j.at # "prepare" =>
                     Holding(k) /\ k.at # "prepare" /\ k.ctx = j.ctx /\ k.id = j.id
ClosesOwn(j) == j.at = "close" \/ (j.at = "remove" /\ j.tab # 0)

\* a step of the call's alone, and one that has no part in what is promised of
\* feeds and of closed pages
Light(c) == /\ Moves(c) /\ Stays(job[c], job'[c]) /\ job[c].at # "activate"
            /\ UNCHANGED <<reg, engineVars>>
Calm(c)  == /\ Light(c) /\ Retains(job[c], job'[c])
            /\ job[c].at # "unfeed" /\ ~ClosesOwn(job'[c]) /\ UNCHANGED <<feeds, pastVars>>

Stages == {"idle", "gate", "act", "context", "create", "prepare", "admit", "activate",
           "feed", "discard", "fallback", "lookup", "close", "remove", "unfeed",
           "list", "adopt", "attach"}

LEMMA PutIs ==
    ASSUME Shapes, NEW c \in Clients, NEW j \in JobSet, Put(c, j)
    PROVE  Others(c) /\ job'[c] = j
  BY DEF Shapes, Put, Others

LEMMA JobFields ==
    ASSUME Shapes, NEW c \in Clients
    PROVE  /\ job[c] \in JobSet /\ job[c].id \in Ids \cup {OwnId(0)}
           /\ job[c].tab \in 0 .. MaxTabs /\ job[c].list \in SUBSET (1 .. MaxTabs)
           /\ job[c].ctx \in 0 .. MaxEngines /\ job[c].key \in 0 .. MaxTabs
  BY DEF Shapes, JobSet

LEMMA JobAt ==
    ASSUME NEW j \in JobSet, NEW l \in Stages
    PROVE  LET k == [j EXCEPT !.at = l] IN
           /\ k \in JobSet /\ k.at = l /\ k.op = j.op /\ k.ctx = j.ctx /\ k.id = j.id
           /\ k.tab = j.tab /\ k.key = j.key /\ k.list = j.list
  BY DEF JobSet, Stages

LEMMA FreeIs ==
    /\ Free \in JobSet /\ Free.at = "idle" /\ Free.tab = 0 /\ ~Holding(Free) /\ ~ClosesOwn(Free)
    /\ \A ctx, n : CallOK(Free, ctx, n)
  <1>1. Free \in JobSet /\ Free.at = "idle" /\ Free.tab = 0
    BY PagesAssumption DEF Free, JobSet
  <1> QED
    BY <1>1 DEF Holding, ClosesOwn, CallOK

LEMMA WorkingIs ==
    ASSUME NEW id \in Ids \cup {OwnId(0)}, NEW tab \in 0 .. MaxTabs
    PROVE  LET k == Working(id, tab) IN
           /\ k \in JobSet /\ k.at = "act" /\ ~Holding(k) /\ ~ClosesOwn(k)
           /\ \A ctx, n : CallOK(k, ctx, n)
  <1> DEFINE k == Working(id, tab)
  <1>1. k \in JobSet /\ k.at = "act"
    BY FreeIs DEF JobSet, Working
  <1> HIDE DEF k
  <1> QED
    BY <1>1 DEF Holding, ClosesOwn, CallOK, k

LEMMA OnwardIs ==
    ASSUME NEW j \in JobSet
    PROVE  LET k == Onward(j) IN
           /\ k \in JobSet /\ k.at = "adopt" /\ k.op = "list" /\ k.ctx = j.ctx
           /\ ~Holding(k) /\ ~ClosesOwn(k)
           /\ \A ctx, n : j.ctx \in 1 .. ctx => CallOK(k, ctx, n)
  <1> DEFINE k == Onward(j)
  <1>1. k \in JobSet /\ k.at = "adopt" /\ k.op = "list" /\ k.ctx = j.ctx
    BY FreeIs DEF JobSet, Onward
  <1> HIDE DEF k
  <1> QED
    BY <1>1 DEF Holding, ClosesOwn, CallOK, k

LEMMA Counts ==
    ASSUME Shapes
    PROVE  /\ engines \in Nat /\ engine \in Nat /\ born \in Nat /\ context \in Nat
           /\ context \in 1 .. MaxEngines /\ context \in 0 .. MaxEngines /\ context <= engines
           /\ engine \in 0 .. MaxEngines /\ engines \in 1 .. MaxEngines
           /\ tabs \subseteq 1 .. MaxTabs /\ windows \subseteq 1 .. MaxTabs
           /\ \A e \in 1 .. MaxEngines : driven[e] \in SUBSET DrivenSet
           /\ \A e \in 1 .. MaxEngines : serial[e] \in 0 .. MaxSerial
  BY PagesAssumption DEF Shapes, Drivens, Serials

LEMMA IdsAre ==
    /\ OwnIds \subseteq Ids
    /\ \A t \in 1 .. MaxTabs : ForeignId(t) \in Ids \ OwnIds
    /\ \A m, n \in Nat : OwnId(m) = OwnId(n) => m = n
    /\ \A n \in 1 .. MaxSerial : OwnId(n) \in OwnIds
  BY DEF OwnIds, Ids, OwnId, ForeignId

\* a step that puts a job down and does nothing else
LEMMA LightBy ==
    ASSUME Shapes, NEW c \in Clients, NEW k \in JobSet, Put(c, k), CallOK(k, context, serial),
           Stays(job[c], k), job[c].at # "activate", UNCHANGED <<reg, engineVars, rec>>
    PROVE  Light(c) /\ job'[c] = k
  BY PutIs DEF Light, Moves, engineVars

LEMMA CalmBy ==
    ASSUME Shapes, NEW c \in Clients, NEW k \in JobSet, Put(c, k), CallOK(k, context, serial),
           Stays(job[c], k), Retains(job[c], k), job[c].at \notin {"activate", "unfeed"},
           ~ClosesOwn(k), UNCHANGED <<reg, engineVars, feeds, rec, pastVars>>
    PROVE  Calm(c)
  BY LightBy DEF Calm

\* a call that had no page in hand and has none after
LEMMA CalmFree ==
    ASSUME Shapes, NEW c \in Clients, NEW k \in JobSet, Put(c, k), CallOK(k, context, serial),
           ~Holding(job[c]), ~Holding(k), job[c].at \notin {"activate", "unfeed"},
           ~ClosesOwn(k), UNCHANGED <<reg, engineVars, feeds, rec, pastVars>>
    PROVE  Calm(c)
  BY CalmBy DEF Stays, Retains

LEMMA ActiveIs ==
    ASSUME NEW r \in RegSet, HasActive(r)
    PROVE  ActiveSlot(r).id \in Ids \cup {OwnId(0)} /\ ActiveSlot(r).tab \in 0 .. MaxTabs
  <1>1. r.slots \in Seq(SlotSet) /\ DOMAIN r.slots = 1 .. Len(r.slots) /\ Len(r.slots) \in Nat
    BY RegFields, ListFacts
  <1>2. ActiveIn(r.slots) \in SUBSET Nat /\ ActiveIn(r.slots) # {}
    BY <1>1 DEF HasActive, ActiveIn
  <1>3. First(ActiveIn(r.slots)) \in DOMAIN r.slots
    BY <1>2, FirstIs DEF ActiveIn
  <1>4. ActiveSlot(r) \in SlotSet
    BY <1>1, <1>3, ListFacts DEF ActiveSlot
  <1> QED
    BY <1>4, SlotFields, PagesAssumption

LEMMA LooksDoes ==
    ASSUME Shapes, NEW c \in Clients, Ensure(c) \/ Fallback(c)
    PROVE  Calm(c)
  <1>1. /\ job[c].at \in {"idle", "fallback"} /\ ~Holding(job[c])
        /\ UNCHANGED <<reg, engineVars, feeds, rec, pastVars>> /\ reg \in RegSet
    BY DEF Ensure, Fallback, At, Holding, Shapes
  <1>2. CASE HasActive(reg)
    <2>1. Put(c, Working(ActiveSlot(reg).id, ActiveSlot(reg).tab))
      BY <1>2 DEF Ensure, Fallback
    <2> QED
      BY <1>1, <1>2, <2>1, ActiveIs, WorkingIs, CalmFree
  <1>3. CASE ~HasActive(reg) /\ Ensure(c)
    <2> DEFINE k == [Free EXCEPT !.at = "gate", !.op = "ensure"]
    <2>1. k \in JobSet /\ k.at = "gate" /\ k.op = "ensure" /\ k.tab = 0
      BY FreeIs DEF JobSet
    <2>2. Put(c, k)
      BY <1>3 DEF Ensure
    <2> HIDE DEF k
    <2>3. CallOK(k, context, serial) /\ ~Holding(k) /\ ~ClosesOwn(k)
      BY <2>1 DEF CallOK, Holding, ClosesOwn
    <2> QED
      BY <1>1, <2>1, <2>2, <2>3, CalmFree
  <1>4. CASE ~HasActive(reg) /\ Fallback(c)
    <2>1. Put(c, Free)
      BY <1>4 DEF Fallback
    <2> QED
      BY <1>1, <2>1, FreeIs, CalmFree
  <1> QED
    BY <1>2, <1>3, <1>4

LEMMA GateDoes ==
    ASSUME Shapes, NEW c \in Clients, CallOK(job[c], context, serial), Gate(c)
    PROVE  Calm(c)
  <1>1. /\ job[c].at = "gate" /\ ~Holding(job[c]) /\ UNCHANGED <<reg, engineVars, feeds, rec, pastVars>>
        /\ job[c].op \in {"ensure", "open"} /\ job[c].tab = 0
    BY DEF Gate, At, Holding, CallOK
  <1>2. CASE AcceptsNewPage(reg)
    <2> DEFINE k == [job[c] EXCEPT !.at = "context"]
    <2>0. job[c] \in JobSet /\ "context" \in Stages
      BY JobFields DEF Stages
    <2>1. k \in JobSet /\ k.at = "context" /\ k.op = job[c].op /\ k.tab = job[c].tab
      BY <2>0, JobAt
    <2>2. Put(c, k)
      BY <1>2 DEF Gate
    <2> HIDE DEF k
    <2>3. CallOK(k, context, serial) /\ ~Holding(k) /\ ~ClosesOwn(k)
      BY <1>1, <2>1 DEF CallOK, Holding, ClosesOwn
    <2> QED
      BY <1>1, <2>1, <2>2, <2>3, CalmFree
  <1>3. CASE ~AcceptsNewPage(reg)
    BY <1>1, <1>3, FreeIs, CalmFree DEF Gate
  <1> QED
    BY <1>2, <1>3

LEMMA BeginDoes ==
    ASSUME Shapes, NEW c \in Clients, NEW op, Begin(c, op)
    PROVE  Calm(c)
  <1> DEFINE k == [Free EXCEPT !.at = "context", !.op = op]
  <1>1. /\ job[c].at = "idle" /\ ~Holding(job[c]) /\ UNCHANGED <<reg, engineVars, feeds, rec, pastVars>>
        /\ op \in {"open", "list"} /\ Put(c, k)
    BY DEF Begin, At, Holding
  <1>2. k \in JobSet /\ k.at = "context" /\ k.op = op /\ k.tab = 0
    BY <1>1, FreeIs DEF JobSet
  <1> HIDE DEF k
  <1>3. CallOK(k, context, serial) /\ ~Holding(k) /\ ~ClosesOwn(k)
    BY <1>1, <1>2 DEF CallOK, Holding, ClosesOwn
  <1> QED
    BY <1>1, <1>2, <1>3, CalmFree

LEMMA BeginCloseDoes ==
    ASSUME Shapes, NEW c \in Clients, NEW i \in Indices(reg), BeginClose(c, i)
    PROVE  Calm(c)
  <1> DEFINE a == reg.slots[i]
             k == [Free EXCEPT !.at = "context", !.op = "close", !.id = a.id, !.key = a.key]
  <1>1. /\ a.id \in Ids /\ a.key \in 1 .. MaxTabs
        /\ a.id \in Ids \cup {OwnId(0)} /\ a.key \in 0 .. MaxTabs
    <2>1. reg.slots \in Seq(SlotSet) /\ i \in DOMAIN reg.slots
      BY RegFields DEF Shapes, Indices
    <2>2. a \in SlotSet
      BY <2>1, ListFacts
    <2> QED
      BY <2>2, SlotFields, PagesAssumption
  <1>2. /\ job[c].at = "idle" /\ ~Holding(job[c]) /\ UNCHANGED <<reg, engineVars, feeds, rec, pastVars>>
        /\ Put(c, k)
    BY DEF BeginClose, At, Holding
  <1> HIDE DEF a
  <1>3. /\ k \in JobSet /\ k.at = "context" /\ k.op = "close" /\ k.tab = 0
        /\ k.id = a.id /\ k.key = a.key
    BY <1>1, FreeIs DEF JobSet
  <1> HIDE DEF k
  <1>4. CallOK(k, context, serial) /\ ~Holding(k) /\ ~ClosesOwn(k)
    BY <1>1, <1>3 DEF CallOK, Holding, ClosesOwn
  <1> QED
    BY <1>2, <1>3, <1>4, CalmFree

LEMMA ReadContextDoes ==
    ASSUME Shapes, NEW c \in Clients, CallOK(job[c], context, serial), ReadContext(c)
    PROVE  Calm(c)
  <1> DEFINE l == CASE job[c].op = "list"  -> "list"
                    [] job[c].op = "close" -> "lookup"
                    [] OTHER               -> "create"
             k == [job[c] EXCEPT !.ctx = context, !.at = l]
  <1>1. /\ job[c].at = "context" /\ ~Holding(job[c]) /\ UNCHANGED <<reg, engineVars, feeds, rec, pastVars>>
        /\ job[c].op \in {"ensure", "open", "list", "close"} /\ job[c].tab = 0 /\ Put(c, k)
        /\ job[c].op = "close" => job[c].key \in 1 .. MaxTabs /\ job[c].id \in Ids
    BY DEF ReadContext, At, Holding, CallOK
  <1>2. /\ l \in {"list", "lookup", "create"} /\ (l = "list" <=> job[c].op = "list")
        /\ (l = "lookup" <=> job[c].op = "close")
    BY <1>1
  <1> HIDE DEF l
  <1>3. context \in 0 .. MaxEngines /\ context \in 1 .. context
    BY Counts
  <1>4. /\ k \in JobSet /\ k.at = l /\ k.ctx = context /\ k.op = job[c].op /\ k.tab = job[c].tab
        /\ k.id = job[c].id /\ k.key = job[c].key
    BY <1>2, <1>3, JobFields DEF JobSet
  <1> HIDE DEF k
  <1>5. CallOK(k, context, serial) /\ ~Holding(k) /\ ~ClosesOwn(k)
    BY <1>1, <1>2, <1>3, <1>4 DEF CallOK, Holding, ClosesOwn
  <1> QED
    BY <1>1, <1>4, <1>5, CalmFree

LEMMA EndsDoes ==
    ASSUME Shapes, NEW c \in Clients, Fail(c) \/ Listed(c)
    PROVE  Calm(c)
  <1>1. /\ job[c].at \in {"create", "close", "list", "adopt"} /\ ~Holding(job[c])
        /\ UNCHANGED <<reg, engineVars, feeds, rec, pastVars>> /\ Put(c, Free)
    BY DEF Fail, Listed, At, Holding
  <1> QED
    BY <1>1, FreeIs, CalmFree

LEMMA LoseDoes ==
    ASSUME Shapes, NEW c \in Clients, CallOK(job[c], context, serial), Lose(c)
    PROVE  Calm(c)
  <1>1. /\ job[c].at = "admit" /\ UNCHANGED <<reg, engineVars, feeds, rec, pastVars>>
        /\ job[c].ctx \in 1 .. context /\ job[c].tab \in 1 .. MaxTabs /\ job[c] \in JobSet
    BY JobFields DEF Lose, At, CallOK
  <1>2. CASE job[c].op = "list"
    <2>1. Put(c, Onward(job[c])) /\ ~Holding(job[c])
      BY <1>1, <1>2 DEF Lose, Holding
    <2> QED
      BY <1>1, <2>1, OnwardIs, CalmFree
  <1>3. CASE job[c].op # "list"
    <2> DEFINE k == [job[c] EXCEPT !.at = "discard"]
    <2>0. "discard" \in Stages
      BY DEF Stages
    <2>1. /\ k \in JobSet /\ k.at = "discard" /\ k.op = job[c].op /\ k.tab = job[c].tab
          /\ k.ctx = job[c].ctx /\ k.id = job[c].id
      BY <1>1, <2>0, JobAt
    <2>2. Put(c, k)
      BY <1>3 DEF Lose
    <2> HIDE DEF k
    <2>3. Holding(job[c]) /\ job[c].op \in {"ensure", "open"} /\ Numbered(serial, k.ctx, k.id)
      BY <1>1, <1>3, <2>1 DEF CallOK, Holding
    <2>4. CallOK(k, context, serial) /\ ~ClosesOwn(k)
      BY <1>1, <2>1, <2>3 DEF CallOK, Holding, ClosesOwn
    <2>5. Stays(job[c], k) /\ Retains(job[c], k)
      BY <1>1, <2>1, <2>3 DEF Stays, Retains, Holding
    <2> QED
      BY <1>1, <2>1, <2>2, <2>4, <2>5, CalmBy
  <1> QED
    BY <1>2, <1>3

LEMMA CloseUnknownDoes ==
    ASSUME Shapes, NEW c \in Clients, CallOK(job[c], context, serial), CloseUnknown(c)
    PROVE  Calm(c)
  <1> DEFINE k == [job[c] EXCEPT !.at = "remove"]
  <1>1. /\ job[c].at = "lookup" /\ ~Holding(job[c]) /\ UNCHANGED <<reg, engineVars, feeds, rec, pastVars>>
        /\ job[c].ctx \in 1 .. context /\ job[c].tab = 0 /\ Put(c, k)
        /\ job[c].key \in 1 .. MaxTabs /\ job[c].id \in Ids
    BY DEF CloseUnknown, At, Holding, CallOK
  <1>2. /\ k \in JobSet /\ k.at = "remove" /\ k.tab = job[c].tab /\ k.ctx = job[c].ctx
        /\ k.id = job[c].id /\ k.key = job[c].key
    <2>1. job[c] \in JobSet /\ "remove" \in Stages
      BY JobFields DEF Stages
    <2> QED
      BY <2>1, JobAt
  <1> HIDE DEF k
  <1>3. CallOK(k, context, serial) /\ ~Holding(k) /\ ~ClosesOwn(k)
    BY <1>1, <1>2 DEF CallOK, Holding, ClosesOwn
  <1> QED
    BY <1>1, <1>2, <1>3, CalmFree

LEMMA ListForeignDoes ==
    ASSUME Shapes, NEW c \in Clients, CallOK(job[c], context, serial), ListForeign(c)
    PROVE  Calm(c)
  <1> DEFINE l == tabs \ DrivenTargets(engine)
             k == [job[c] EXCEPT !.at = "adopt", !.list = l]
  <1>1. /\ job[c].at = "list" /\ ~Holding(job[c]) /\ UNCHANGED <<reg, engineVars, feeds, rec, pastVars>>
        /\ job[c].ctx \in 1 .. context /\ job[c].op = "list" /\ Put(c, k)
    BY DEF ListForeign, At, Holding, CallOK
  <1>2. l \in SUBSET (1 .. MaxTabs)
    BY Counts
  <1> HIDE DEF l
  <1>3. k \in JobSet /\ k.at = "adopt" /\ k.ctx = job[c].ctx /\ k.op = job[c].op
    BY <1>2, JobFields DEF JobSet
  <1> HIDE DEF k
  <1>4. CallOK(k, context, serial) /\ ~Holding(k) /\ ~ClosesOwn(k)
    BY <1>1, <1>3 DEF CallOK, Holding, ClosesOwn
  <1> QED
    BY <1>1, <1>3, <1>4, CalmFree

LEMMA AdoptsDoes ==
    ASSUME Shapes, NEW c \in Clients, CallOK(job[c], context, serial), Skip(c) \/ Attach(c)
    PROVE  Calm(c)
  <1>1. /\ job[c].at = "adopt" /\ ~Holding(job[c]) /\ UNCHANGED <<reg, engineVars, feeds, rec, pastVars>>
        /\ job[c].ctx \in 1 .. context /\ job[c].op = "list" /\ job[c] \in JobSet
        /\ job[c].list \in SUBSET (1 .. MaxTabs)
    BY JobFields DEF Skip, Attach, At, Holding, CallOK
  <1>2. CASE Skip(c)
    <2>1. PICK t \in job[c].list : Put(c, [job[c] EXCEPT !.list = @ \ {t}])
      BY <1>2 DEF Skip
    <2> DEFINE k == [job[c] EXCEPT !.list = @ \ {t}]
    <2>2. k \in JobSet /\ k.at = job[c].at /\ k.ctx = job[c].ctx /\ k.op = job[c].op
      BY <1>1 DEF JobSet
    <2>3. Put(c, k)
      BY <2>1
    <2> HIDE DEF k
    <2>4. CallOK(k, context, serial) /\ ~Holding(k) /\ ~ClosesOwn(k)
      BY <1>1, <2>2 DEF CallOK, Holding, ClosesOwn
    <2> QED
      BY <1>1, <2>2, <2>3, <2>4, CalmFree
  <1>3. CASE Attach(c)
    <2>1. PICK t \in job[c].list \cap tabs :
              Put(c, [job[c] EXCEPT !.at = "attach", !.tab = t, !.id = ForeignId(t),
                                    !.list = @ \ {t}])
      BY <1>3 DEF Attach
    <2> DEFINE f == ForeignId(t)
               k == [job[c] EXCEPT !.at = "attach", !.tab = t, !.id = f, !.list = @ \ {t}]
    <2>2. t \in 1 .. MaxTabs /\ t \in 0 .. MaxTabs /\ f \in Ids \ OwnIds /\ f \in Ids \cup {OwnId(0)}
      BY <1>1, IdsAre
    <2>3. Put(c, k)
      BY <2>1
    <2> HIDE DEF f
    <2>4. /\ k \in JobSet /\ k.at = "attach" /\ k.ctx = job[c].ctx /\ k.op = job[c].op
          /\ k.tab = t /\ k.id = f
      BY <1>1, <2>2 DEF JobSet
    <2> HIDE DEF k
    <2>5. CallOK(k, context, serial) /\ ~Holding(k) /\ ~ClosesOwn(k)
      BY <1>1, <2>2, <2>4 DEF CallOK, Holding, ClosesOwn
    <2> QED
      BY <1>1, <2>3, <2>4, <2>5, CalmFree
  <1> QED
    BY <1>2, <1>3

LEMMA AttachFailsDoes ==
    ASSUME Shapes, NEW c \in Clients, CallOK(job[c], context, serial), AttachFails(c)
    PROVE  Calm(c)
  <1>1. /\ job[c].at = "attach" /\ ~Holding(job[c]) /\ UNCHANGED <<reg, engineVars, feeds, rec, pastVars>>
        /\ job[c].ctx \in 1 .. context /\ Put(c, Onward(job[c])) /\ job[c] \in JobSet
    BY JobFields DEF AttachFails, At, Holding, CallOK
  <1> QED
    BY <1>1, OnwardIs, CalmFree
-------------------------------------------------------------------------------
(* How the parts of the invariant are kept. *)

Rising(n, m) == \A e \in 1 .. MaxEngines : n[e] <= m[e]

\* what a call's step makes of the rest of the state
Frame(c) ==
    /\ Moves(c) /\ reg' \in RegSet /\ reg'.recovering = reg.recovering
    /\ born' \in born .. MaxTabs /\ windows' \subseteq tabs' /\ tabs' \subseteq 1 .. born'
    /\ driven' \in Drivens /\ serial' \in Serials /\ Rising(serial, serial')

LEMMA NumberedGrows ==
    ASSUME NEW n \in Serials, NEW m \in Serials, NEW e \in 1 .. MaxEngines, n[e] <= m[e],
           NEW id, Numbered(n, e, id)
    PROVE  Numbered(m, e, id)
  <1>1. PICK k \in 1 .. n[e] : id = OwnId(k)
    BY DEF Numbered
  <1>2. n[e] \in Nat /\ m[e] \in Nat
    BY DEF Serials
  <1>3. k \in 1 .. m[e]
    BY <1>1, <1>2
  <1> QED
    BY <1>1, <1>3 DEF Numbered

LEMMA NumberedOwn ==
    ASSUME NEW n \in Serials, NEW e \in 1 .. MaxEngines, NEW id, Numbered(n, e, id)
    PROVE  id \in OwnIds
  <1>1. n[e] \in Nat /\ n[e] <= MaxSerial /\ MaxSerial \in Nat
    BY PagesAssumption DEF Serials
  <1> QED
    BY <1>1, IdsAre DEF Numbered

LEMMA CallStays ==
    ASSUME NEW j, NEW a \in 1 .. MaxEngines, NEW b \in Nat, a <= b,
           NEW n \in Serials, NEW m \in Serials, Rising(n, m), CallOK(j, a, n)
    PROVE  CallOK(j, b, m)
  <1>1. \A e : e \in 1 .. a => e \in 1 .. b /\ e \in 1 .. MaxEngines
    BY PagesAssumption
  <1>2. Holding(j) => Numbered(m, j.ctx, j.id)
    <2>1. Holding(j) => j.ctx \in 1 .. MaxEngines /\ Numbered(n, j.ctx, j.id)
      BY <1>1 DEF CallOK, Holding
    <2> QED
      BY <2>1, NumberedGrows DEF Rising
  <1> QED
    BY <1>1, <1>2 DEF CallOK

LEMMA CallsKeep ==
    ASSUME Shapes, CallInv, context' \in Nat, context <= context', serial' \in Serials,
           Rising(serial, serial'),
           \A d \in Clients : job'[d] = job[d] \/ CallOK(job'[d], context', serial')
    PROVE  CallInv'
  <1>1. context \in 1 .. MaxEngines /\ serial \in Serials
    BY Counts DEF Shapes
  <1> SUFFICES ASSUME NEW d \in Clients PROVE CallOK(job'[d], context', serial')
    BY DEF CallInv
  <1>2. CASE job'[d] = job[d]
    <2>1. CallOK(job[d], context, serial)
      BY DEF CallInv
    <2> QED
      BY <1>1, <1>2, <2>1, CallStays
  <1> QED
    BY <1>2

LEMMA RestoredStays ==
    ASSUME Shapes, GateInv, RestoreInv, serial' \in Serials, Rising(serial, serial')
    PROVE  RestoredOK(rec, serial')
  <1>1. RestoredOK(rec, serial) /\ serial \in Serials /\ (rec.at # "idle" => rec.ctx \in 1 .. MaxEngines)
    BY Counts DEF RestoreInv, GateInv, Shapes
  <1>2. \A id : rec.at # "idle" /\ Numbered(serial, rec.ctx, id) => Numbered(serial', rec.ctx, id)
    BY <1>1, NumberedGrows DEF Rising
  <1>3. ASSUME NEW i \in DOMAIN rec.restored
        PROVE  rec.restored[i].ctx = rec.ctx /\ Numbered(serial', rec.ctx, rec.restored[i].id)
    <2>1. rec.at # "idle"
      BY <1>1, EmptySeq DEF RestoredOK
    <2> QED
      BY <1>1, <1>2, <2>1 DEF RestoredOK
  <1>4. Rebuilding(rec) => Numbered(serial', rec.ctx, rec.id)
    BY <1>1, <1>2 DEF RestoredOK, Rebuilding
  <1> QED
    BY <1>1, <1>3, <1>4 DEF RestoredOK

LEMMA FrameKeeps ==
    ASSUME PagesInv, NEW c \in Clients, Frame(c)
    PROVE  Shapes' /\ CallInv' /\ GateInv' /\ RestoredOK(rec, serial') /\ rec' = rec
  <1>1. Shapes'
    <2>1. born' \in 0 .. MaxTabs
      BY PagesAssumption, Counts DEF PagesInv, Frame
    <2> QED
      BY <2>1 DEF PagesInv, Shapes, Frame, Moves, Others
  <1>2. CallInv'
    <2>1. /\ Shapes /\ CallInv /\ context' \in Nat /\ context <= context' /\ serial' \in Serials
          /\ Rising(serial, serial')
      BY Counts DEF PagesInv, Frame, Moves
    <2>2. \A d \in Clients : job'[d] = job[d] \/ CallOK(job'[d], context', serial')
      BY DEF Frame, Moves, Others
    <2> QED
      BY <2>1, <2>2, CallsKeep
  <1>3. GateInv'
    BY DEF PagesInv, GateInv, Frame, Moves
  <1>4. RestoredOK(rec, serial')
    BY RestoredStays DEF PagesInv, Frame
  <1> QED
    BY <1>1, <1>2, <1>3, <1>4 DEF Frame, Moves

LEMMA HoldKeeps ==
    ASSUME HoldInv, \A d \in Clients : Stays(job[d], job'[d]),
           \A d \in Clients : Holding(job[d]) /\ Holding(job'[d]) =>
               Apart(job[d], reg'.slots, rec') /\ HeldIn(job[d], driven')
    PROVE  HoldInv'
  <1>1. ASSUME NEW d \in Clients, Holding(job'[d])
        PROVE  Apart(job'[d], reg'.slots, rec') /\ HeldIn(job'[d], driven')
    <2>1. /\ Holding(job[d]) /\ job'[d].ctx = job[d].ctx /\ job'[d].id = job[d].id
          /\ job'[d].tab = job[d].tab /\ (job'[d].at = "prepare" => job[d].at = "prepare")
      BY <1>1 DEF Stays
    <2>2. Apart(job[d], reg'.slots, rec') /\ HeldIn(job[d], driven')
      BY <1>1, <2>1
    <2>3. Apart(job'[d], reg'.slots, rec')
      BY <2>1, <2>2 DEF Apart
    <2>4. HeldIn(job'[d], driven')
      BY <2>1, <2>2 DEF HeldIn
    <2> QED
      BY <2>3, <2>4
  <1>2. ASSUME NEW b \in Clients, NEW d \in Clients, Holding(job'[b]), Holding(job'[d]),
               job'[b].ctx = job'[d].ctx, job'[b].id = job'[d].id
        PROVE  b = d
    BY <1>2 DEF HoldInv, Stays
  <1> QED
    BY <1>1, <1>2 DEF HoldInv

LEMMA StaysAll ==
    ASSUME NEW c \in Clients, Others(c), Stays(job[c], job'[c])
    PROVE  \A d \in Clients : Stays(job[d], job'[d])
  BY DEF Others, Stays

LEMMA HeldIs ==
    ASSUME PagesInv, NEW d \in Clients, Holding(job[d])
    PROVE  /\ Apart(job[d], reg.slots, rec) /\ HeldIn(job[d], driven)
           /\ job[d].ctx \in 1 .. context /\ job[d].ctx \in 1 .. MaxEngines
           /\ Numbered(serial, job[d].ctx, job[d].id) /\ job[d].id \in OwnIds
           /\ job[d].tab \in 1 .. MaxTabs
  <1>1. CallOK(job[d], context, serial) /\ Shapes /\ HoldInv
    BY DEF PagesInv, CallInv
  <1>2. /\ job[d].ctx \in 1 .. context /\ Numbered(serial, job[d].ctx, job[d].id)
        /\ job[d].tab \in 1 .. MaxTabs
    BY <1>1 DEF CallOK, Holding
  <1>3. job[d].ctx \in 1 .. MaxEngines /\ serial \in Serials
    BY <1>1, <1>2, Counts, PagesAssumption DEF Shapes
  <1> QED
    BY <1>1, <1>2, <1>3, NumberedOwn DEF HoldInv

LEMMA CountKeeps ==
    ASSUME Shapes, CountInv, serial' \in Serials, Rising(serial, serial'), born' \in Nat, born <= born',
           \A id \in OwnIds, e \in 1 .. MaxEngines : Occurs(reg'.slots, id, e) =>
               Occurs(reg.slots, id, e) \/ Numbered(serial', e, id),
           \A e \in 1 .. MaxEngines : \A d \in driven'[e] :
               d \in driven[e] \/ (d.id \in OwnIds => Numbered(serial', e, d.id) /\ d.tab \in 1 .. born')
    PROVE  CountInv'
  <1>1. serial \in Serials /\ born \in Nat
    BY Counts DEF Shapes
  <1>2. \A id : \A e \in 1 .. MaxEngines : Numbered(serial, e, id) => Numbered(serial', e, id)
    BY <1>1, NumberedGrows DEF Rising
  <1>3. ListCounted(reg'.slots, serial')
    BY <1>2 DEF CountInv, ListCounted
  <1>4. DrivenCounted(driven', serial', born')
    <2> SUFFICES ASSUME NEW e \in 1 .. MaxEngines, NEW d \in driven'[e], d \in driven[e], d.id \in OwnIds
                 PROVE  Numbered(serial', e, d.id) /\ d.tab \in 1 .. born'
      BY DEF DrivenCounted
    <2>1. Numbered(serial, e, d.id) /\ d.tab \in 1 .. born
      BY DEF CountInv, DrivenCounted
    <2> QED
      BY <1>1, <1>2, <2>1
  <1> QED
    BY <1>3, <1>4 DEF CountInv

LEMMA ActiveKeeps ==
    ASSUME ActiveInv, SomeAct(reg.slots) => Led(reg'.slots),
           \A d \in Clients : job[d].at = "activate" => job'[d] = job[d],
           \A id \in OwnIds : Has(reg'.slots, id) => Has(reg.slots, id) \/ AboutTo(job', id)
    PROVE  ActiveInv'
  <1>1. \A id : AboutTo(job, id) => AboutTo(job', id)
    BY DEF AboutTo
  <1> QED
    BY <1>1 DEF ActiveInv, Led

LEMMA RisingIs ==
    ASSUME Shapes
    PROVE  Rising(serial, serial) /\ born \in born .. MaxTabs /\ born <= born /\ serial \in Serials
  BY Counts, PagesAssumption DEF Rising, Shapes

LEMMA LightKeeps ==
    ASSUME PagesInv, NEW c \in Clients, Light(c)
    PROVE  PagesInv'
  <1>1. /\ Shapes /\ Others(c) /\ Stays(job[c], job'[c]) /\ job[c].at # "activate" /\ Moves(c)
        /\ UNCHANGED <<reg, context, engine, engines, tabs, windows, driven, serial, born, rec>>
    BY DEF PagesInv, Light, Moves, engineVars
  <1>2. Frame(c)
    BY <1>1, RisingIs DEF Frame, Shapes
  <1>3. Shapes' /\ CallInv' /\ GateInv' /\ RestoredOK(rec, serial')
    BY <1>2, FrameKeeps
  <1>4. HoldInv'
    <2>1. \A d \in Clients : Holding(job[d]) =>
             Apart(job[d], reg'.slots, rec') /\ HeldIn(job[d], driven')
      BY <1>1, HeldIs
    <2> QED
      BY <1>1, <2>1, StaysAll, HoldKeeps DEF PagesInv
  <1>5. RestoreInv' /\ CountInv'
    BY <1>1 DEF PagesInv, RestoreInv, CountInv
  <1>6. ActiveInv'
    <2>1. \A d \in Clients : job[d].at = "activate" => job'[d] = job[d]
      BY <1>1 DEF Others
    <2>2. SomeAct(reg.slots) => Led(reg'.slots)
      BY <1>1 DEF Led
    <2> QED
      BY <1>1, <2>1, <2>2, ActiveKeeps DEF PagesInv
  <1> QED
    BY <1>1, <1>3, <1>4, <1>5, <1>6 DEF PagesInv
-------------------------------------------------------------------------------
(* The steps that take the registry or the feeds. *)

LEMMA StartFeedDoes ==
    ASSUME PagesInv, NEW c \in Clients, StartFeed(c)
    PROVE  /\ Light(c) /\ job[c].at = "feed" /\ job[c].id \in Ids /\ ~ClosesOwn(job'[c])
           /\ feeds' = feeds \cup {job[c].id}
           /\ late' = IF Contains(reg, job[c].id) /\ ~reg.recovering THEN late
                      ELSE late \cup {job[c].id}
           /\ UNCHANGED <<retired, unclosed, mistaken>>
  <1>1. /\ Shapes /\ CallOK(job[c], context, serial) /\ job[c].at = "feed" /\ job[c] \in JobSet
        /\ UNCHANGED <<reg, engineVars, rec, retired, unclosed, mistaken>>
        /\ job[c].id \in Ids \cup {OwnId(0)} /\ job[c].tab \in 0 .. MaxTabs
    BY JobFields DEF PagesInv, CallInv, StartFeed, At
  <1>2. job[c].ctx \in 1 .. context /\ job[c].id \in Ids
    BY <1>1 DEF CallOK
  <1> DEFINE k == IF job[c].op = "list" THEN Onward(job[c]) ELSE Working(job[c].id, job[c].tab)
  <1>3. /\ k \in JobSet /\ CallOK(k, context, serial) /\ ~Holding(k) /\ ~ClosesOwn(k)
    BY <1>1, <1>2, OnwardIs, WorkingIs
  <1>4. Put(c, k)
    BY DEF StartFeed
  <1> HIDE DEF k
  <1>5. Light(c) /\ job'[c] = k
    <2>1. Stays(job[c], k)
      BY <1>3 DEF Stays
    <2> QED
      BY <1>1, <1>3, <1>4, <2>1, LightBy
  <1> QED
    BY <1>1, <1>2, <1>3, <1>5 DEF StartFeed

LEMMA DropFeedDoes ==
    ASSUME PagesInv, NEW c \in Clients, DropFeed(c)
    PROVE  /\ Light(c) /\ job[c].at = "unfeed" /\ ~ClosesOwn(job'[c])
           /\ feeds' = feeds \ {job[c].id} /\ late' = late \ {job[c].id}
           /\ retired' = retired \cup {job[c].key} /\ job[c].key \in 0 .. MaxTabs
           /\ UNCHANGED <<unclosed, mistaken>>
  <1>1. /\ Shapes /\ job[c].at = "unfeed" /\ UNCHANGED <<reg, engineVars, rec, unclosed, mistaken>>
        /\ Put(c, Free) /\ job[c].key \in 0 .. MaxTabs
    BY JobFields DEF PagesInv, DropFeed, At
  <1>2. Stays(job[c], Free)
    BY FreeIs DEF Stays
  <1>3. Light(c) /\ job'[c] = Free
    BY <1>1, <1>2, FreeIs, LightBy
  <1> QED
    BY <1>1, <1>3, FreeIs DEF DropFeed

LEMMA AfterIs ==
    ASSUME NEW j
    PROVE  /\ After(j) \in JobSet /\ ~Holding(After(j)) /\ ~ClosesOwn(After(j))
           /\ \A ctx, n : CallOK(After(j), ctx, n)
  <1>1. CASE j.op = "ensure"
    <2> DEFINE k == [Free EXCEPT !.at = "fallback"]
    <2>1. k \in JobSet /\ k.at = "fallback" /\ After(j) = k
      BY <1>1, FreeIs DEF JobSet, After
    <2> HIDE DEF k
    <2> QED
      BY <2>1 DEF CallOK, Holding, ClosesOwn
  <1>2. CASE j.op # "ensure"
    BY <1>2, FreeIs DEF After
  <1> QED
    BY <1>1, <1>2

LEMMA DiscardFailsDoes ==
    ASSUME PagesInv, NEW c \in Clients, DiscardFails(c)
    PROVE  /\ Light(c) /\ job[c].at = "discard" /\ ~ClosesOwn(job'[c])
           /\ unclosed' = unclosed \cup {job[c].tab} /\ job[c].tab \in 0 .. MaxTabs
           /\ UNCHANGED <<feeds, retired, mistaken, late>>
  <1>1. /\ Shapes /\ job[c].at = "discard" /\ UNCHANGED <<reg, engineVars, rec>>
        /\ Put(c, After(job[c])) /\ job[c].tab \in 0 .. MaxTabs
    BY JobFields DEF PagesInv, DiscardFails, At
  <1>2. Stays(job[c], After(job[c]))
    BY AfterIs DEF Stays
  <1>3. Light(c) /\ job'[c] = After(job[c])
    BY <1>1, <1>2, AfterIs, LightBy
  <1> QED
    BY <1>1, <1>3, AfterIs DEF DiscardFails

LEMMA CloseTargetDoes ==
    ASSUME PagesInv, NEW c \in Clients, CloseTarget(c)
    PROVE  /\ Light(c) /\ job[c].at = "lookup" /\ job'[c].at = "close"
           /\ job'[c].ctx = job[c].ctx /\ job'[c].id = job[c].id
           /\ \E d \in driven[job[c].ctx] : d.id = job[c].id
           /\ UNCHANGED <<feeds, pastVars>>
  <1>1. /\ Shapes /\ CallOK(job[c], context, serial) /\ job[c].at = "lookup" /\ job[c] \in JobSet
        /\ UNCHANGED <<reg, engineVars, feeds, rec, pastVars>>
        /\ Registered(job[c].ctx, job[c].id)
    BY JobFields DEF PagesInv, CallInv, CloseTarget, At
  <1>2. /\ job[c].ctx \in 1 .. context /\ job[c].ctx \in 1 .. MaxEngines
        /\ job[c].id \in Ids /\ job[c].key \in 1 .. MaxTabs
    BY <1>1, Counts, PagesAssumption DEF CallOK
  <1> DEFINE t == TabOf(job[c].ctx, job[c].id)
             k == [job[c] EXCEPT !.at = "close", !.tab = t]
  <1>3. t \in 0 .. MaxTabs
    <2>1. (CHOOSE d \in driven[job[c].ctx] : d.id = job[c].id) \in driven[job[c].ctx]
      BY <1>1 DEF Registered
    <2>2. (CHOOSE d \in driven[job[c].ctx] : d.id = job[c].id) \in DrivenSet
      BY <1>1, <1>2, <2>1, Counts
    <2> QED
      BY <2>2, PagesAssumption DEF DrivenSet, TabOf
  <1>4. Put(c, k)
    BY DEF CloseTarget
  <1> HIDE DEF t
  <1>5. /\ k \in JobSet /\ k.at = "close" /\ k.ctx = job[c].ctx /\ k.id = job[c].id
        /\ k.key = job[c].key
    BY <1>1, <1>3 DEF JobSet
  <1> HIDE DEF k
  <1>6. CallOK(k, context, serial) /\ ~Holding(k)
    BY <1>2, <1>5 DEF CallOK, Holding
  <1>7. Light(c) /\ job'[c] = k
    <2>1. Stays(job[c], k)
      BY <1>6 DEF Stays
    <2> QED
      BY <1>1, <1>4, <1>5, <1>6, <2>1, LightBy
  <1> QED
    BY <1>1, <1>5, <1>7 DEF Registered

\* a page offered by a call enters the list
Admits(c) ==
    /\ Moves(c) /\ ~Holding(job'[c]) /\ ~ClosesOwn(job'[c]) /\ job'[c].id = job[c].id
    /\ job[c].at = "admit" /\ Offered(job[c]) \in SlotSet
    /\ reg' \in RegSet /\ reg'.recovering = reg.recovering /\ ~reg.recovering
    /\ OneMore(reg.slots, reg'.slots, Offered(job[c]))
    /\ UNCHANGED <<engineVars, feeds, rec, pastVars>>

LEMMA OfferedFields ==
    ASSUME NEW j
    PROVE  /\ Offered(j).id = j.id /\ Offered(j).tab = j.tab /\ Offered(j).ctx = j.ctx
           /\ ~Offered(j).active
  BY DEF Offered, Slot

LEMMA AdmittedIs ==
    ASSUME PagesInv, NEW c \in Clients, job[c].at = "admit", NEW l \in {"activate", "feed"},
           Put(c, [job[c] EXCEPT !.at = l]), UNCHANGED <<engineVars, feeds, rec, pastVars>>
    PROVE  /\ Moves(c) /\ ~Holding(job'[c]) /\ ~ClosesOwn(job'[c]) /\ job'[c].id = job[c].id
           /\ job'[c].at = l /\ Offered(job[c]) \in SlotSet
  <1> DEFINE j == job[c]
             k == [j EXCEPT !.at = l]
  <1>1. Shapes /\ CallOK(j, context, serial) /\ j \in JobSet /\ serial \in Serials
    BY JobFields DEF PagesInv, CallInv, Shapes
  <1>2. j.ctx \in 1 .. context /\ j.tab \in 1 .. MaxTabs /\ j.ctx \in 1 .. MaxEngines
    BY <1>1, Counts, PagesAssumption DEF CallOK
  <1>3. j.id \in Ids
    <2>1. CASE j.op = "list"
      BY <1>1, <2>1 DEF CallOK
    <2>2. CASE j.op # "list"
      <3>1. Numbered(serial, j.ctx, j.id)
        BY <1>1, <2>2 DEF CallOK, Holding
      <3> QED
        BY <1>1, <1>2, <3>1, NumberedOwn, IdsAre
    <2> QED
      BY <2>1, <2>2
  <1>4. Offered(j) \in SlotSet
    BY <1>2, <1>3 DEF Offered, Slot, SlotSet, Urls
  <1>5. k \in JobSet /\ k.at = l /\ k.id = j.id /\ k.ctx = j.ctx
    <2>1. l \in Stages
      BY DEF Stages
    <2> QED
      BY <1>1, <2>1, JobAt
  <1>6. Put(c, k)
    OBVIOUS
  <1> HIDE DEF k
  <1>7. CallOK(k, context, serial) /\ ~Holding(k) /\ ~ClosesOwn(k)
    BY <1>2, <1>3, <1>5 DEF CallOK, Holding, ClosesOwn
  <1>8. Others(c) /\ job'[c] = k
    BY <1>1, <1>5, <1>6, PutIs
  <1> QED
    BY <1>4, <1>5, <1>7, <1>8 DEF Moves, engineVars

LEMMA AdmitFirstDoes ==
    ASSUME PagesInv, NEW c \in Clients, AdmitFirst(c)
    PROVE  Admits(c) /\ job[c].op = "ensure" /\ SomeAct(reg'.slots) /\ OneAct(reg'.slots)
  <1>1. /\ job[c].at = "admit" /\ job[c].op = "ensure" /\ CanAdmitActive(reg) /\ reg \in RegSet
        /\ reg' = AdmitActive(reg, Offered(job[c])) /\ Put(c, [job[c] EXCEPT !.at = "feed"])
        /\ UNCHANGED <<engineVars, feeds, rec, pastVars>>
    BY DEF PagesInv, Shapes, AdmitFirst, At
  <1>2. /\ Moves(c) /\ ~Holding(job'[c]) /\ ~ClosesOwn(job'[c]) /\ job'[c].id = job[c].id
        /\ Offered(job[c]) \in SlotSet
    BY <1>1, AdmittedIs
  <1> QED
    BY <1>1, <1>2, AdmitActiveDoes DEF Admits

LEMMA AdmitMoreDoes ==
    ASSUME PagesInv, NEW c \in Clients, AdmitMore(c)
    PROVE  /\ Admits(c) /\ job[c].op # "ensure" /\ ~Has(reg.slots, job[c].id)
           /\ SomeAct(reg.slots) => SomeAct(reg'.slots)
           /\ OneAct(reg.slots) => OneAct(reg'.slots)
           /\ job[c].op # "list" => job'[c].at = "activate"
  <1> DEFINE l == IF job[c].op = "open" THEN "activate" ELSE "feed"
  <1>1. /\ job[c].at = "admit" /\ job[c].op # "ensure" /\ CanAdmit(reg, Offered(job[c]))
        /\ reg' = Admit(reg, Offered(job[c])) /\ Put(c, [job[c] EXCEPT !.at = l])
        /\ UNCHANGED <<engineVars, feeds, rec, pastVars>> /\ reg \in RegSet
        /\ CallOK(job[c], context, serial) /\ l \in {"activate", "feed"}
    BY DEF PagesInv, CallInv, Shapes, AdmitMore, At
  <1>2. job[c].op # "list" => l = "activate"
    BY <1>1 DEF CallOK, Holding
  <1> HIDE DEF l
  <1>3. /\ Moves(c) /\ ~Holding(job'[c]) /\ ~ClosesOwn(job'[c]) /\ job'[c].id = job[c].id
        /\ Offered(job[c]) \in SlotSet /\ job'[c].at = l
    BY <1>1, AdmittedIs
  <1> QED
    BY <1>1, <1>2, <1>3, OfferedFields, AdmitDoes DEF Admits

LEMMA RegKeeps ==
    ASSUME PagesInv, NEW c \in Clients, Moves(c), Stays(job[c], job'[c]), UNCHANGED engineVars,
           reg' \in RegSet, reg'.recovering = reg.recovering, UniqueOn(reg'.slots), ActiveInv',
           \A d \in Clients : Holding(job[d]) /\ Holding(job'[d]) =>
               ~Occurs(reg'.slots, job[d].id, job[d].ctx),
           \A id \in OwnIds, e \in 1 .. MaxEngines : Occurs(reg'.slots, id, e) =>
               Occurs(reg.slots, id, e) \/ Numbered(serial, e, id)
    PROVE  PagesInv'
  <1>1. /\ Shapes /\ Others(c) /\ rec' = rec
        /\ UNCHANGED <<context, engine, engines, tabs, windows, driven, serial, born>>
    BY DEF PagesInv, Moves, engineVars
  <1>2. Frame(c)
    BY <1>1, RisingIs DEF Frame, Shapes
  <1>3. Shapes' /\ CallInv' /\ GateInv' /\ RestoredOK(rec, serial')
    BY <1>2, FrameKeeps
  <1>4. HoldInv'
    <2>1. \A d \in Clients : Holding(job[d]) /\ Holding(job'[d]) =>
             Apart(job[d], reg'.slots, rec') /\ HeldIn(job[d], driven')
      BY <1>1, HeldIs DEF Apart
    <2> QED
      BY <1>1, <2>1, StaysAll, HoldKeeps DEF PagesInv
  <1>5. RestoreInv'
    BY <1>1 DEF PagesInv, RestoreInv
  <1>6. CountInv'
    <2>1. \A id \in OwnIds, e \in 1 .. MaxEngines : Occurs(reg'.slots, id, e) =>
               Occurs(reg.slots, id, e) \/ Numbered(serial', e, id)
      BY <1>1
    <2>2. /\ serial' \in Serials /\ Rising(serial, serial') /\ born' \in Nat /\ born <= born'
          /\ \A e \in 1 .. MaxEngines : driven'[e] = driven[e]
      BY <1>1, RisingIs, Counts
    <2> QED
      BY <1>1, <2>1, <2>2, CountKeeps DEF PagesInv
  <1> QED
    BY <1>3, <1>4, <1>5, <1>6 DEF PagesInv

LEMMA AdmitKeeps ==
    ASSUME PagesInv, NEW c \in Clients, AdmitFirst(c) \/ AdmitMore(c)
    PROVE  PagesInv'
  <1> DEFINE x == Offered(job[c])
  <1>1. /\ Admits(c) /\ (SomeAct(reg.slots) => SomeAct(reg'.slots))
        /\ \/ SomeAct(reg'.slots) /\ job[c].op = "ensure"
           \/ ~Has(reg.slots, job[c].id) /\ (job[c].op # "list" => job'[c].at = "activate")
    BY AdmitFirstDoes, AdmitMoreDoes
  <1>2. /\ Moves(c) /\ Others(c) /\ ~Holding(job'[c]) /\ job'[c].id = job[c].id /\ job[c].at = "admit"
        /\ reg' \in RegSet /\ reg'.recovering = reg.recovering /\ UNCHANGED engineVars
        /\ OneMore(reg.slots, reg'.slots, x) /\ x.id = job[c].id /\ x.ctx = job[c].ctx
    BY <1>1, OfferedFields DEF Admits, Moves
  <1>3. CallOK(job[c], context, serial) /\ UniqueOn(reg.slots) /\ HoldInv /\ ActiveInv
    BY DEF PagesInv, CallInv
  <1> HIDE DEF x
  <1>4. ~Occurs(reg.slots, job[c].id, job[c].ctx)
    <2>1. CASE Holding(job[c])
      BY <2>1, HeldIs DEF Apart
    <2>2. CASE ~Holding(job[c])
      <3>1. ~Has(reg.slots, job[c].id)
        BY <1>1, <1>2, <2>2 DEF Holding
      <3> QED
        BY <3>1 DEF Has, Occurs
    <2> QED
      BY <2>1, <2>2
  <1>5. UniqueOn(reg'.slots)
    BY <1>2, <1>3, <1>4 DEF OneMore
  <1>6. \A d \in Clients : Holding(job[d]) /\ Holding(job'[d]) =>
             ~Occurs(reg'.slots, job[d].id, job[d].ctx)
    <2> SUFFICES ASSUME NEW d \in Clients, Holding(job[d]), Holding(job'[d])
                 PROVE  ~Occurs(reg'.slots, job[d].id, job[d].ctx)
      OBVIOUS
    <2>1. ~Occurs(reg.slots, job[d].id, job[d].ctx)
      BY HeldIs DEF Apart
    <2>2. d # c
      BY <1>2
    <2>3. ~(job[d].id = x.id /\ job[d].ctx = x.ctx)
      <3>1. CASE Holding(job[c])
        BY <1>2, <1>3, <2>2, <3>1 DEF HoldInv
      <3>2. CASE ~Holding(job[c])
        <4>1. job[c].id \notin OwnIds
          BY <1>2, <1>3, <3>2 DEF Holding, CallOK
        <4> QED
          BY <1>2, <4>1, HeldIs
      <3> QED
        BY <3>1, <3>2
    <2> QED
      BY <1>2, <2>1, <2>3 DEF OneMore
  <1>7. \A id \in OwnIds, e \in 1 .. MaxEngines : Occurs(reg'.slots, id, e) =>
             Occurs(reg.slots, id, e) \/ Numbered(serial, e, id)
    <2>1. x.id \in OwnIds => Numbered(serial, x.ctx, x.id)
      BY <1>2, <1>3 DEF Holding, CallOK
    <2> QED
      BY <1>2, <2>1 DEF OneMore
  <1>8. ActiveInv'
    <2>1. \A id \in OwnIds : Has(reg'.slots, id) => Has(reg.slots, id) \/ id = job[c].id
      BY <1>2 DEF OneMore
    <2>2. CASE SomeAct(reg'.slots)
      BY <2>2 DEF ActiveInv
    <2>3. CASE ~SomeAct(reg'.slots)
      <3>1. job[c].id \in OwnIds => job'[c].at = "activate"
        BY <1>1, <1>2, <1>3, <2>3 DEF CallOK
      <3>2. \A d \in Clients : job[d].at = "activate" => job'[d] = job[d]
        BY <1>2 DEF Others
      <3>3. \A id \in OwnIds : Has(reg'.slots, id) => Has(reg.slots, id) \/ AboutTo(job', id)
        BY <1>2, <2>1, <3>1 DEF AboutTo
      <3> QED
        BY <1>1, <1>3, <3>2, <3>3, ActiveKeeps DEF Led
    <2> QED
      BY <2>2, <2>3
  <1>9. Stays(job[c], job'[c])
    BY <1>2 DEF Stays
  <1> QED
    BY <1>2, <1>5, <1>6, <1>7, <1>8, <1>9, RegKeeps

\* the list keeps its pages, whatever becomes of their flags and URLs
Relists(c) ==
    /\ Others(c) /\ ~Holding(job'[c]) /\ ~ClosesOwn(job'[c]) /\ CallOK(job'[c], context', serial')
    /\ ~Holding(job[c]) /\ job[c].at # "unfeed"
    /\ reg' \in RegSet /\ reg'.recovering = reg.recovering /\ SameTabs(reg.slots, reg'.slots)
    /\ SomeAct(reg.slots) => SomeAct(reg'.slots)
    /\ Unique(reg.slots) /\ OneAct(reg.slots) => OneAct(reg'.slots)
    /\ job[c].at = "activate" => (Has(reg.slots, job[c].id) => SomeAct(reg'.slots))
    /\ UNCHANGED <<engineVars, feeds, rec, pastVars>>

LEMMA SelectDoes ==
    ASSUME PagesInv, NEW c \in Clients, NEW i \in Indices(reg), Select(c, i)
    PROVE  Relists(c)
  <1>1. /\ Shapes /\ job[c].at = "idle" /\ job' = job /\ CallOK(job[c], context, serial)
        /\ reg' = Activate(reg, reg.slots[i].id) /\ reg \in RegSet
        /\ UNCHANGED <<engineVars, feeds, rec, pastVars>>
    BY DEF PagesInv, CallInv, Shapes, Select, At
  <1>2. Others(c) /\ ~Holding(job[c]) /\ ~ClosesOwn(job[c])
    BY <1>1 DEF Others, Shapes, Holding, ClosesOwn
  <1>3. /\ reg' \in RegSet /\ reg'.recovering = reg.recovering /\ SameTabs(reg.slots, reg'.slots)
        /\ SomeAct(reg.slots) => SomeAct(reg'.slots)
        /\ Unique(reg.slots) /\ OneAct(reg.slots) => OneAct(reg'.slots)
    BY <1>1, ActivateDoes
  <1>4. CallOK(job'[c], context', serial')
    BY <1>1 DEF engineVars
  <1> QED
    BY <1>1, <1>2, <1>3, <1>4 DEF Relists

LEMMA ActivateOwnDoes ==
    ASSUME PagesInv, NEW c \in Clients, ActivateOwn(c)
    PROVE  Relists(c)
  <1> DEFINE k == [job[c] EXCEPT !.at = "feed"]
  <1>1. /\ Shapes /\ job[c].at = "activate" /\ CallOK(job[c], context, serial) /\ job[c] \in JobSet
        /\ reg' = Activate(reg, job[c].id) /\ reg \in RegSet /\ Put(c, k)
        /\ UNCHANGED <<engineVars, feeds, rec, pastVars>>
    BY JobFields DEF PagesInv, CallInv, Shapes, ActivateOwn, At
  <1>2. k \in JobSet /\ k.at = "feed" /\ k.ctx = job[c].ctx /\ k.id = job[c].id
    <2>1. "feed" \in Stages
      BY DEF Stages
    <2> QED
      BY <1>1, <2>1, JobAt
  <1> HIDE DEF k
  <1>3. CallOK(k, context, serial) /\ ~Holding(k) /\ ~ClosesOwn(k)
    BY <1>1, <1>2 DEF CallOK, Holding, ClosesOwn
  <1>4. Others(c) /\ job'[c] = k
    BY <1>1, <1>2, PutIs
  <1>5. CallOK(job'[c], context', serial')
    BY <1>1, <1>3, <1>4 DEF engineVars
  <1>6. /\ reg' \in RegSet /\ reg'.recovering = reg.recovering /\ SameTabs(reg.slots, reg'.slots)
        /\ SomeAct(reg.slots) \/ Has(reg.slots, job[c].id) => SomeAct(reg'.slots)
        /\ Unique(reg.slots) /\ OneAct(reg.slots) => OneAct(reg'.slots)
    BY <1>1, ActivateDoes
  <1>7. ~Holding(job[c])
    BY <1>1 DEF Holding
  <1> QED
    BY <1>1, <1>3, <1>4, <1>5, <1>6, <1>7 DEF Relists

LEMMA ActDoes ==
    ASSUME PagesInv, NEW c \in Clients, Act(c)
    PROVE  Relists(c)
  <1>1. /\ Shapes /\ job[c].at = "act" /\ reg \in RegSet /\ Put(c, Free)
        /\ reg' = reg \/ reg' = SetUrl(reg, job[c].id, "site")
        /\ UNCHANGED <<engineVars, feeds, rec, pastVars>>
    BY DEF PagesInv, Shapes, Act, At
  <1>2. Others(c) /\ job'[c] = Free
    BY <1>1, FreeIs, PutIs
  <1>3. /\ reg' \in RegSet /\ reg'.recovering = reg.recovering /\ SameTabs(reg.slots, reg'.slots)
        /\ SomeAct(reg.slots) => SomeAct(reg'.slots)
        /\ Unique(reg.slots) /\ OneAct(reg.slots) => OneAct(reg'.slots)
    <2>1. "site" \in Urls /\ SameTabs(reg.slots, reg.slots)
      BY SameIds DEF Urls
    <2> QED
      BY <1>1, <2>1, SetUrlDoes
  <1>4. ~Holding(job[c])
    BY <1>1 DEF Holding
  <1> QED
    BY <1>1, <1>2, <1>3, <1>4, FreeIs DEF Relists

LEMMA RelistKeeps ==
    ASSUME PagesInv, NEW c \in Clients, Relists(c)
    PROVE  PagesInv'
  <1>1. /\ Others(c) /\ ~Holding(job'[c]) /\ reg' \in RegSet /\ reg'.recovering = reg.recovering
        /\ SameTabs(reg.slots, reg'.slots) /\ UNCHANGED <<engineVars, rec>>
        /\ SomeAct(reg.slots) => SomeAct(reg'.slots)
        /\ job[c].at = "activate" => (Has(reg.slots, job[c].id) => SomeAct(reg'.slots))
    BY DEF Relists
  <1>2. Moves(c)
    BY DEF Relists, Moves, engineVars
  <1>3. Stays(job[c], job'[c])
    BY <1>1 DEF Stays
  <1>4. UniqueOn(reg'.slots)
    BY <1>1 DEF SameTabs, PagesInv
  <1>5. \A d \in Clients : Holding(job[d]) /\ Holding(job'[d]) =>
             ~Occurs(reg'.slots, job[d].id, job[d].ctx)
    BY <1>1, HeldIs DEF SameTabs, Apart
  <1>6. \A id \in OwnIds, e \in 1 .. MaxEngines : Occurs(reg'.slots, id, e) =>
             Occurs(reg.slots, id, e) \/ Numbered(serial, e, id)
    BY <1>1 DEF SameTabs
  <1>7. ActiveInv'
    <2>1. CASE SomeAct(reg'.slots)
      BY <2>1 DEF ActiveInv
    <2>2. CASE ~SomeAct(reg'.slots)
      <3>1. ASSUME NEW id \in OwnIds, Has(reg'.slots, id)
            PROVE  AboutTo(job', id)
        <4>1. Has(reg.slots, id) /\ ~SomeAct(reg.slots)
          BY <1>1, <2>2, <3>1 DEF SameTabs
        <4>2. PICK d \in Clients : job[d].at = "activate" /\ job[d].id = id
          BY <4>1 DEF PagesInv, ActiveInv, AboutTo
        <4>3. d # c
          BY <1>1, <2>2, <4>1, <4>2
        <4> QED
          BY <1>1, <4>2, <4>3 DEF Others, AboutTo
      <3> QED
        BY <3>1 DEF ActiveInv
    <2> QED
      BY <2>1, <2>2
  <1> QED
    BY <1>1, <1>2, <1>3, <1>4, <1>5, <1>6, <1>7, RegKeeps

\* a call closed a page and takes its slot off the list, if there is one
Removes(c) ==
    /\ Moves(c) /\ job[c].at = "remove" /\ ~Holding(job'[c]) /\ ~ClosesOwn(job'[c])
    /\ job'[c].at = "unfeed" /\ job'[c].id = job[c].id
    /\ reg' \in RegSet /\ reg'.recovering = reg.recovering
    /\ SomeAct(reg.slots) => Led(reg'.slots)
    /\ OneAct(reg.slots) => OneAct(reg'.slots)
    /\ \/ reg' = reg /\ mistaken' = mistaken
       \/ \E x \in SlotSet :
             /\ x.id = job[c].id /\ OneLess(reg.slots, reg'.slots, x)
             /\ mistaken' = IF Meant(job[c], x) THEN mistaken ELSE mistaken \cup {x.tab}
    /\ UNCHANGED <<engineVars, feeds, rec, retired, unclosed, late>>

LEMMA RemovePageDoes ==
    ASSUME PagesInv, NEW c \in Clients, RemovePage(c)
    PROVE  Removes(c)
  <1> DEFINE j == job[c]
             k == [Free EXCEPT !.at = "unfeed", !.id = j.id, !.key = j.key]
             x == reg.slots[Place(reg, j.id)]
  <1>1. /\ Shapes /\ j.at = "remove" /\ CallOK(j, context, serial) /\ reg \in RegSet /\ Put(c, k)
        /\ reg' = Remove(reg, j.id) /\ UNCHANGED <<engineVars, feeds, rec, retired, unclosed, late>>
        /\ mistaken' = IF Contains(reg, j.id) /\ ~Meant(j, x) THEN mistaken \cup {x.tab}
                       ELSE mistaken
    BY DEF PagesInv, CallInv, Shapes, RemovePage, At
  <1>2. /\ j.id \in Ids /\ j.key \in 1 .. MaxTabs /\ j.id \in Ids \cup {OwnId(0)}
        /\ j.key \in 0 .. MaxTabs
    BY <1>1, PagesAssumption DEF CallOK
  <1>3. k \in JobSet /\ k.at = "unfeed" /\ k.id = j.id /\ k.key = j.key
    BY <1>2, FreeIs DEF JobSet
  <1> HIDE DEF k
  <1>4. CallOK(k, context, serial) /\ ~Holding(k) /\ ~ClosesOwn(k)
    BY <1>2, <1>3 DEF CallOK, Holding, ClosesOwn
  <1>5. Others(c) /\ job'[c] = k
    BY <1>1, <1>3, PutIs
  <1>6. Moves(c)
    BY <1>1, <1>4, <1>5 DEF Moves, engineVars
  <1>7. CASE Contains(reg, j.id)
    <2>1. /\ reg' \in RegSet /\ reg'.recovering = reg.recovering
          /\ x \in SlotSet /\ x.id = j.id /\ OneLess(reg.slots, reg'.slots, x)
          /\ SomeAct(reg.slots) => Led(reg'.slots)
          /\ OneAct(reg.slots) => OneAct(reg'.slots)
      BY <1>1, <1>7, RemoveDoes
    <2>2. mistaken' = IF Meant(j, x) THEN mistaken ELSE mistaken \cup {x.tab}
      BY <1>1, <1>7
    <2> HIDE DEF x
    <2> QED
      BY <1>1, <1>3, <1>4, <1>5, <1>6, <2>1, <2>2 DEF Removes
  <1>8. CASE ~Contains(reg, j.id)
    <2>1. reg' = reg /\ mistaken' = mistaken
      BY <1>1, <1>8 DEF Remove
    <2> QED
      BY <1>1, <1>3, <1>4, <1>5, <1>6, <2>1 DEF Removes, Led
  <1> QED
    BY <1>7, <1>8

LEMMA RemoveKeeps ==
    ASSUME PagesInv, NEW c \in Clients, Removes(c)
    PROVE  PagesInv'
  <1>1. /\ Moves(c) /\ Others(c) /\ ~Holding(job'[c]) /\ job[c].at = "remove"
        /\ reg' \in RegSet /\ reg'.recovering = reg.recovering
        /\ SomeAct(reg.slots) => Led(reg'.slots)
        /\ reg' = reg \/ \E x \in SlotSet : OneLess(reg.slots, reg'.slots, x)
        /\ UNCHANGED <<engineVars, rec>>
    BY DEF Removes, Moves
  <1>2. /\ UniqueOn(reg'.slots) /\ \A id : Has(reg'.slots, id) => Has(reg.slots, id)
        /\ \A id, e : Occurs(reg'.slots, id, e) => Occurs(reg.slots, id, e)
    BY <1>1 DEF OneLess, PagesInv
  <1>3. Stays(job[c], job'[c])
    BY <1>1 DEF Stays
  <1>4. \A d \in Clients : Holding(job[d]) /\ Holding(job'[d]) =>
             ~Occurs(reg'.slots, job[d].id, job[d].ctx)
    BY <1>2, HeldIs DEF Apart
  <1>5. ActiveInv'
    <2>1. \A d \in Clients : job[d].at = "activate" => job'[d] = job[d]
      BY <1>1 DEF Others
    <2> QED
      BY <1>1, <1>2, <2>1, ActiveKeeps DEF PagesInv
  <1> QED
    BY <1>1, <1>2, <1>3, <1>4, <1>5, RegKeeps
-------------------------------------------------------------------------------
(* The steps that open, register and close targets. *)

LEMMA FreshIs ==
    ASSUME Shapes, NEW e \in 1 .. MaxEngines, serial[e] < MaxSerial,
           serial' = [serial EXCEPT ![e] = @ + 1]
    PROVE  LET id == OwnId(serial'[e]) IN
           /\ id \in OwnIds /\ id \in Ids /\ id \in Ids \cup {OwnId(0)}
           /\ ~Numbered(serial, e, id) /\ Numbered(serial', e, id)
           /\ serial' \in Serials /\ Rising(serial, serial')
  <1> DEFINE n == serial[e] + 1
  <1>1. serial \in Serials /\ serial[e] \in Nat /\ n \in 1 .. MaxSerial /\ n \in 0 .. MaxSerial
    BY Counts, PagesAssumption DEF Shapes
  <1>2. serial' = [serial EXCEPT ![e] = n]
    OBVIOUS
  <1>3. /\ serial' \in Serials /\ serial'[e] = n
        /\ \A f \in 1 .. MaxEngines : serial'[f] = IF f = e THEN n ELSE serial[f]
    <2> HIDE DEF n
    <2> QED
      BY <1>1, <1>2 DEF Serials
  <1>4. Rising(serial, serial')
    <2> SUFFICES ASSUME NEW f \in 1 .. MaxEngines PROVE serial[f] <= serial'[f]
      BY DEF Rising
    <2>1. serial[f] \in Nat
      BY Counts
    <2> QED
      BY <1>1, <1>3, <2>1
  <1>5. ~Numbered(serial, e, OwnId(n))
    <2> SUFFICES ASSUME NEW k \in 1 .. serial[e], OwnId(n) = OwnId(k) PROVE FALSE
      BY DEF Numbered
    <2>1. k = n
      BY <1>1, IdsAre
    <2> QED
      BY <1>1, <2>1
  <1>6. Numbered(serial', e, OwnId(n))
    <2>1. n \in 1 .. serial'[e]
      BY <1>1, <1>3
    <2> QED
      BY <2>1 DEF Numbered
  <1> QED
    BY <1>1, <1>3, <1>4, <1>5, <1>6, IdsAre

\* an id an engine has not given out yet is nobody's
LEMMA FreshApart ==
    ASSUME PagesInv, NEW e \in 1 .. MaxEngines, NEW id \in OwnIds, ~Numbered(serial, e, id)
    PROVE  /\ ~Occurs(reg.slots, id, e) /\ ~Occurs(rec.restored, id, e)
           /\ ~(Rebuilding(rec) /\ rec.ctx = e /\ rec.id = id)
           /\ \A d \in driven[e] : d.id # id
           /\ \A c \in Clients : ~(Holding(job[c]) /\ job[c].ctx = e /\ job[c].id = id)
  <1>1. ~Occurs(reg.slots, id, e) /\ \A d \in driven[e] : d.id # id
    BY DEF PagesInv, CountInv, ListCounted, DrivenCounted
  <1>2. ~Occurs(rec.restored, id, e) /\ ~(Rebuilding(rec) /\ rec.ctx = e /\ rec.id = id)
    BY DEF PagesInv, RestoreInv, RestoredOK, Occurs
  <1> QED
    BY <1>1, <1>2, HeldIs

\* a call opens a page of its own under a new id
Opens(c) ==
    /\ Frame(c) /\ job[c].at = "create" /\ job'[c].at = "prepare"
    /\ job'[c].ctx \in 1 .. MaxEngines
    /\ job'[c].id \in OwnIds /\ ~Numbered(serial, job'[c].ctx, job'[c].id)
    /\ \A t \in tabs' : t \in tabs \/ t \notin 1 .. born
    /\ UNCHANGED <<reg, context, engine, engines, driven, feeds, rec, pastVars>>

LEMMA OpensBy ==
    ASSUME PagesInv, NEW c \in Clients, job[c].at = "create", job[c].ctx = engine,
           NEW t \in 1 .. MaxTabs, serial[engine] < MaxSerial,
           serial' = [serial EXCEPT ![engine] = @ + 1],
           Put(c, [job[c] EXCEPT !.at = "prepare", !.tab = t, !.id = OwnId(serial'[engine])]),
           tabs' = tabs \/ (tabs' = tabs \cup {t} /\ t \notin 1 .. born),
           born' \in born .. MaxTabs, windows' \subseteq tabs', tabs' \subseteq 1 .. born',
           UNCHANGED <<reg, context, engine, engines, driven, feeds, rec, pastVars>>
    PROVE  Opens(c)
  <1> DEFINE n == OwnId(serial'[engine])
             k == [job[c] EXCEPT !.at = "prepare", !.tab = t, !.id = n]
  <1>1. /\ Shapes /\ CallOK(job[c], context, serial) /\ job[c] \in JobSet
        /\ reg \in RegSet /\ driven \in Drivens
    BY JobFields DEF PagesInv, CallInv, Shapes
  <1>2. /\ engine \in 1 .. context /\ engine \in 1 .. MaxEngines
        /\ job[c].op \in {"ensure", "open"}
    BY <1>1, Counts, PagesAssumption DEF CallOK
  <1>3. /\ n \in OwnIds /\ n \in Ids /\ n \in Ids \cup {OwnId(0)}
        /\ ~Numbered(serial, engine, n) /\ Numbered(serial', engine, n)
        /\ serial' \in Serials /\ Rising(serial, serial')
    BY <1>1, <1>2, FreshIs
  <1>4. Put(c, k) /\ t \in 0 .. MaxTabs
    BY PagesAssumption
  <1> HIDE DEF n
  <1>5. /\ k \in JobSet /\ k.at = "prepare" /\ k.tab = t /\ k.id = n /\ k.ctx = job[c].ctx
        /\ k.op = job[c].op
    BY <1>1, <1>3, <1>4 DEF JobSet
  <1> HIDE DEF k
  <1>6. Others(c) /\ job'[c] = k
    BY <1>1, <1>4, <1>5, PutIs
  <1>7. CallOK(k, context, serial')
    BY <1>2, <1>3, <1>5 DEF CallOK, Holding
  <1>8. Frame(c)
    BY <1>1, <1>3, <1>6, <1>7 DEF Frame, Moves
  <1> QED
    BY <1>2, <1>3, <1>5, <1>6, <1>8 DEF Opens

LEMMA CreateTargetDoes ==
    ASSUME PagesInv, NEW c \in Clients, CreateTarget(c)
    PROVE  Opens(c)
  <1> DEFINE b == born + 1
  <1>1. /\ Shapes /\ born \in Nat /\ born < MaxTabs /\ born' = b /\ tabs' = tabs \cup {b}
        /\ windows' = windows /\ windows \subseteq tabs /\ tabs \subseteq 1 .. born
    BY Counts DEF PagesInv, Shapes, CreateTarget
  <1>2. /\ b \in 1 .. MaxTabs /\ b \notin 1 .. born /\ b \in born .. MaxTabs
        /\ \A t : t \in 1 .. born => t \in 1 .. b
        /\ b \in 1 .. b
    BY <1>1, PagesAssumption
  <1>3. windows' \subseteq tabs' /\ tabs' \subseteq 1 .. born'
    BY <1>1, <1>2
  <1>4. /\ job[c].at = "create" /\ job[c].ctx = engine /\ serial[engine] < MaxSerial
        /\ serial' = [serial EXCEPT ![engine] = @ + 1]
        /\ Put(c, [job[c] EXCEPT !.at = "prepare", !.tab = b, !.id = OwnId(serial'[engine])])
        /\ UNCHANGED <<reg, context, engine, engines, driven, feeds, rec, pastVars>>
    BY <1>1 DEF CreateTarget, At
  <1> HIDE DEF b
  <1> QED
    BY <1>1, <1>2, <1>3, <1>4, OpensBy

LEMMA AttachSurfaceDoes ==
    ASSUME PagesInv, NEW c \in Clients, AttachSurface(c)
    PROVE  Opens(c)
  <1>1. PICK t \in Drivable(engine) :
            Put(c, [job[c] EXCEPT !.at = "prepare", !.tab = t, !.id = OwnId(serial'[engine])])
    BY DEF AttachSurface
  <1>2. /\ Shapes /\ UNCHANGED <<tabs, windows, born>> /\ windows \subseteq tabs
        /\ tabs \subseteq 1 .. born /\ born \in born .. MaxTabs
    BY RisingIs DEF PagesInv, Shapes, AttachSurface
  <1>3. t \in 1 .. MaxTabs
    BY <1>2, Counts DEF Drivable
  <1>4. /\ job[c].at = "create" /\ job[c].ctx = engine /\ serial[engine] < MaxSerial
        /\ serial' = [serial EXCEPT ![engine] = @ + 1]
        /\ UNCHANGED <<reg, context, engine, engines, driven, feeds, rec, pastVars>>
    BY DEF AttachSurface, At
  <1> QED
    BY <1>1, <1>2, <1>3, <1>4, OpensBy

LEMMA EngineKeeps ==
    ASSUME PagesInv, NEW c \in Clients, Frame(c), reg' = reg, job[c].at # "activate", HoldInv',
           ReopenedOK(rec, driven'),
           \A e \in 1 .. MaxEngines : \A d \in driven'[e] :
               d \in driven[e] \/ (d.id \in OwnIds => Numbered(serial', e, d.id) /\ d.tab \in 1 .. born')
    PROVE  PagesInv'
  <1>1. Shapes' /\ CallInv' /\ GateInv' /\ RestoredOK(rec, serial') /\ rec' = rec
    BY FrameKeeps
  <1>2. RestoreInv'
    BY <1>1 DEF RestoreInv
  <1>3. CountInv'
    <2>1. /\ Shapes /\ serial' \in Serials /\ Rising(serial, serial') /\ born' \in Nat /\ born <= born'
          /\ CountInv
      BY Counts, PagesAssumption DEF PagesInv, Frame
    <2> QED
      BY <2>1, CountKeeps
  <1>4. ActiveInv'
    <2>1. \A d \in Clients : job[d].at = "activate" => job'[d] = job[d]
      BY DEF Frame, Moves, Others
    <2>2. SomeAct(reg.slots) => Led(reg'.slots)
      BY DEF Led
    <2> QED
      BY <2>1, <2>2, ActiveKeeps DEF PagesInv
  <1> QED
    BY <1>1, <1>2, <1>3, <1>4 DEF PagesInv

LEMMA OpensKeeps ==
    ASSUME PagesInv, NEW c \in Clients, Opens(c)
    PROVE  PagesInv'
  <1>1. /\ Frame(c) /\ Others(c) /\ job[c].at = "create" /\ job'[c].ctx \in 1 .. MaxEngines
        /\ job'[c].id \in OwnIds /\ ~Numbered(serial, job'[c].ctx, job'[c].id)
        /\ UNCHANGED <<reg, driven, rec>>
    BY DEF Opens, Frame, Moves
  <1>2. /\ Apart(job'[c], reg.slots, rec) /\ HeldIn(job'[c], driven)
        /\ \A d \in Clients : ~(Holding(job[d]) /\ job[d].ctx = job'[c].ctx /\ job[d].id = job'[c].id)
    BY <1>1, FreshApart DEF Apart, HeldIn
  <1>3. HoldInv'
    <2>1. ASSUME NEW d \in Clients, Holding(job'[d])
          PROVE  Apart(job'[d], reg'.slots, rec') /\ HeldIn(job'[d], driven')
      <3>1. CASE d = c
        BY <1>1, <1>2, <3>1
      <3>2. CASE d # c
        <4>1. job'[d] = job[d] /\ Holding(job[d])
          BY <1>1, <2>1, <3>2 DEF Others
        <4> QED
          BY <1>1, <4>1, HeldIs
      <3> QED
        BY <3>1, <3>2
    <2>2. \A b, d \in Clients : Holding(job'[b]) /\ Holding(job'[d])
             /\ job'[b].ctx = job'[d].ctx /\ job'[b].id = job'[d].id => b = d
      <3>1. HoldInv /\ \A d \in Clients : d # c => job'[d] = job[d]
        BY <1>1 DEF PagesInv, Others
      <3> QED
        BY <1>2, <3>1 DEF HoldInv
    <2> QED
      BY <2>1, <2>2 DEF HoldInv
  <1>4. ReopenedOK(rec, driven')
    BY <1>1 DEF PagesInv, RestoreInv
  <1> QED
    BY <1>1, <1>3, <1>4, EngineKeeps

\* the context's page map gains the page of a call
Registers(c) ==
    LET j == job[c]
        k == job'[c] IN
    /\ Frame(c) /\ j.at \in {"prepare", "attach"} /\ k.at = "admit"
    /\ k.op = j.op /\ k.ctx = j.ctx /\ k.id = j.id /\ k.tab = j.tab
    /\ j.ctx \in 1 .. context
    /\ j.at = "attach" => j.id \notin OwnIds /\ k.op = "list"
    /\ j.at = "prepare" => j.tab \in tabs
    /\ \A e \in 1 .. MaxEngines :
          driven'[e] = driven[e] \cup (IF e = j.ctx THEN {[id |-> j.id, tab |-> j.tab]} ELSE {})
    /\ UNCHANGED <<reg, context, engine, engines, tabs, windows, serial, born, feeds, rec, pastVars>>

LEMMA RegistersDoes ==
    ASSUME PagesInv, NEW c \in Clients, Register(c) \/ Adopt(c)
    PROVE  Registers(c)
  <1> DEFINE j == job[c]
             k == [j EXCEPT !.at = "admit"]
             p == [id |-> j.id, tab |-> j.tab]
  <1>1. /\ Shapes /\ CallOK(j, context, serial) /\ j \in JobSet /\ Put(c, k)
        /\ j.at \in {"prepare", "attach"} /\ (j.at = "prepare" => j.tab \in tabs)
        /\ driven' = [driven EXCEPT ![j.ctx] = @ \cup {p}]
        /\ UNCHANGED <<reg, context, engine, engines, tabs, windows, serial, born, feeds, rec, pastVars>>
    BY JobFields DEF PagesInv, CallInv, Register, Adopt, At
  <1>2. /\ j.ctx \in 1 .. context /\ j.ctx \in 1 .. MaxEngines /\ j.tab \in 1 .. MaxTabs
        /\ j.at = "prepare" => j.op \in {"ensure", "open"} /\ Numbered(serial, j.ctx, j.id)
        /\ j.at = "attach" => j.op = "list" /\ j.id \in Ids \ OwnIds
    BY <1>1, Counts, PagesAssumption DEF CallOK, Holding
  <1>3. j.id \in Ids
    BY <1>1, <1>2, NumberedOwn, IdsAre DEF Shapes
  <1>4. p \in DrivenSet
    BY <1>2, <1>3 DEF DrivenSet
  <1> HIDE DEF p
  <1>5. /\ driven' \in Drivens
        /\ \A e \in 1 .. MaxEngines : driven'[e] = driven[e] \cup (IF e = j.ctx THEN {p} ELSE {})
    <2>1. driven \in [1 .. MaxEngines -> SUBSET DrivenSet]
      BY <1>1 DEF Shapes, Drivens
    <2> QED
      BY <1>1, <1>2, <1>4, <2>1 DEF Drivens
  <1>6. /\ k \in JobSet /\ k.at = "admit" /\ k.op = j.op /\ k.ctx = j.ctx /\ k.id = j.id
        /\ k.tab = j.tab
    <2>1. "admit" \in Stages
      BY DEF Stages
    <2> QED
      BY <1>1, <2>1, JobAt
  <1> HIDE DEF k
  <1>7. CallOK(k, context, serial)
    BY <1>1, <1>2, <1>6 DEF CallOK, Holding
  <1>8. Others(c) /\ job'[c] = k
    BY <1>1, <1>6, PutIs
  <1>9. Frame(c)
    BY <1>1, <1>5, <1>7, <1>8, RisingIs DEF Frame, Moves, Shapes
  <1> QED
    BY <1>1, <1>2, <1>5, <1>6, <1>8, <1>9 DEF Registers, p

LEMMA RegistersKeeps ==
    ASSUME PagesInv, NEW c \in Clients, Registers(c)
    PROVE  PagesInv'
  <1> DEFINE j == job[c]
             p == [id |-> j.id, tab |-> j.tab]
  <1>1. /\ Frame(c) /\ Others(c) /\ j.at \in {"prepare", "attach"} /\ job'[c].at = "admit"
        /\ job'[c].op = j.op /\ job'[c].ctx = j.ctx /\ job'[c].id = j.id /\ job'[c].tab = j.tab
        /\ j.ctx \in 1 .. MaxEngines /\ UNCHANGED <<reg, rec, serial, born>>
        /\ \A e \in 1 .. MaxEngines : driven'[e] = driven[e] \cup (IF e = j.ctx THEN {p} ELSE {})
        /\ p.id = j.id /\ p.tab = j.tab
    BY Counts, PagesAssumption DEF Registers, Frame, Moves, PagesInv
  <1>2. /\ j.at = "attach" => j.id \notin OwnIds /\ job'[c].op = "list"
        /\ j.at = "prepare" => j.tab \in 1 .. born
    BY DEF Registers, PagesInv, Shapes
  <1>3. Holding(j) <=> j.at = "prepare"
    BY <1>1 DEF Holding
  <1>4. j.at = "prepare" => /\ Apart(j, reg.slots, rec) /\ HeldIn(j, driven)
                            /\ Numbered(serial, j.ctx, j.id)
    BY <1>3, HeldIs
  <1> HIDE DEF p
  <1>5. HoldInv'
    <2>1. ASSUME NEW d \in Clients, Holding(job'[d])
          PROVE  Apart(job'[d], reg'.slots, rec') /\ HeldIn(job'[d], driven')
      <3>1. CASE d = c
        <4>1. j.at = "prepare"
          BY <1>1, <1>2, <2>1, <3>1 DEF Holding
        <4>2. Apart(job'[c], reg'.slots, rec')
          BY <1>1, <1>4, <4>1 DEF Apart
        <4>3. HeldIn(job'[c], driven')
          BY <1>1, <1>4, <4>1 DEF HeldIn
        <4> QED
          BY <3>1, <4>2, <4>3
      <3>2. CASE d # c
        <4>1. job'[d] = job[d] /\ Holding(job[d])
          BY <1>1, <2>1, <3>2 DEF Others
        <4>2. Apart(job[d], reg.slots, rec) /\ HeldIn(job[d], driven) /\ job[d].id \in OwnIds
              /\ job[d].ctx \in 1 .. MaxEngines
          BY <4>1, HeldIs
        <4>3. ~(job[d].ctx = j.ctx /\ job[d].id = j.id)
          BY <1>1, <1>2, <1>3, <3>2, <4>1, <4>2 DEF PagesInv, HoldInv
        <4>4. HeldIn(job[d], driven')
          BY <1>1, <4>2, <4>3 DEF HeldIn
        <4> QED
          BY <1>1, <4>1, <4>2, <4>4
      <3> QED
        BY <3>1, <3>2
    <2>2. \A b, d \in Clients : Holding(job'[b]) /\ Holding(job'[d])
             /\ job'[b].ctx = job'[d].ctx /\ job'[b].id = job'[d].id => b = d
      <3>1. HoldInv /\ \A d \in Clients : d # c => job'[d] = job[d]
        BY <1>1 DEF PagesInv, Others
      <3>2. Holding(job'[c]) => Holding(j)
        BY <1>1, <1>2 DEF Holding
      <3> QED
        BY <1>1, <3>1, <3>2 DEF HoldInv
    <2> QED
      BY <2>1, <2>2 DEF HoldInv
  <1>6. ReopenedOK(rec, driven')
    <2> SUFFICES ASSUME Rebuilding(rec), NEW d \in driven'[rec.ctx], d.id = rec.id
                 PROVE  rec.at = "feed" /\ d.tab = rec.tab
      BY DEF ReopenedOK
    <2>1. rec.ctx \in 1 .. MaxEngines /\ rec.id \in OwnIds
      <3>1. rec.ctx \in 1 .. MaxEngines
        BY Counts DEF PagesInv, GateInv, Rebuilding
      <3> QED
        BY <3>1, NumberedOwn DEF PagesInv, RestoreInv, RestoredOK, Shapes
    <2>2. d # p \/ rec.ctx # j.ctx
      BY <1>1, <1>2, <1>4, <2>1 DEF Apart
    <2>3. d \in driven[rec.ctx]
      BY <1>1, <2>1, <2>2
    <2> QED
      BY <2>3 DEF PagesInv, RestoreInv, ReopenedOK
  <1>7. \A e \in 1 .. MaxEngines : \A d \in driven'[e] :
             d \in driven[e] \/ (d.id \in OwnIds => Numbered(serial', e, d.id) /\ d.tab \in 1 .. born')
    BY <1>1, <1>2, <1>4
  <1>8. reg' = reg /\ j.at # "activate"
    BY <1>1
  <1> QED
    BY <1>1, <1>5, <1>6, <1>7, <1>8, EngineKeeps

\* a call is done with a page, which may be off the context's map by then
Drops(c) ==
    /\ Frame(c) /\ job[c].at \in {"prepare", "discard", "close"} /\ ~Holding(job'[c])
    /\ tabs' \subseteq tabs
    /\ \A e \in 1 .. MaxEngines : driven'[e] \subseteq driven[e]
    /\ job[c].at # "prepare" => \A d \in driven'[job[c].ctx] : d.id # job[c].id
    /\ IF job[c].at = "close"
       THEN job'[c].at = "remove" /\ job'[c].ctx = job[c].ctx /\ job'[c].id = job[c].id
       ELSE ~ClosesOwn(job'[c])
    /\ UNCHANGED <<reg, context, engine, engines, windows, serial, born, feeds, rec, pastVars>>

LEMMA DropsBy ==
    ASSUME PagesInv, NEW c \in Clients, NEW k \in JobSet, Put(c, k), CallOK(k, context, serial),
           ~Holding(k), NEW t, tabs' \in {Gone(t), tabs}, job[c].ctx \in 1 .. MaxEngines,
           driven' = driven \/ driven' = Forget(job[c].ctx, job[c].id),
           UNCHANGED <<reg, context, engine, engines, windows, serial, born, rec>>
    PROVE  /\ Frame(c) /\ job'[c] = k /\ tabs' \subseteq tabs
           /\ \A e \in 1 .. MaxEngines : driven'[e] \subseteq driven[e]
           /\ driven' = Forget(job[c].ctx, job[c].id) =>
                 \A d \in driven'[job[c].ctx] : d.id # job[c].id
  <1>1. /\ Shapes /\ driven \in [1 .. MaxEngines -> SUBSET DrivenSet] /\ windows \subseteq tabs
        /\ tabs \subseteq 1 .. born /\ reg \in RegSet
    BY DEF PagesInv, Shapes, Drivens
  <1>2. windows' \subseteq tabs' /\ tabs' \subseteq tabs
    BY <1>1 DEF Gone
  <1>3. Others(c) /\ job'[c] = k
    BY <1>1, PutIs
  <1>4. /\ driven' \in Drivens /\ \A e \in 1 .. MaxEngines : driven'[e] \subseteq driven[e]
        /\ driven' = Forget(job[c].ctx, job[c].id) =>
              \A d \in driven'[job[c].ctx] : d.id # job[c].id
    BY <1>1 DEF Forget, Drivens
  <1>5. Frame(c)
    BY <1>1, <1>2, <1>3, <1>4, RisingIs DEF Frame, Moves
  <1> QED
    BY <1>2, <1>3, <1>4, <1>5

LEMMA DropsDoes ==
    ASSUME PagesInv, NEW c \in Clients, Unprepared(c) \/ Discard(c) \/ Close(c)
    PROVE  Drops(c)
  <1> DEFINE j == job[c]
  <1>1. /\ Shapes /\ CallOK(j, context, serial) /\ j \in JobSet
        /\ j.at \in {"prepare", "discard", "close"}
        /\ UNCHANGED <<reg, context, engine, engines, windows, serial, born, feeds, rec, pastVars>>
    BY JobFields DEF PagesInv, CallInv, Unprepared, Discard, Close, At
  <1>2. j.ctx \in 1 .. context /\ j.ctx \in 1 .. MaxEngines
    BY <1>1, Counts, PagesAssumption DEF CallOK
  <1>3. CASE Unprepared(c)
    <2>1. /\ j.at = "prepare" /\ tabs' \in {Gone(j.tab), tabs} /\ Put(c, Free) /\ driven' = driven
      BY <1>3 DEF Unprepared, At
    <2>2. /\ Frame(c) /\ job'[c] = Free /\ tabs' \subseteq tabs
          /\ \A e \in 1 .. MaxEngines : driven'[e] \subseteq driven[e]
      BY <1>1, <1>2, <2>1, FreeIs, DropsBy
    <2> QED
      BY <1>1, <2>1, <2>2, FreeIs DEF Drops
  <1>4. CASE Discard(c)
    <2>1. /\ j.at = "discard" /\ tabs' \in {Gone(j.tab), tabs} /\ Put(c, After(j))
          /\ driven' = Forget(j.ctx, j.id)
      BY <1>4 DEF Discard, At
    <2>2. /\ Frame(c) /\ job'[c] = After(j) /\ tabs' \subseteq tabs
          /\ \A e \in 1 .. MaxEngines : driven'[e] \subseteq driven[e]
          /\ \A d \in driven'[j.ctx] : d.id # j.id
      BY <1>1, <1>2, <2>1, AfterIs, DropsBy
    <2> QED
      BY <1>1, <2>1, <2>2, AfterIs DEF Drops
  <1>5. CASE Close(c)
    <2> DEFINE k == [j EXCEPT !.at = "remove"]
    <2>1. /\ j.at = "close" /\ tabs' \in {Gone(j.tab), tabs} /\ Put(c, k)
          /\ driven' = Forget(j.ctx, j.id)
      BY <1>5 DEF Close, At
    <2>2. /\ k \in JobSet /\ k.at = "remove" /\ k.ctx = j.ctx /\ k.id = j.id /\ k.key = j.key
      <3>1. "remove" \in Stages
        BY DEF Stages
      <3> QED
        BY <1>1, <3>1, JobAt
    <2> HIDE DEF k
    <2>3. CallOK(k, context, serial) /\ ~Holding(k)
      BY <1>1, <2>1, <2>2 DEF CallOK, Holding
    <2>4. /\ Frame(c) /\ job'[c] = k /\ tabs' \subseteq tabs
          /\ \A e \in 1 .. MaxEngines : driven'[e] \subseteq driven[e]
          /\ \A d \in driven'[j.ctx] : d.id # j.id
      BY <1>1, <1>2, <2>1, <2>2, <2>3, DropsBy
    <2> QED
      BY <1>1, <2>1, <2>2, <2>3, <2>4 DEF Drops
  <1> QED
    BY <1>3, <1>4, <1>5

LEMMA DropsKeeps ==
    ASSUME PagesInv, NEW c \in Clients, Drops(c)
    PROVE  PagesInv'
  <1>1. /\ Frame(c) /\ Others(c) /\ job[c].at \in {"prepare", "discard", "close"}
        /\ ~Holding(job'[c]) /\ UNCHANGED <<reg, rec>>
        /\ \A e \in 1 .. MaxEngines : driven'[e] \subseteq driven[e]
    BY DEF Drops, Frame, Moves
  <1>2. Stays(job[c], job'[c])
    BY <1>1 DEF Stays
  <1>3. HoldInv'
    <2>1. \A d \in Clients : Holding(job[d]) =>
             Apart(job[d], reg'.slots, rec') /\ HeldIn(job[d], driven')
      <3> SUFFICES ASSUME NEW d \in Clients, Holding(job[d])
                   PROVE  Apart(job[d], reg'.slots, rec') /\ HeldIn(job[d], driven')
        OBVIOUS
      <3>1. /\ Apart(job[d], reg.slots, rec) /\ HeldIn(job[d], driven)
            /\ job[d].ctx \in 1 .. MaxEngines
        BY HeldIs
      <3>2. HeldIn(job[d], driven')
        BY <1>1, <3>1 DEF HeldIn
      <3> QED
        BY <1>1, <3>1, <3>2
    <2> QED
      BY <1>1, <1>2, <2>1, StaysAll, HoldKeeps DEF PagesInv
  <1>4. ReopenedOK(rec, driven')
    <2>1. Rebuilding(rec) => rec.ctx \in 1 .. MaxEngines
      BY Counts DEF PagesInv, GateInv, Rebuilding
    <2>2. ReopenedOK(rec, driven)
      BY DEF PagesInv, RestoreInv
    <2> QED
      BY <1>1, <2>1, <2>2 DEF ReopenedOK
  <1>5. \A e \in 1 .. MaxEngines : \A d \in driven'[e] :
             d \in driven[e] \/ (d.id \in OwnIds => Numbered(serial', e, d.id) /\ d.tab \in 1 .. born')
    BY <1>1
  <1>6. reg' = reg /\ job[c].at # "activate"
    BY <1>1
  <1> QED
    BY <1>1, <1>3, <1>4, <1>5, <1>6, EngineKeeps
-------------------------------------------------------------------------------
(* The rebuild and the browser's own moves. *)

LEMMA RecFields ==
    ASSUME Shapes
    PROVE  /\ rec \in RecSet /\ rec.at \in {"idle", "clear", "swap", "restore", "prepare", "feed"}
           /\ rec.ctx \in 0 .. MaxEngines /\ rec.next \in Nat /\ Len(rec.saved) \in Nat
           /\ rec.next \in 1 .. Len(rec.saved) + 1
           /\ rec.saved \in Seq(SlotSet) /\ rec.restored \in Seq(SlotSet)
           /\ rec.id \in Ids \cup {OwnId(0)} /\ rec.tab \in 0 .. MaxTabs
  BY ListFacts DEF Shapes, RecSet

LEMMA RestingIs ==
    /\ Resting \in RecSet /\ Resting.at = "idle" /\ Resting.next = 1 /\ ~Rebuilding(Resting)
    /\ Resting.saved = <<>> /\ Resting.restored = <<>> /\ Len(<<>>) = 0
    /\ <<>> \in Seq(SlotSet) /\ \A id, e : ~Occurs(<<>>, id, e)
    /\ \A n : RestoredOK(Resting, n)
  <1>1. /\ Resting \in RecSet /\ Resting.at = "idle" /\ Resting.next = 1
        /\ Resting.saved = <<>> /\ Resting.restored = <<>> /\ Len(<<>>) = 0
        /\ <<>> \in Seq(SlotSet)
    BY PagesAssumption, EmptySeq DEF Resting, RecSet
  <1>2. /\ DOMAIN <<>> = {} /\ Unique(<<>>) /\ UniqueOn(<<>>) /\ OneAct(<<>>)
        /\ \A id, e : ~Occurs(<<>>, id, e)
    BY DEF Occurs, Unique, UniqueOn, OneAct
  <1>3. ~Rebuilding(Resting)
    BY <1>1 DEF Rebuilding
  <1> HIDE DEF Resting
  <1> QED
    BY <1>1, <1>2, <1>3 DEF RestoredOK

\* what the rest of the state may do while the calls stand still
LEMMA StandKeeps ==
    ASSUME PagesInv, Shapes', job' = job, context <= context', Rising(serial, serial'),
           born <= born', GateInv', RestoreInv', ActiveInv', UniqueOn(reg'.slots),
           \A d \in Clients : Holding(job[d]) =>
               Apart(job[d], reg'.slots, rec') /\ HeldIn(job[d], driven'),
           \A id \in OwnIds, e \in 1 .. MaxEngines : Occurs(reg'.slots, id, e) =>
               Occurs(reg.slots, id, e) \/ Numbered(serial', e, id),
           \A e \in 1 .. MaxEngines : \A d \in driven'[e] :
               d \in driven[e] \/ (d.id \in OwnIds => Numbered(serial', e, d.id) /\ d.tab \in 1 .. born')
    PROVE  PagesInv'
  <1>1. context' \in Nat /\ born' \in Nat /\ serial' \in Serials
    BY PagesAssumption DEF Shapes
  <1>2. CallInv'
    BY <1>1, CallsKeep DEF PagesInv
  <1>3. HoldInv'
    <2>1. \A d \in Clients : Stays(job[d], job'[d])
      BY DEF Stays
    <2> QED
      BY <2>1, HoldKeeps DEF PagesInv
  <1>4. CountInv'
    BY <1>1, CountKeeps DEF PagesInv
  <1> QED
    BY <1>2, <1>3, <1>4 DEF PagesInv

LEMMA BrowserDoes ==
    ASSUME PagesInv, EngineDies \/ Appear \/ \E t \in tabs : Vanish(t)
    PROVE  /\ born' \in born .. MaxTabs /\ windows' \subseteq tabs' /\ tabs' \subseteq 1 .. born'
           /\ born <= born' /\ engine' \in {0, engines} /\ (engine' = engine \/ engine' = 0)
           /\ \A t \in tabs' : t \in tabs \/ t \notin 1 .. born
           /\ UNCHANGED <<reg, context, engines, driven, serial, feeds, job, rec, pastVars>>
  <1>1. /\ Shapes /\ born \in Nat /\ windows \subseteq tabs /\ tabs \subseteq 1 .. born
        /\ engine \in {0, engines} /\ born \in born .. MaxTabs /\ born <= born
    BY Counts, RisingIs DEF PagesInv, Shapes
  <1>2. CASE EngineDies
    BY <1>1, <1>2 DEF EngineDies
  <1>3. CASE Appear
    <2> DEFINE b == born + 1
    <2>1. /\ born < MaxTabs /\ born' = b /\ tabs' = tabs \cup {b}
          /\ windows' = windows \/ windows' = windows \cup {b}
          /\ UNCHANGED <<reg, context, engine, engines, driven, serial, feeds, job, rec, pastVars>>
      BY <1>3 DEF Appear
    <2>2. /\ b \in born .. MaxTabs /\ b \notin 1 .. born /\ b \in 1 .. b /\ born <= b
          /\ \A t : t \in 1 .. born => t \in 1 .. b
      BY <1>1, <2>1, PagesAssumption
    <2> HIDE DEF b
    <2>3. windows' \subseteq tabs' /\ tabs' \subseteq 1 .. born'
      BY <1>1, <2>1, <2>2
    <2> QED
      BY <1>1, <2>1, <2>2, <2>3
  <1>4. CASE \E t \in tabs : Vanish(t)
    BY <1>1, <1>4 DEF Vanish
  <1> QED
    BY <1>2, <1>3, <1>4

LEMMA BrowserKeeps ==
    ASSUME PagesInv, EngineDies \/ Appear \/ \E t \in tabs : Vanish(t)
    PROVE  PagesInv'
  <1>1. /\ born' \in born .. MaxTabs /\ windows' \subseteq tabs' /\ tabs' \subseteq 1 .. born'
        /\ born <= born' /\ engine' \in {0, engines}
        /\ UNCHANGED <<reg, context, engines, driven, serial, job, rec>>
    BY BrowserDoes
  <1>2. Shapes' /\ context <= context' /\ Rising(serial, serial')
    <2>1. born' \in 0 .. MaxTabs
      BY <1>1, Counts, PagesAssumption DEF PagesInv
    <2>2. context <= context' /\ Rising(serial, serial')
      BY <1>1, RisingIs, Counts DEF PagesInv
    <2> QED
      BY <1>1, <2>1, <2>2 DEF PagesInv, Shapes
  <1>3. GateInv' /\ RestoreInv' /\ ActiveInv' /\ UniqueOn(reg'.slots)
    BY <1>1 DEF PagesInv, GateInv, RestoreInv, ActiveInv
  <1>4. \A d \in Clients : Holding(job[d]) =>
             Apart(job[d], reg'.slots, rec') /\ HeldIn(job[d], driven')
    BY <1>1, HeldIs
  <1> QED
    BY <1>1, <1>2, <1>3, <1>4, StandKeeps

LEMMA RecoverBeginDoes ==
    ASSUME PagesInv, RecoverBegin
    PROVE  /\ rec.at = "idle" /\ engines' = engines + 1 /\ engine' = engines' /\ engines < MaxEngines
           /\ reg' \in RegSet /\ reg'.slots = reg.slots /\ reg'.recovering
           /\ rec' \in RecSet /\ rec'.at = "clear" /\ rec'.ctx = engines' /\ rec'.next = 1
           /\ rec'.saved = reg.slots /\ rec'.restored = <<>>
           /\ UNCHANGED <<context, tabs, windows, driven, serial, born, feeds, job, pastVars>>
  <1> DEFINE n == engines + 1
             s == reg.slots
             w == [Resting EXCEPT !.at = "clear", !.ctx = n, !.saved = s]
  <1>1. /\ Shapes /\ reg \in RegSet /\ s \in Seq(SlotSet) /\ engines \in Nat /\ engines < MaxEngines
        /\ n \in 0 .. MaxEngines
    <2>1. Shapes /\ reg \in RegSet
      BY DEF PagesInv, Shapes
    <2>2. s \in Seq(SlotSet)
      BY <2>1, RegFields
    <2>3. engines \in Nat /\ engines < MaxEngines
      BY <2>1, Counts DEF RecoverBegin
    <2>4. n \in 0 .. MaxEngines
      BY <2>3, PagesAssumption
    <2> QED
      BY <2>1, <2>2, <2>3, <2>4
  <1>2. engines' = n /\ rec' = w
    BY DEF RecoverBegin
  <1>3. reg' \in RegSet /\ reg'.slots = s /\ reg'.recovering
    BY <1>1 DEF RecoverBegin, BeginRecovery, RegSet
  <1> HIDE DEF n, s
  <1>4. /\ w \in RecSet /\ w.at = "clear" /\ w.ctx = n /\ w.next = 1 /\ w.saved = s
        /\ w.restored = <<>>
    BY <1>1, RestingIs DEF RecSet
  <1> HIDE DEF w
  <1> QED
    BY <1>1, <1>2, <1>3, <1>4 DEF RecoverBegin, n, s

LEMMA RecoverBeginKeeps ==
    ASSUME PagesInv, RecoverBegin
    PROVE  PagesInv'
  <1>1. /\ rec.at = "idle" /\ engines' = engines + 1 /\ engine' = engines' /\ engines < MaxEngines
        /\ reg' \in RegSet /\ reg'.slots = reg.slots /\ reg'.recovering
        /\ rec' \in RecSet /\ rec'.at = "clear" /\ rec'.ctx = engines' /\ rec'.next = 1
        /\ rec'.saved = reg.slots /\ rec'.restored = <<>>
        /\ UNCHANGED <<context, tabs, windows, driven, serial, born, job>>
    BY RecoverBeginDoes
  <1>2. /\ Shapes /\ engines \in Nat /\ context \in Nat /\ context <= engines /\ context \in 1 .. engines
        /\ Len(reg.slots) \in Nat
    BY Counts, RegFields, ListFacts DEF PagesInv, Shapes
  <1>3. Shapes'
    <2>1. /\ engines' \in 1 .. MaxEngines /\ context' \in 1 .. engines'
          /\ rec'.next \in 1 .. Len(rec'.saved) + 1
      BY <1>1, <1>2, PagesAssumption
    <2> QED
      BY <1>1, <2>1 DEF PagesInv, Shapes
  <1>4. GateInv'
    BY <1>1, <1>2 DEF GateInv
  <1>5. ~Rebuilding(rec') /\ \A id, e : ~Occurs(rec'.restored, id, e)
    BY <1>1, RestingIs DEF Rebuilding
  <1>6. RestoreInv'
    <2>1. RestoredOK(rec', serial')
      BY <1>1, <1>5 DEF RestoredOK, Unique, UniqueOn, OneAct
    <2> QED
      BY <2>1, <1>5 DEF RestoreInv, ReopenedOK
  <1>7. ActiveInv' /\ UniqueOn(reg'.slots) /\ Rising(serial, serial') /\ born <= born' /\ context <= context'
    BY <1>1, <1>2, RisingIs DEF PagesInv, ActiveInv
  <1>8. \A d \in Clients : Holding(job[d]) =>
             Apart(job[d], reg'.slots, rec') /\ HeldIn(job[d], driven')
    BY <1>1, <1>5, HeldIs DEF Apart
  <1> QED
    BY <1>1, <1>3, <1>4, <1>6, <1>7, <1>8, StandKeeps

\* the list stands still behind the gate, and so does all but the rebuild
LEMMA GatedKeeps ==
    ASSUME PagesInv, Shapes', UNCHANGED <<reg, engines, job>>,
           rec.at # "idle", rec'.at # "idle", rec'.ctx = rec.ctx,
           context <= context', born <= born', Rising(serial, serial'),
           IF rec'.at \in {"clear", "swap"} THEN context' < engines ELSE context' = engines,
           RestoreInv',
           \A d \in Clients : Holding(job[d]) =>
               Apart(job[d], reg.slots, rec') /\ HeldIn(job[d], driven'),
           \A e \in 1 .. MaxEngines : \A d \in driven'[e] :
               d \in driven[e] \/ (d.id \in OwnIds => Numbered(serial', e, d.id) /\ d.tab \in 1 .. born')
    PROVE  PagesInv'
  <1>1. GateInv'
    <2>1. rec'.at \in {"idle", "clear", "swap", "restore", "prepare", "feed"}
      BY DEF Shapes, RecSet
    <2> QED
      BY <2>1 DEF PagesInv, GateInv
  <1>2. ActiveInv' /\ UniqueOn(reg'.slots)
    BY DEF PagesInv, ActiveInv
  <1> QED
    BY <1>1, <1>2, StandKeeps

\* nothing is held that the rebuild has
LEMMA StillApart ==
    ASSUME PagesInv,
           \A id, e : Occurs(rec'.restored, id, e) => Occurs(rec.restored, id, e),
           Rebuilding(rec') => Rebuilding(rec) /\ rec'.ctx = rec.ctx /\ rec'.id = rec.id
    PROVE  \A d \in Clients : Holding(job[d]) =>
               Apart(job[d], reg.slots, rec') /\ HeldIn(job[d], driven)
  BY HeldIs DEF Apart

LEMMA ClearFeedsDoes ==
    ASSUME PagesInv, ClearFeeds
    PROVE  /\ rec.at = "clear" /\ rec' \in RecSet /\ rec'.at = "swap" /\ rec'.ctx = rec.ctx
           /\ rec'.saved = rec.saved /\ rec'.next = rec.next /\ rec'.restored = rec.restored
           /\ feeds' = {} /\ late' = {} /\ UNCHANGED <<reg, engineVars, job, retired, unclosed, mistaken>>
  <1> DEFINE w == [rec EXCEPT !.at = "swap"]
  <1>1. /\ rec' = w /\ w \in RecSet /\ w.at = "swap" /\ w.ctx = rec.ctx
        /\ w.saved = rec.saved /\ w.next = rec.next /\ w.restored = rec.restored
    BY RecFields DEF PagesInv, ClearFeeds, RecSet
  <1> HIDE DEF w
  <1> QED
    BY <1>1 DEF ClearFeeds

LEMMA SwapDoes ==
    ASSUME PagesInv, Swap
    PROVE  /\ rec.at = "swap" /\ context' = rec.ctx
           /\ rec' \in RecSet /\ rec'.at = "restore" /\ rec'.ctx = rec.ctx
           /\ rec'.saved = rec.saved /\ rec'.next = rec.next /\ rec'.restored = rec.restored
           /\ UNCHANGED <<reg, engine, engines, tabs, windows, driven, serial, born,
                          feeds, job, pastVars>>
  <1> DEFINE w == [rec EXCEPT !.at = "restore"]
  <1>1. /\ rec' = w /\ w \in RecSet /\ w.at = "restore" /\ w.ctx = rec.ctx
        /\ w.saved = rec.saved /\ w.next = rec.next /\ w.restored = rec.restored
    BY RecFields DEF PagesInv, Swap, RecSet
  <1> HIDE DEF w
  <1> QED
    BY <1>1 DEF Swap

\* the loop goes on to the next saved page
Passes == /\ rec' \in RecSet /\ rec'.at = "restore" /\ rec'.ctx = rec.ctx
          /\ rec'.saved = rec.saved /\ rec'.next = rec.next + 1

LEMMA PassOverDoes ==
    ASSUME PagesInv, PassOver
    PROVE  /\ rec.at = "restore" /\ rec.next <= Len(rec.saved)
           /\ Passes /\ rec'.restored = rec.restored
           /\ UNCHANGED <<reg, engineVars, feeds, job, pastVars>>
  <1> DEFINE n == rec.next + 1
             w == [rec EXCEPT !.next = n]
  <1>1. n \in Nat /\ rec' = w /\ rec.at = "restore" /\ rec.next <= Len(rec.saved) /\ rec \in RecSet
    BY RecFields DEF PagesInv, PassOver, Restoring
  <1> HIDE DEF n
  <1>2. /\ w \in RecSet /\ w.at = rec.at /\ w.ctx = rec.ctx
        /\ w.saved = rec.saved /\ w.next = n /\ w.restored = rec.restored
    BY <1>1 DEF RecSet
  <1> HIDE DEF w
  <1> QED
    BY <1>1, <1>2 DEF PassOver, Passes, n

LEMMA ReopenFailsDoes ==
    ASSUME PagesInv, ReopenFails
    PROVE  /\ rec.at = "prepare" /\ Passes /\ rec'.restored = rec.restored
           /\ tabs' \subseteq tabs /\ windows \subseteq tabs'
           /\ UNCHANGED <<reg, context, engine, engines, windows, driven, serial, born, feeds, job,
                          pastVars>>
  <1> DEFINE n == rec.next + 1
             none == OwnId(0)
             w == [rec EXCEPT !.at = "restore", !.next = n, !.id = none, !.tab = 0]
  <1>1. /\ n \in Nat /\ rec' = w /\ rec.at = "prepare" /\ rec \in RecSet
        /\ none \in Ids \cup {OwnId(0)} /\ 0 \in 0 .. MaxTabs
    BY RecFields, PagesAssumption DEF PagesInv, ReopenFails
  <1>2. tabs' \subseteq tabs /\ windows \subseteq tabs'
    BY DEF ReopenFails, Gone, PagesInv, Shapes
  <1> HIDE DEF n, none
  <1>3. /\ w \in RecSet /\ w.at = "restore" /\ w.ctx = rec.ctx
        /\ w.saved = rec.saved /\ w.next = n /\ w.restored = rec.restored
    BY <1>1 DEF RecSet
  <1> HIDE DEF w
  <1> QED
    BY <1>1, <1>2, <1>3 DEF ReopenFails, Passes, n

LEMMA ReopenDoes ==
    ASSUME PagesInv, Reopen
    PROVE  /\ rec.at = "restore" /\ rec.next <= Len(rec.saved) /\ engine = rec.ctx
           /\ rec.ctx \in 1 .. MaxEngines
           /\ rec' \in RecSet /\ rec'.at = "prepare" /\ rec'.ctx = rec.ctx
           /\ rec'.saved = rec.saved /\ rec'.next = rec.next /\ rec'.restored = rec.restored
           /\ rec'.tab \in 1 .. MaxTabs /\ rec'.id \in OwnIds
           /\ ~Numbered(serial, rec.ctx, rec'.id) /\ Numbered(serial', rec.ctx, rec'.id)
           /\ serial' \in Serials /\ Rising(serial, serial')
           /\ born' \in born .. MaxTabs /\ windows \subseteq tabs' /\ tabs' \subseteq 1 .. born'
           /\ \A t \in tabs' : t \in tabs \/ t \notin 1 .. born
           /\ UNCHANGED <<reg, context, engine, engines, windows, driven, feeds, job, pastVars>>
  <1> DEFINE n == OwnId(serial'[engine])
  <1>1. /\ rec.at = "restore" /\ rec.next <= Len(rec.saved) /\ engine = rec.ctx
        /\ serial[engine] < MaxSerial /\ serial' = [serial EXCEPT ![engine] = @ + 1]
        /\ UNCHANGED <<reg, context, engine, engines, windows, driven, feeds, job, pastVars>>
    BY DEF Reopen, Restoring
  <1>2. PICK t \in IF Creates THEN {born + 1} \cap 1 .. MaxTabs ELSE Drivable(engine) :
            /\ tabs' = tabs \cup {t} /\ born' = IF Creates THEN t ELSE born
            /\ rec' = [rec EXCEPT !.at = "prepare", !.id = n, !.tab = t]
    BY DEF Reopen
  <1> DEFINE w == [rec EXCEPT !.at = "prepare", !.id = n, !.tab = t]
  <1>3. /\ Shapes /\ rec \in RecSet /\ rec.ctx \in 1 .. MaxEngines /\ born \in Nat
        /\ windows \subseteq tabs /\ tabs \subseteq 1 .. born
    BY <1>1, RecFields, Counts DEF PagesInv, GateInv, Shapes
  <1>4. /\ n \in OwnIds /\ n \in Ids \cup {OwnId(0)}
        /\ ~Numbered(serial, rec.ctx, n) /\ Numbered(serial', rec.ctx, n)
        /\ serial' \in Serials /\ Rising(serial, serial')
    BY <1>1, <1>3, FreshIs
  <1>5. t \in 1 .. MaxTabs /\ t \in 0 .. MaxTabs
    <2>1. CASE Creates
      BY <1>2, <2>1, PagesAssumption
    <2>2. CASE ~Creates
      <3>1. t \in windows /\ windows \subseteq 1 .. MaxTabs
        BY <1>2, <1>3, <2>2, Counts DEF Drivable
      <3> QED
        BY <3>1, PagesAssumption
    <2> QED
      BY <2>1, <2>2
  <1>6. /\ born' \in born .. MaxTabs /\ windows \subseteq tabs' /\ tabs' \subseteq 1 .. born'
        /\ \A x \in tabs' : x \in tabs \/ x \notin 1 .. born
    <2>1. CASE Creates
      <3>1. t = born + 1 /\ born' = t /\ tabs' = tabs \cup {t} /\ t <= MaxTabs
        BY <1>2, <1>5, <2>1
      <3>2. /\ t \in born .. MaxTabs /\ t \notin 1 .. born /\ t \in 1 .. t
            /\ \A x : x \in 1 .. born => x \in 1 .. t
        BY <1>3, <3>1, PagesAssumption
      <3> QED
        BY <1>3, <3>1, <3>2
    <2>2. CASE ~Creates
      <3>1. t \in tabs /\ tabs' = tabs /\ born' = born
        BY <1>2, <1>3, <2>2 DEF Drivable
      <3> QED
        BY <1>3, <3>1, RisingIs
    <2> QED
      BY <2>1, <2>2
  <1>7. rec' = w
    BY <1>2
  <1> HIDE DEF n
  <1>8. /\ w \in RecSet /\ w.at = "prepare" /\ w.ctx = rec.ctx /\ w.saved = rec.saved
        /\ w.next = rec.next /\ w.restored = rec.restored /\ w.tab = t /\ w.id = n
    BY <1>3, <1>4, <1>5 DEF RecSet
  <1> HIDE DEF w
  <1> QED
    BY <1>1, <1>3, <1>4, <1>5, <1>6, <1>7, <1>8

LEMMA ReopenedDoes ==
    ASSUME PagesInv, Reopened
    PROVE  /\ rec.at = "prepare" /\ rec.tab \in tabs
           /\ rec' \in RecSet /\ rec'.at = "feed" /\ rec'.ctx = rec.ctx /\ rec'.id = rec.id
           /\ rec'.tab = rec.tab
           /\ rec'.saved = rec.saved /\ rec'.next = rec.next /\ rec'.restored = rec.restored
           /\ driven' \in Drivens
           /\ \A e \in 1 .. MaxEngines : driven'[e] =
                 driven[e] \cup (IF e = rec.ctx THEN {[id |-> rec.id, tab |-> rec.tab]} ELSE {})
           /\ UNCHANGED <<reg, context, engine, engines, tabs, windows, serial, born, feeds, job,
                          pastVars>>
  <1> DEFINE w == [rec EXCEPT !.at = "feed"]
             p == [id |-> rec.id, tab |-> rec.tab]
  <1>1. /\ rec' = w /\ w \in RecSet /\ w.at = "feed" /\ w.ctx = rec.ctx /\ w.id = rec.id
        /\ w.tab = rec.tab
        /\ w.saved = rec.saved /\ w.next = rec.next /\ w.restored = rec.restored
    BY RecFields DEF PagesInv, Reopened, RecSet
  <1>2. /\ rec.at = "prepare" /\ rec.tab \in tabs /\ Shapes /\ rec.ctx \in 1 .. MaxEngines
        /\ driven' = [driven EXCEPT ![rec.ctx] = @ \cup {p}]
        /\ driven \in [1 .. MaxEngines -> SUBSET DrivenSet]
    BY Counts DEF PagesInv, GateInv, Reopened, Shapes, Drivens
  <1>3. p \in DrivenSet
    <2>1. rec.tab \in 1 .. MaxTabs /\ Numbered(serial, rec.ctx, rec.id)
      BY <1>2 DEF PagesInv, RestoreInv, RestoredOK, Rebuilding
    <2>2. rec.id \in Ids
      BY <1>2, <2>1, NumberedOwn, IdsAre DEF Shapes
    <2> QED
      BY <2>1, <2>2 DEF DrivenSet
  <1> HIDE DEF p
  <1>4. /\ driven' \in Drivens
        /\ \A e \in 1 .. MaxEngines : driven'[e] = driven[e] \cup (IF e = rec.ctx THEN {p} ELSE {})
    BY <1>2, <1>3 DEF Drivens
  <1> HIDE DEF w
  <1> QED
    BY <1>1, <1>2, <1>4 DEF Reopened, p

LEMMA RestorePageDoes ==
    ASSUME PagesInv, RestorePage
    PROVE  \E s \in SlotSet :
           /\ rec.at = "feed" /\ s.id = rec.id /\ s.tab = rec.tab /\ s.ctx = rec.ctx
           /\ s.active => rec.next = First(ActiveIn(rec.saved))
           /\ Passes /\ rec'.restored = Append(rec.restored, s)
           /\ feeds' = feeds \cup {rec.id} /\ rec.id \in Ids
           /\ UNCHANGED <<reg, engineVars, job, pastVars>>
  <1> DEFINE old == rec.saved[rec.next]
             was == ActiveIn(rec.saved)
             m   == rec.next + 1
             b   == was # {} /\ rec.next = First(was)
             s   == Slot(rec.id, old.url, rec.tab, rec.ctx, b, old.key)
             none == OwnId(0)
             w   == [rec EXCEPT !.at = "restore", !.next = m, !.id = none, !.tab = 0,
                                !.restored = Append(rec.restored, s)]
  <1>1. /\ rec.at = "feed" /\ Shapes /\ rec \in RecSet /\ rec.next <= Len(rec.saved)
        /\ rec.ctx \in 1 .. MaxEngines /\ rec.tab \in 1 .. MaxTabs
        /\ Numbered(serial, rec.ctx, rec.id)
    BY RecFields, Counts DEF PagesInv, GateInv, RestoreInv, RestoredOK, Rebuilding, RestorePage
  <1>2. rec' = w /\ feeds' = feeds \cup {rec.id} /\ UNCHANGED <<reg, engineVars, job, pastVars>>
    BY DEF RestorePage
  <1>3. rec.id \in Ids
    BY <1>1, NumberedOwn, IdsAre DEF Shapes
  <1>4. old \in SlotSet
    <2>1. rec.next \in DOMAIN rec.saved /\ rec.saved \in Seq(SlotSet)
      BY <1>1, RecFields, ListFacts
    <2> QED
      BY <2>1, ListFacts
  <1>5. m \in Nat /\ none \in Ids \cup {OwnId(0)} /\ 0 \in 0 .. MaxTabs /\ b \in BOOLEAN
    BY <1>1, RecFields, PagesAssumption
  <1>6. b => rec.next = First(ActiveIn(rec.saved))
    OBVIOUS
  <1> HIDE DEF old, b, was
  <1>7. s \in SlotSet /\ s.id = rec.id /\ s.tab = rec.tab /\ s.ctx = rec.ctx /\ s.active = b
    BY <1>1, <1>3, <1>4, <1>5, SlotFields DEF Slot, SlotSet
  <1> HIDE DEF s, m, none
  <1>8. Append(rec.restored, s) \in Seq(SlotSet)
    BY <1>1, <1>7, RecFields, AppendProperties
  <1>9. /\ w \in RecSet /\ w.at = "restore" /\ w.ctx = rec.ctx
        /\ w.saved = rec.saved /\ w.next = m /\ w.restored = Append(rec.restored, s)
    BY <1>1, <1>5, <1>8 DEF RecSet
  <1> HIDE DEF w
  <1>10. Passes /\ rec'.restored = Append(rec.restored, s)
    BY <1>2, <1>9 DEF Passes, m
  <1> QED
    BY <1>1, <1>2, <1>3, <1>6, <1>7, <1>10

LEMMA EndsDoesRebuild ==
    ASSUME PagesInv, Finish \/ Abandon
    PROVE  /\ reg' \in RegSet /\ ~reg'.recovering /\ rec' = Resting
           /\ UNCHANGED <<engineVars, feeds, job, pastVars>> /\ rec.at # "idle"
           /\ \/ Finish /\ SameTabs(rec.restored, reg'.slots) /\ Led(reg'.slots)
                        /\ (OneAct(rec.restored) => OneAct(reg'.slots))
              \/ Abandon /\ reg'.slots = reg.slots
  <1>1. CASE Finish
    <2>1. reg' = FinishRecovery(rec.restored) /\ rec.restored \in Seq(SlotSet)
      BY <1>1, RecFields DEF Finish, PagesInv
    <2> QED
      BY <1>1, <2>1, FinishDoes DEF Finish
  <1>2. CASE Abandon
    <2>1. reg' = DropGate(reg) /\ reg \in RegSet
      BY <1>2 DEF Abandon, PagesInv, Shapes
    <2>2. reg' \in RegSet /\ ~reg'.recovering /\ reg'.slots = reg.slots
      BY <2>1 DEF DropGate, RegSet
    <2> QED
      BY <1>2, <2>2 DEF Abandon
  <1> QED
    BY <1>1, <1>2

\* a step of the rebuild that opens no page and restores none
LEMMA RestStays ==
    ASSUME PagesInv, RestoredOK(rec, serial), rec'.restored = rec.restored, rec'.saved = rec.saved,
           rec'.ctx = rec.ctx, rec'.next \in Nat, rec.next <= rec'.next, ~Rebuilding(rec'),
           rec'.at = "restore", serial' = serial
    PROVE  RestoreInv'
  <1>1. ReopenedOK(rec', driven')
    BY DEF ReopenedOK
  <1>2. \A k \in 1 .. rec.next - 1 : k \in 1 .. rec'.next - 1
    BY RecFields DEF PagesInv
  <1>3. RestoredOK(rec', serial')
    BY <1>2 DEF RestoredOK
  <1> QED
    BY <1>1, <1>3 DEF RestoreInv

LEMMA ClearFeedsKeeps ==
    ASSUME PagesInv, ClearFeeds
    PROVE  PagesInv'
  <1>1. /\ rec.at = "clear" /\ rec' \in RecSet /\ rec'.at = "swap" /\ rec'.ctx = rec.ctx
        /\ rec'.saved = rec.saved /\ rec'.next = rec.next /\ rec'.restored = rec.restored
        /\ UNCHANGED <<reg, engineVars, job>>
    BY ClearFeedsDoes
  <1>2. /\ ~Rebuilding(rec') /\ context < engines
        /\ context <= context' /\ born <= born' /\ Rising(serial, serial')
    BY <1>1, RisingIs, Counts DEF Rebuilding, PagesInv, GateInv, engineVars
  <1>3. Shapes'
    BY <1>1 DEF PagesInv, Shapes, engineVars
  <1>4. RestoreInv'
    <2>1. RestoredOK(rec', serial')
      BY <1>1, <1>2 DEF PagesInv, RestoreInv, RestoredOK, engineVars
    <2> QED
      BY <1>2, <2>1 DEF RestoreInv, ReopenedOK
  <1>5. \A d \in Clients : Holding(job[d]) =>
             Apart(job[d], reg.slots, rec') /\ HeldIn(job[d], driven')
    BY <1>1, <1>2, StillApart DEF engineVars
  <1> QED
    BY <1>1, <1>2, <1>3, <1>4, <1>5, GatedKeeps DEF engineVars

LEMMA SwapKeeps ==
    ASSUME PagesInv, Swap
    PROVE  PagesInv'
  <1>1. /\ rec.at = "swap" /\ context' = rec.ctx
        /\ rec' \in RecSet /\ rec'.at = "restore" /\ rec'.ctx = rec.ctx
        /\ rec'.saved = rec.saved /\ rec'.next = rec.next /\ rec'.restored = rec.restored
        /\ UNCHANGED <<reg, engine, engines, tabs, windows, driven, serial, born, job>>
    BY SwapDoes
  <1>2. /\ ~Rebuilding(rec') /\ context' = engines /\ engines \in 1 .. engines
        /\ context <= context' /\ born <= born' /\ Rising(serial, serial')
        /\ rec.next \in Nat /\ rec.next <= rec'.next
    BY <1>1, RisingIs, RecFields, Counts DEF Rebuilding, PagesInv, GateInv
  <1>3. Shapes'
    BY <1>1, <1>2 DEF PagesInv, Shapes
  <1>4. RestoreInv'
    BY <1>1, <1>2, RestStays DEF PagesInv, RestoreInv
  <1>5. \A d \in Clients : Holding(job[d]) =>
             Apart(job[d], reg.slots, rec') /\ HeldIn(job[d], driven')
    BY <1>1, <1>2, StillApart
  <1> QED
    BY <1>1, <1>2, <1>3, <1>4, <1>5, GatedKeeps

LEMMA PassKeeps ==
    ASSUME PagesInv, PassOver \/ ReopenFails
    PROVE  PagesInv'
  <1>1. /\ rec.at \in {"restore", "prepare"} /\ Passes /\ rec'.restored = rec.restored
        /\ rec.next <= Len(rec.saved) /\ tabs' \subseteq tabs /\ windows \subseteq tabs'
        /\ UNCHANGED <<reg, context, engine, engines, windows, driven, serial, born, job>>
    <2>1. CASE PassOver
      BY <2>1, PassOverDoes DEF engineVars, PagesInv, Shapes
    <2>2. CASE ReopenFails
      BY <2>2, ReopenFailsDoes DEF PagesInv, RestoreInv, RestoredOK, Rebuilding
    <2> QED
      BY <2>1, <2>2
  <1>2. /\ ~Rebuilding(rec') /\ context' = engines /\ rec'.ctx = rec.ctx /\ rec'.at = "restore"
        /\ context <= context' /\ born <= born' /\ Rising(serial, serial')
        /\ rec.next <= rec'.next /\ rec'.next \in Nat /\ rec' \in RecSet /\ rec'.saved = rec.saved
        /\ rec'.next \in 1 .. Len(rec'.saved) + 1
    <2>1. rec.next \in Nat /\ rec.next >= 1 /\ Len(rec.saved) \in Nat
      BY RecFields DEF PagesInv
    <2>2. /\ rec'.next = rec.next + 1 /\ rec'.at = "restore" /\ rec'.ctx = rec.ctx
          /\ rec' \in RecSet /\ rec'.saved = rec.saved
      BY <1>1 DEF Passes
    <2>3. rec.next <= rec'.next /\ rec'.next \in Nat /\ rec'.next \in 1 .. Len(rec'.saved) + 1
      BY <1>1, <2>1, <2>2
    <2>4. context' = engines /\ context <= context'
      BY <1>1, Counts DEF PagesInv, GateInv
    <2> QED
      BY <1>1, <2>2, <2>3, <2>4, RisingIs DEF Rebuilding, PagesInv
  <1>3. Shapes'
    BY <1>1, <1>2 DEF PagesInv, Shapes
  <1>4. RestoreInv'
    BY <1>1, <1>2, RestStays DEF PagesInv, RestoreInv
  <1>5. \A d \in Clients : Holding(job[d]) =>
             Apart(job[d], reg.slots, rec') /\ HeldIn(job[d], driven')
    BY <1>1, <1>2, StillApart
  <1> QED
    BY <1>1, <1>2, <1>3, <1>4, <1>5, GatedKeeps

LEMMA ReopenKeeps ==
    ASSUME PagesInv, Reopen
    PROVE  PagesInv'
  <1>1. /\ rec.at = "restore" /\ rec.next <= Len(rec.saved) /\ rec.ctx \in 1 .. MaxEngines
        /\ rec' \in RecSet /\ rec'.at = "prepare" /\ rec'.ctx = rec.ctx
        /\ rec'.saved = rec.saved /\ rec'.next = rec.next /\ rec'.restored = rec.restored
        /\ rec'.tab \in 1 .. MaxTabs /\ rec'.id \in OwnIds
        /\ ~Numbered(serial, rec.ctx, rec'.id) /\ Numbered(serial', rec.ctx, rec'.id)
        /\ serial' \in Serials /\ Rising(serial, serial')
        /\ born' \in born .. MaxTabs /\ windows \subseteq tabs' /\ tabs' \subseteq 1 .. born'
        /\ UNCHANGED <<reg, context, engine, engines, windows, driven, job>>
    BY ReopenDoes
  <1>2. Shapes' /\ born <= born' /\ context <= context' /\ context = engines
    BY <1>1, Counts, PagesAssumption DEF PagesInv, Shapes, GateInv
  <1>3. /\ ~Occurs(rec.restored, rec'.id, rec.ctx) /\ \A d \in driven[rec.ctx] : d.id # rec'.id
        /\ \A c \in Clients : ~(Holding(job[c]) /\ job[c].ctx = rec.ctx /\ job[c].id = rec'.id)
    BY <1>1, FreshApart
  <1>4. RestoreInv'
    <2>1. RestoredOK(rec, serial')
      BY <1>1, RestoredStays DEF PagesInv
    <2>2. ~Has(rec.restored, rec'.id)
      <3>1. \A i \in DOMAIN rec.restored : rec.restored[i].ctx = rec.ctx
        BY DEF PagesInv, RestoreInv, RestoredOK
      <3> QED
        BY <1>3, <3>1 DEF Has, Occurs
    <2>3. RestoredOK(rec', serial')
      BY <1>1, <2>1, <2>2 DEF RestoredOK
    <2>4. ReopenedOK(rec', driven')
      BY <1>1, <1>3 DEF ReopenedOK
    <2> QED
      BY <2>3, <2>4 DEF RestoreInv
  <1>5. \A d \in Clients : Holding(job[d]) =>
             Apart(job[d], reg.slots, rec') /\ HeldIn(job[d], driven')
    BY <1>1, <1>3, HeldIs DEF Apart
  <1> QED
    BY <1>1, <1>2, <1>4, <1>5, GatedKeeps

LEMMA ReopenedKeeps ==
    ASSUME PagesInv, Reopened
    PROVE  PagesInv'
  <1> DEFINE p == [id |-> rec.id, tab |-> rec.tab]
  <1>1. /\ rec.at = "prepare" /\ rec.tab \in tabs
        /\ rec' \in RecSet /\ rec'.at = "feed" /\ rec'.ctx = rec.ctx /\ rec'.id = rec.id
        /\ rec'.tab = rec.tab
        /\ rec'.saved = rec.saved /\ rec'.next = rec.next /\ rec'.restored = rec.restored
        /\ driven' \in Drivens
        /\ \A e \in 1 .. MaxEngines :
              driven'[e] = driven[e] \cup (IF e = rec.ctx THEN {p} ELSE {})
        /\ UNCHANGED <<reg, context, engine, engines, tabs, windows, serial, born, job>>
    BY ReopenedDoes
  <1>p. p.id = rec.id /\ p.tab = rec.tab
    OBVIOUS
  <1> HIDE DEF p
  <1>2. /\ Shapes' /\ born <= born' /\ context <= context' /\ context = engines
        /\ Rising(serial, serial') /\ rec.tab \in 1 .. born
        /\ rec.ctx \in 1 .. MaxEngines /\ rec'.at \notin {"clear", "swap", "idle"}
        /\ Rebuilding(rec) /\ Rebuilding(rec')
    <2>1. Shapes'
      BY <1>1 DEF PagesInv, Shapes
    <2>2. context = engines /\ rec.ctx = engines
      BY <1>1 DEF PagesInv, GateInv
    <2>3. rec.tab \in 1 .. born
      BY <1>1 DEF PagesInv, Shapes
    <2> QED
      BY <1>1, <2>1, <2>2, <2>3, RisingIs, Counts DEF Rebuilding, PagesInv
  <1>3. RestoreInv'
    <2>1. RestoredOK(rec', serial')
      BY <1>1, <1>2 DEF PagesInv, RestoreInv, RestoredOK
    <2>2. \A d \in driven[rec.ctx] : d.id # rec.id
      BY <1>1, <1>2 DEF PagesInv, RestoreInv, ReopenedOK
    <2>3. ReopenedOK(rec', driven')
      BY <1>1, <1>p, <1>2, <2>2 DEF ReopenedOK
    <2> QED
      BY <2>1, <2>3 DEF RestoreInv
  <1>4. \A d \in Clients : Holding(job[d]) =>
             Apart(job[d], reg.slots, rec') /\ HeldIn(job[d], driven')
    <2> SUFFICES ASSUME NEW d \in Clients, Holding(job[d])
                 PROVE  Apart(job[d], reg.slots, rec') /\ HeldIn(job[d], driven')
      OBVIOUS
    <2>1. /\ Apart(job[d], reg.slots, rec) /\ HeldIn(job[d], driven) /\ job[d].ctx \in 1 .. MaxEngines
      BY HeldIs
    <2>2. ~(rec.ctx = job[d].ctx /\ rec.id = job[d].id)
      BY <1>2, <2>1 DEF Apart
    <2>3. HeldIn(job[d], driven')
      BY <1>1, <1>p, <2>1, <2>2 DEF HeldIn
    <2> QED
      BY <1>1, <2>1, <2>2, <2>3 DEF Apart
  <1>5. \A e \in 1 .. MaxEngines : \A d \in driven'[e] :
           d \in driven[e] \/ (d.id \in OwnIds => Numbered(serial', e, d.id) /\ d.tab \in 1 .. born')
    <2>1. Numbered(serial, rec.ctx, rec.id)
      BY <1>2 DEF PagesInv, RestoreInv, RestoredOK
    <2> QED
      BY <1>1, <1>p, <1>2, <2>1
  <1> QED
    BY <1>1, <1>2, <1>3, <1>4, <1>5, GatedKeeps

LEMMA RestorePageKeeps ==
    ASSUME PagesInv, RestorePage
    PROVE  PagesInv'
  <1>1. PICK s \in SlotSet :
           /\ rec.at = "feed" /\ s.id = rec.id /\ s.tab = rec.tab /\ s.ctx = rec.ctx
           /\ s.active => rec.next = First(ActiveIn(rec.saved))
           /\ Passes /\ rec'.restored = Append(rec.restored, s)
           /\ UNCHANGED <<reg, engineVars, job>>
    BY RestorePageDoes
  <1>2. /\ rec' \in RecSet /\ rec'.at = "restore" /\ rec'.ctx = rec.ctx
        /\ rec'.saved = rec.saved /\ rec'.next = rec.next + 1
        /\ rec.next \in Nat /\ rec.next >= 1 /\ Len(rec.saved) \in Nat
        /\ ~Rebuilding(rec') /\ Rebuilding(rec)
    BY <1>1, RecFields DEF Passes, Rebuilding, PagesInv
  <1>3. /\ Numbered(serial, rec.ctx, rec.id) /\ rec.next <= Len(rec.saved)
        /\ ~Has(rec.restored, rec.id) /\ RestoredOK(rec, serial)
        /\ rec.restored \in Seq(SlotSet)
    BY <1>2, RecFields DEF PagesInv, RestoreInv, RestoredOK
  <1>4. /\ Shapes' /\ born <= born' /\ context <= context' /\ context = engines
        /\ Rising(serial, serial')
    <2>1. rec'.next \in 1 .. Len(rec'.saved) + 1
      BY <1>2, <1>3
    <2>2. Shapes'
      BY <1>1, <1>2, <2>1 DEF PagesInv, Shapes, engineVars
    <2> QED
      BY <1>1, <2>2, RisingIs, Counts DEF PagesInv, GateInv, engineVars
  <1> DEFINE t == Append(rec.restored, s)
  <1>5. /\ OneMore(rec.restored, t, s)
        /\ \A i \in DOMAIN rec.restored : i \in DOMAIN t /\ t[i] = rec.restored[i]
        /\ \A i \in DOMAIN t : i \in DOMAIN rec.restored \/ t[i] = s
        /\ OneAct(rec.restored) /\ (s.active => ~SomeAct(rec.restored)) => OneAct(t)
    BY <1>3, AppendDoes
  <1> HIDE DEF t
  <1>6. RestoreInv'
    <2>1. \A i \in DOMAIN rec.restored :
             /\ rec.restored[i].ctx = rec.ctx /\ Numbered(serial, rec.ctx, rec.restored[i].id)
             /\ rec.restored[i].active => \E k \in 1 .. rec.next - 1 : k = First(ActiveIn(rec.saved))
      BY <1>3 DEF RestoredOK
    <2>2. s.active => ~SomeAct(rec.restored)
      <3>1. \A k \in 1 .. rec.next - 1 : k # rec.next
        BY <1>2
      <3> QED
        BY <1>1, <2>1, <3>1 DEF SomeAct
    <2>3. /\ \A k \in 1 .. rec.next - 1 : k \in 1 .. rec'.next - 1
          /\ rec.next \in 1 .. rec'.next - 1
      BY <1>2
    <2>4. ~Occurs(rec.restored, s.id, s.ctx) /\ ~Has(rec.restored, s.id)
      BY <1>1, <1>3 DEF Occurs, Has
    <2>5. Unique(t) /\ UniqueOn(t) /\ OneAct(t)
      BY <1>3, <1>5, <2>2, <2>4 DEF RestoredOK, OneMore
    <2>6. \A i \in DOMAIN t : t[i].ctx = rec.ctx /\ Numbered(serial, rec.ctx, t[i].id)
      BY <1>1, <1>3, <1>5, <2>1
    <2>7. \A i \in DOMAIN t :
             t[i].active => \E k \in 1 .. rec'.next - 1 : k = First(ActiveIn(rec'.saved))
      BY <1>1, <1>2, <1>5, <2>1, <2>3
    <2>8. rec'.restored = t /\ serial' = serial
      BY <1>1 DEF t, engineVars
    <2>9. RestoredOK(rec', serial')
      BY <1>2, <2>5, <2>6, <2>7, <2>8 DEF RestoredOK
    <2> QED
      BY <1>2, <2>9 DEF RestoreInv, ReopenedOK
  <1>7. \A d \in Clients : Holding(job[d]) =>
             Apart(job[d], reg.slots, rec') /\ HeldIn(job[d], driven')
    <2> SUFFICES ASSUME NEW d \in Clients, Holding(job[d])
                 PROVE  Apart(job[d], reg.slots, rec') /\ HeldIn(job[d], driven')
      OBVIOUS
    <2>1. Apart(job[d], reg.slots, rec) /\ HeldIn(job[d], driven)
      BY HeldIs
    <2>2. ~(rec.ctx = job[d].ctx /\ rec.id = job[d].id)
      BY <1>2, <2>1 DEF Apart
    <2>3. ~Occurs(rec'.restored, job[d].id, job[d].ctx)
      BY <1>1, <1>5, <2>1, <2>2 DEF Apart, OneMore, t
    <2> QED
      BY <1>1, <1>2, <2>1, <2>3 DEF Apart, engineVars
  <1> QED
    BY <1>1, <1>2, <1>4, <1>6, <1>7, GatedKeeps DEF engineVars

LEMMA RebuiltKeeps ==
    ASSUME PagesInv, Finish \/ Abandon
    PROVE  PagesInv'
  <1>1. /\ reg' \in RegSet /\ ~reg'.recovering /\ rec' = Resting
        /\ UNCHANGED <<engineVars, job>> /\ rec.at # "idle"
        /\ \/ Finish /\ SameTabs(rec.restored, reg'.slots) /\ Led(reg'.slots)
           \/ Abandon /\ reg'.slots = reg.slots
    BY EndsDoesRebuild
  <1>2. /\ rec' \in RecSet /\ rec'.at = "idle" /\ rec'.next = 1 /\ ~Rebuilding(rec')
        /\ rec'.saved = <<>> /\ \A id, e : ~Occurs(rec'.restored, id, e)
        /\ RestoredOK(rec', serial') /\ rec'.next \in 1 .. Len(rec'.saved) + 1
    BY <1>1, RestingIs
  <1>3. Shapes' /\ context <= context' /\ Rising(serial, serial') /\ born <= born'
    <2>1. Shapes'
      BY <1>1, <1>2 DEF PagesInv, Shapes, engineVars
    <2> QED
      BY <1>1, <2>1, RisingIs, Counts DEF PagesInv, engineVars
  <1>4. GateInv' /\ RestoreInv'
    BY <1>1, <1>2 DEF GateInv, RestoreInv, ReopenedOK
  <1>5. \A id : Has(rec.restored, id) => \E e \in 1 .. MaxEngines : Occurs(rec.restored, id, e)
    <2>1. rec.restored \in Seq(SlotSet)
      BY RecFields DEF PagesInv
    <2>2. \A i \in DOMAIN rec.restored : rec.restored[i].ctx \in 1 .. MaxEngines
      BY <2>1, ListFacts, SlotFields
    <2> QED
      BY <2>2 DEF Has, Occurs
  <1>6. \A id, e : Occurs(rec.restored, id, e) => Numbered(serial, e, id)
    BY DEF PagesInv, RestoreInv, RestoredOK, Occurs
  <1>7. /\ ActiveInv' /\ UniqueOn(reg'.slots)
        /\ \A id, e : Occurs(reg'.slots, id, e) => Occurs(reg.slots, id, e) \/ Numbered(serial, e, id)
        /\ \A id, e : Occurs(reg'.slots, id, e) => Occurs(reg.slots, id, e) \/ Occurs(rec.restored, id, e)
    <2>1. CASE SameTabs(rec.restored, reg'.slots) /\ Led(reg'.slots)
      <3>1. UniqueOn(reg'.slots)
        BY <2>1 DEF SameTabs, PagesInv, RestoreInv, RestoredOK
      <3>2. \A id, e : Occurs(reg'.slots, id, e) => Occurs(rec.restored, id, e)
        BY <2>1 DEF SameTabs
      <3>3. ActiveInv'
        BY <2>1 DEF ActiveInv, Led
      <3> QED
        BY <1>6, <3>1, <3>2, <3>3
    <2>2. CASE reg'.slots = reg.slots
      BY <1>1, <2>2 DEF PagesInv, ActiveInv
    <2> QED
      BY <1>1, <2>1, <2>2
  <1>8. \A d \in Clients : Holding(job[d]) =>
             Apart(job[d], reg'.slots, rec') /\ HeldIn(job[d], driven')
    BY <1>1, <1>2, <1>7, HeldIs DEF Apart, engineVars
  <1> QED
    BY <1>1, <1>3, <1>4, <1>7, <1>8, StandKeeps DEF engineVars

LEMMA PagesStart ==
    ASSUME Init
    PROVE  PagesInv
  <1>1. /\ reg = Empty /\ context = 1 /\ engine = 1 /\ engines = 1 /\ tabs = {} /\ windows = {}
        /\ driven = [e \in 1 .. MaxEngines |-> {}] /\ serial = [e \in 1 .. MaxEngines |-> 0]
        /\ born = 0 /\ job = [c \in Clients |-> Free] /\ rec = Resting
    BY DEF Init
  <1>2. /\ Empty \in RegSet /\ Empty.slots = <<>> /\ ~Empty.recovering
    BY RestingIs DEF Empty, RegSet
  <1>3. /\ DOMAIN <<>> = {} /\ UniqueOn(<<>>)
        /\ \A id, e : ~Occurs(<<>>, id, e) /\ ~Has(<<>>, id)
    BY DEF Occurs, Has, UniqueOn
  <1>4. /\ Free \in JobSet /\ ~Holding(Free) /\ \A ctx, n : CallOK(Free, ctx, n)
    BY FreeIs
  <1>5. Shapes
    <2>1. driven \in Drivens /\ serial \in Serials /\ job \in [Clients -> JobSet]
      BY <1>1, <1>4, PagesAssumption DEF Drivens, Serials
    <2>2. rec.next \in 1 .. Len(rec.saved) + 1 /\ rec \in RecSet
      BY <1>1, RestingIs
    <2> QED
      BY <1>1, <1>2, <2>1, <2>2, PagesAssumption DEF Shapes
  <1>6. CallInv /\ HoldInv
    BY <1>1, <1>4 DEF CallInv, HoldInv
  <1>7. GateInv /\ RestoreInv
    BY <1>1, <1>2, RestingIs DEF GateInv, RestoreInv, ReopenedOK
  <1>8. CountInv /\ ActiveInv /\ UniqueOn(reg.slots)
    BY <1>1, <1>2, <1>3 DEF CountInv, ListCounted, DrivenCounted, ActiveInv
  <1> QED
    BY <1>5, <1>6, <1>7, <1>8 DEF PagesInv

\* the kinds of step a call takes
CallKinds(c) ==
    \/ Calm(c) \/ StartFeed(c) \/ DropFeed(c) \/ DiscardFails(c) \/ CloseTarget(c)
    \/ AdmitFirst(c) \/ AdmitMore(c) \/ Relists(c) \/ Removes(c)
    \/ Opens(c) \/ Registers(c) \/ Drops(c)
RebuildKinds == \/ RecoverBegin \/ ClearFeeds \/ Swap \/ PassOver \/ ReopenFails \/ Reopen
                \/ Reopened \/ RestorePage \/ Finish \/ Abandon
BrowserKinds == EngineDies \/ Appear \/ \E t \in tabs : Vanish(t)

LEMMA CallStepIs ==
    ASSUME PagesInv, NEW c \in Clients, CallStep(c)
    PROVE  CallKinds(c)
  <1> USE DEF CallKinds
  <1>1. Shapes /\ CallOK(job[c], context, serial)
    BY DEF PagesInv, CallInv
  <1>2. CASE Gate(c) \/ ReadContext(c) \/ Fail(c)
    BY <1>1, <1>2, GateDoes, ReadContextDoes, EndsDoes
  <1>3. CASE OpenStep(c)
    <2>1. CASE CreateTarget(c) \/ AttachSurface(c) \/ Register(c)
      BY <2>1, CreateTargetDoes, AttachSurfaceDoes, RegistersDoes
    <2>2. CASE Unprepared(c) \/ Discard(c)
      BY <2>2, DropsDoes
    <2>3. CASE AdmitFirst(c) \/ AdmitMore(c)
      BY <2>3
    <2>4. CASE Lose(c) \/ Fallback(c)
      BY <1>1, <2>4, LoseDoes, LooksDoes
    <2>5. CASE StartFeed(c) \/ DiscardFails(c)
      BY <2>5
    <2>6. CASE ActivateOwn(c) \/ Act(c)
      BY <2>6, ActivateOwnDoes, ActDoes
    <2> QED
      BY <1>3, <2>1, <2>2, <2>3, <2>4, <2>5, <2>6 DEF OpenStep
  <1>4. CASE CloseStep(c)
    <2>1. CASE CloseUnknown(c)
      BY <1>1, <2>1, CloseUnknownDoes
    <2>2. CASE CloseTarget(c) \/ DropFeed(c)
      BY <2>2
    <2>3. CASE Close(c)
      BY <2>3, DropsDoes
    <2>4. CASE RemovePage(c)
      BY <2>4, RemovePageDoes
    <2> QED
      BY <1>4, <2>1, <2>2, <2>3, <2>4 DEF CloseStep
  <1>5. CASE ListStep(c)
    <2>1. CASE ListForeign(c) \/ Skip(c) \/ Listed(c) \/ Attach(c) \/ AttachFails(c)
      BY <1>1, <2>1, ListForeignDoes, AdoptsDoes, EndsDoes, AttachFailsDoes
    <2>2. CASE Adopt(c)
      BY <2>2, RegistersDoes
    <2> QED
      BY <1>5, <2>1, <2>2 DEF ListStep
  <1> QED
    BY <1>2, <1>3, <1>4, <1>5 DEF CallStep

LEMMA NextIs ==
    ASSUME PagesInv, Next
    PROVE  (\E c \in Clients : CallKinds(c)) \/ RebuildKinds \/ BrowserKinds
  <1>1. ASSUME NEW c \in Clients, Ensure(c) \/ (\E op \in {"open", "list"} : Begin(c, op))
                                 \/ \E i \in Indices(reg) : BeginClose(c, i) \/ Select(c, i)
        PROVE  CallKinds(c)
    <2>1. Shapes
      BY DEF PagesInv
    <2>2. CASE Ensure(c) \/ \E op \in {"open", "list"} : Begin(c, op)
      BY <2>1, <2>2, LooksDoes, BeginDoes DEF CallKinds
    <2>3. CASE \E i \in Indices(reg) : BeginClose(c, i)
      BY <2>1, <2>3, BeginCloseDoes DEF CallKinds
    <2>4. CASE \E i \in Indices(reg) : Select(c, i)
      BY <2>4, SelectDoes DEF CallKinds
    <2> QED
      BY <1>1, <2>2, <2>3, <2>4
  <1>2. CASE RecoverBegin \/ RecoverStep \/ Abandon
    BY <1>2 DEF RecoverStep, RebuildKinds
  <1>3. CASE EngineDies \/ Appear \/ \E t \in tabs : Vanish(t)
    BY <1>3 DEF BrowserKinds
  <1> QED
    BY <1>1, <1>2, <1>3, CallStepIs DEF Next

LEMMA PagesKeep ==
    ASSUME PagesInv, [Next]_vars
    PROVE  PagesInv'
  <1>1. ASSUME NEW c \in Clients, CallKinds(c)
        PROVE  PagesInv'
    <2>1. CASE Calm(c) \/ StartFeed(c) \/ DropFeed(c) \/ DiscardFails(c) \/ CloseTarget(c)
      <3>1. Light(c)
        BY <2>1, StartFeedDoes, DropFeedDoes, DiscardFailsDoes, CloseTargetDoes DEF Calm
      <3> QED
        BY <3>1, LightKeeps
    <2> QED
      BY <1>1, <2>1, AdmitKeeps, RelistKeeps, RemoveKeeps, OpensKeeps, RegistersKeeps, DropsKeeps
       DEF CallKinds
  <1>2. CASE RebuildKinds
    BY <1>2, RecoverBeginKeeps, ClearFeedsKeeps, SwapKeeps, PassKeeps, ReopenKeeps, ReopenedKeeps,
       RestorePageKeeps, RebuiltKeeps DEF RebuildKinds
  <1>3. CASE BrowserKinds
    BY <1>3, BrowserKeeps DEF BrowserKinds
  <1>4. CASE UNCHANGED vars
    BY <1>4 DEF vars, PagesInv, Shapes, CallInv, HoldInv, GateInv, RestoreInv, CountInv, ActiveInv
  <1> QED
    BY <1>1, <1>2, <1>3, <1>4, NextIs
-------------------------------------------------------------------------------
(* The page list: the feeds and the histories, and the active page. *)

Histories == /\ retired \cup unclosed \cup mistaken \subseteq 0 .. MaxTabs
             /\ feeds \subseteq Ids /\ late \subseteq feeds

\* the steps that leave the feeds and the histories alone
Usual(c) == \/ Calm(c) \/ CloseTarget(c) \/ AdmitFirst(c) \/ AdmitMore(c) \/ Relists(c)
            \/ Opens(c) \/ Registers(c) \/ Drops(c)

LEMMA PlainDoes ==
    ASSUME PagesInv, NEW c \in Clients, Usual(c)
    PROVE  UNCHANGED <<feeds, pastVars>>
  BY CloseTargetDoes, AdmitFirstDoes, AdmitMoreDoes
     DEF Usual, Calm, Admits, Relists, Opens, Registers, Drops

LEMMA HistoriesKeep ==
    ASSUME PagesInv, Histories, Next
    PROVE  Histories'
  <1>1. ASSUME NEW c \in Clients, CallKinds(c)
        PROVE  Histories'
    <2>1. CASE Usual(c)
      BY <2>1, PlainDoes DEF Histories, pastVars
    <2>2. CASE StartFeed(c)
      BY <2>2, StartFeedDoes DEF Histories
    <2>3. CASE DropFeed(c)
      BY <2>3, DropFeedDoes DEF Histories
    <2>4. CASE DiscardFails(c)
      BY <2>4, DiscardFailsDoes DEF Histories
    <2>5. CASE Removes(c)
      <3>1. \A x \in SlotSet : x.tab \in 0 .. MaxTabs
        BY SlotFields, PagesAssumption
      <3> QED
        BY <2>5, <3>1 DEF Removes, Histories
    <2> QED
      BY <1>1, <2>1, <2>2, <2>3, <2>4, <2>5 DEF CallKinds, Usual
  <1>2. CASE ClearFeeds
    BY <1>2, ClearFeedsDoes DEF Histories
  <1>3. CASE RestorePage
    BY <1>3, RestorePageDoes DEF Histories, pastVars
  <1>4. CASE \/ RecoverBegin \/ Swap \/ PassOver \/ ReopenFails \/ Reopen
             \/ Reopened \/ Finish \/ Abandon
    BY <1>4 DEF RecoverBegin, Swap, PassOver, ReopenFails, Reopen, Reopened, Finish, Abandon,
                Histories, pastVars
  <1>5. CASE BrowserKinds
    BY <1>5, BrowserDoes DEF BrowserKinds, Histories, pastVars
  <1> QED
    BY <1>1, <1>2, <1>3, <1>4, <1>5, NextIs DEF RebuildKinds

\* the pages of the list have ids of their own, one of them is active
ActiveOne == Unique(reg.slots) /\ OneAct(reg.slots)

LEMMA ActiveOneKeeps ==
    ASSUME PagesInv, ActiveOne, Next, ~Relist
    PROVE  ActiveOne'
  <1>1. ASSUME NEW c \in Clients, CallKinds(c)
        PROVE  ActiveOne'
    <2>1. CASE Calm(c) \/ StartFeed(c) \/ DropFeed(c) \/ DiscardFails(c) \/ CloseTarget(c)
      <3>1. Light(c)
        BY <2>1, StartFeedDoes, DropFeedDoes, DiscardFailsDoes, CloseTargetDoes DEF Calm
      <3> QED
        BY <3>1 DEF Light, ActiveOne
    <2>2. CASE AdmitFirst(c) \/ AdmitMore(c)
      <3>1. ~Has(reg.slots, job[c].id)
        BY <2>2, AdmitMoreDoes DEF Relist, Contains, Indices, Has
      <3>2. /\ OneMore(reg.slots, reg'.slots, Offered(job[c]))
            /\ OneAct(reg.slots) => OneAct(reg'.slots)
        BY <2>2, AdmitFirstDoes, AdmitMoreDoes DEF Admits
      <3> QED
        BY <3>1, <3>2, OfferedFields DEF OneMore, ActiveOne
    <2>3. CASE Relists(c)
      BY <2>3 DEF Relists, SameTabs, ActiveOne
    <2>4. CASE Removes(c)
      BY <2>4 DEF Removes, OneLess, ActiveOne
    <2>5. CASE Opens(c) \/ Registers(c) \/ Drops(c)
      BY <2>5 DEF Opens, Registers, Drops, ActiveOne
    <2> QED
      BY <1>1, <2>1, <2>2, <2>3, <2>4, <2>5 DEF CallKinds
  <1>2. CASE RecoverBegin
    BY <1>2, RecoverBeginDoes DEF ActiveOne
  <1>3. CASE \/ ClearFeeds \/ Swap \/ PassOver \/ ReopenFails \/ Reopen \/ Reopened \/ RestorePage
    BY <1>3 DEF ClearFeeds, Swap, PassOver, ReopenFails, Reopen, Reopened, RestorePage, ActiveOne
  <1>4. CASE Finish \/ Abandon
    <2>1. Unique(rec.restored) /\ OneAct(rec.restored)
      BY DEF PagesInv, RestoreInv, RestoredOK
    <2> QED
      BY <1>4, <2>1, EndsDoesRebuild DEF SameTabs, ActiveOne
  <1>5. CASE BrowserKinds
    BY <1>5, BrowserDoes DEF BrowserKinds, ActiveOne
  <1> QED
    BY <1>1, <1>2, <1>3, <1>4, <1>5, NextIs DEF RebuildKinds

LEMMA ListStart ==
    ASSUME Init
    PROVE  Histories /\ ActiveOne
  <1>1. reg.slots = <<>> /\ DOMAIN <<>> = {}
    BY DEF Init, Empty
  <1> QED
    BY <1>1 DEF Init, Histories, ActiveOne, Unique, OneAct

LEMMA ListIsSound ==
    ASSUME PagesInv, Histories
    PROVE  PagesSound
  <1>1. Shapes
    BY DEF PagesInv
  <1>2. UniqueIds
    BY DEF PagesInv, UniqueOn, UniqueIds, Indices
  <1>3. OwnHasActive
    <2> SUFFICES ASSUME NEW i \in DOMAIN reg.slots, ~reg.recovering, reg.slots[i].id \in OwnIds
                 PROVE  HasActive(reg) \/ \E c \in Clients :
                            At(c, "activate") /\ job[c].id = reg.slots[i].id
      BY DEF OwnHasActive, Indices
    <2>1. SomeAct(reg.slots) => HasActive(reg)
      BY DEF SomeAct, HasActive, ActiveIn
    <2>2. Has(reg.slots, reg.slots[i].id)
      BY DEF Has
    <2> QED
      BY <2>1, <2>2 DEF PagesInv, ActiveInv, AboutTo, At
  <1>4. TypeOK
    <2>1. reg.slots \in Seq(SlotSet) /\ reg.recovering \in BOOLEAN
      BY <1>1, RegFields DEF Shapes
    <2>2. context \in 1 .. MaxEngines /\ rec.next \in 1 .. Len(rec.saved) + 1
      BY <1>1, Counts DEF Shapes
    <2>3. /\ rec.at \in {"idle", "clear", "swap", "restore", "prepare", "feed"}
          /\ rec.ctx \in 0 .. MaxEngines /\ rec.id \in Ids \cup {OwnId(0)} /\ rec.tab \in 0 .. MaxTabs
          /\ rec.saved \in Seq(SlotSet) /\ rec.restored \in Seq(SlotSet)
      BY <1>1, RecFields
    <2> QED
      BY <1>1, <2>1, <2>2, <2>3 DEF TypeOK, Shapes, DrivenSet, Drivens, Serials, Histories
  <1> QED
    BY <1>2, <1>3, <1>4 DEF PagesSound

(* The inductive invariant of a session's pages.                           *)
THEOREM Inductive == Spec => []PagesInv
  BY PagesStart, PagesKeep, PTL DEF Spec

(* The page list is one an agent can work with: typed, no page listed      *)
(* twice, and some page active while one of the session's own is listed,   *)
(* or one about to be made so (pages.rs, session/mod.rs).                  *)
THEOREM ListSound == Spec => []PagesSound
  <1>1. Init => PagesInv /\ Histories
    BY PagesStart, ListStart
  <1>2. PagesInv /\ Histories /\ [Next]_vars => (PagesInv /\ Histories)'
    <2>1. Histories /\ UNCHANGED vars => Histories'
      BY DEF vars, pastVars, Histories
    <2> QED
      BY <2>1, PagesKeep, HistoriesKeep
  <1> QED
    BY <1>1, <1>2, ListIsSound, PTL DEF Spec

(* At most one page is active, whatever opens, closes, adoptions, selects  *)
(* and rebuilds interleave, for any number of clients, pages and engines,  *)
(* unless a page enters the list under an id of one that is there, of the  *)
(* engine before (pages.rs).                                               *)
THEOREM OnePageActive == Spec /\ [][~Relist]_vars => []OneActive
  <1>1. Init => PagesInv /\ ActiveOne
    BY PagesStart, ListStart
  <1>2. PagesInv /\ ActiveOne /\ [Next]_vars /\ [~Relist]_vars => (PagesInv /\ ActiveOne)'
    <2>1. ActiveOne /\ UNCHANGED vars => ActiveOne'
      BY DEF vars, ActiveOne
    <2> QED
      BY <2>1, PagesKeep, ActiveOneKeeps
  <1>3. ActiveOne => OneActive
    BY DEF ActiveOne, OneAct, OneActive, AtMostOneActive, Indices
  <1> QED
    BY <1>1, <1>2, <1>3, PTL DEF Spec
-------------------------------------------------------------------------------
(* The feeds, as long as no rebuild is dropped.                            *)

\* the pages whose feeds go on: of the list, and once a rebuild has cleared the
\* feeds, of what it restored
FedOn(r, slots) == IF r.at \in {"idle", "clear"} THEN slots ELSE r.restored
FeedInv ==
    \A id \in feeds \ late :
        \/ Has(FedOn(rec, reg.slots), id)
        \/ \E c \in Clients : job[c].at = "unfeed" /\ job[c].id = id

LEMMA FeedStays ==
    ASSUME FeedInv, feeds' \ late' \subseteq feeds \ late,
           \A d \in Clients : job[d].at = "unfeed" => job'[d] = job[d],
           \A id : Has(FedOn(rec, reg.slots), id) => Has(FedOn(rec', reg'.slots), id)
    PROVE  FeedInv'
  BY DEF FeedInv

LEMMA CallFeeds ==
    ASSUME PagesInv, FeedInv, NEW c \in Clients, CallKinds(c)
    PROVE  FeedInv'
  <1>1. ASSUME Others(c), job[c].at # "unfeed", rec' = rec, feeds' \ late' \subseteq feeds \ late,
               \A id : Has(reg.slots, id) => Has(reg'.slots, id)
        PROVE  FeedInv'
    <2>1. \A d \in Clients : job[d].at = "unfeed" => job'[d] = job[d]
      BY <1>1 DEF Others
    <2>2. \A id : Has(FedOn(rec, reg.slots), id) => Has(FedOn(rec', reg'.slots), id)
      BY <1>1 DEF FedOn
    <2> QED
      BY <1>1, <2>1, <2>2, FeedStays
  <1>2. CASE Calm(c)
    BY <1>1, <1>2 DEF Calm, Light, Moves, pastVars
  <1>3. CASE CloseTarget(c) \/ DiscardFails(c)
    BY <1>1, <1>3, CloseTargetDoes, DiscardFailsDoes DEF Light, Moves, pastVars
  <1>4. CASE AdmitFirst(c) \/ AdmitMore(c)
    <2>1. Admits(c)
      BY <1>4, AdmitFirstDoes, AdmitMoreDoes
    <2> QED
      BY <1>1, <2>1 DEF Admits, Moves, OneMore, pastVars
  <1>5. CASE Relists(c)
    BY <1>1, <1>5 DEF Relists, SameTabs, pastVars
  <1>6. CASE Opens(c) \/ Registers(c) \/ Drops(c)
    BY <1>1, <1>6 DEF Opens, Registers, Drops, Frame, Moves, pastVars
  <1>7. CASE Removes(c)
    <2>1. /\ Others(c) /\ job[c].at = "remove" /\ job'[c].at = "unfeed" /\ job'[c].id = job[c].id
          /\ UNCHANGED <<feeds, late, rec>>
      BY <1>7 DEF Removes, Moves
    <2>2. \A id : Has(reg.slots, id) => Has(reg'.slots, id) \/ id = job[c].id
      BY <1>7 DEF Removes, OneLess
    <2>3. \A d \in Clients : job[d].at = "unfeed" => job'[d] = job[d]
      BY <2>1 DEF Others
    <2> QED
      BY <2>1, <2>2, <2>3 DEF FeedInv, FedOn
  <1>8. CASE StartFeed(c)
    <2>1. /\ Light(c) /\ job[c].at = "feed" /\ feeds' = feeds \cup {job[c].id}
          /\ late' = IF Contains(reg, job[c].id) /\ ~reg.recovering THEN late
                     ELSE late \cup {job[c].id}
      BY <1>8, StartFeedDoes
    <2>2. /\ \A d \in Clients : job[d].at = "unfeed" => job'[d] = job[d]
          /\ reg' = reg /\ rec' = rec
      BY <2>1 DEF Light, Moves, Others
    <2>3. Contains(reg, job[c].id) /\ ~reg.recovering => Has(FedOn(rec, reg.slots), job[c].id)
      BY DEF PagesInv, GateInv, FedOn, Contains, Indices, Has
    <2> QED
      BY <2>1, <2>2, <2>3 DEF FeedInv
  <1>9. CASE DropFeed(c)
    <2>1. /\ Others(c) /\ reg' = reg /\ rec' = rec /\ feeds' = feeds \ {job[c].id}
          /\ late' = late \ {job[c].id}
      BY <1>9, DropFeedDoes DEF Light, Moves
    <2> QED
      BY <2>1 DEF FeedInv, Others
  <1> QED
    BY <1>2, <1>3, <1>4, <1>5, <1>6, <1>7, <1>8, <1>9 DEF CallKinds

LEMMA RestFeeds ==
    ASSUME PagesInv, FeedInv, RebuildKinds, ~Abandon
    PROVE  FeedInv'
  <1>1. ASSUME job' = job, UNCHANGED <<feeds, late>>,
               \A id : Has(FedOn(rec, reg.slots), id) => Has(FedOn(rec', reg'.slots), id)
        PROVE  FeedInv'
    BY <1>1, FeedStays
  <1>2. CASE RecoverBegin
    BY <1>1, <1>2, RecoverBeginDoes DEF FedOn, pastVars
  <1>3. CASE ClearFeeds
    BY <1>3, ClearFeedsDoes DEF FeedInv
  <1>4. CASE Swap
    BY <1>1, <1>4, SwapDoes DEF FedOn, pastVars
  <1>5. CASE PassOver \/ ReopenFails
    BY <1>1, <1>5, PassOverDoes, ReopenFailsDoes DEF Passes, FedOn, pastVars
  <1>6. CASE Reopen \/ Reopened
    BY <1>1, <1>6, ReopenDoes, ReopenedDoes DEF FedOn, pastVars
  <1>7. CASE RestorePage
    <2>1. PICK s \in SlotSet :
             /\ rec.at = "feed" /\ s.id = rec.id /\ Passes
             /\ rec'.restored = Append(rec.restored, s) /\ feeds' = feeds \cup {rec.id}
             /\ UNCHANGED <<reg, job, late>>
      BY <1>7, RestorePageDoes DEF pastVars
    <2>2. rec.restored \in Seq(SlotSet)
      BY RecFields DEF PagesInv
    <2>3. \A id : Has(rec'.restored, id) <=> Has(rec.restored, id) \/ id = rec.id
      BY <2>1, <2>2, AppendDoes DEF OneMore
    <2>4. FedOn(rec, reg.slots) = rec.restored /\ FedOn(rec', reg'.slots) = rec'.restored
      BY <2>1 DEF FedOn, Passes
    <2> QED
      BY <2>1, <2>3, <2>4 DEF FeedInv
  <1>8. CASE Finish
    <2>1. /\ rec.at = "restore" /\ SameTabs(rec.restored, reg'.slots) /\ rec'.at = "idle"
          /\ UNCHANGED <<job, feeds, late>>
      BY <1>8, EndsDoesRebuild, RestingIs DEF pastVars, Finish
    <2> QED
      BY <1>1, <2>1 DEF FedOn, SameTabs
  <1> QED
    BY <1>2, <1>3, <1>4, <1>5, <1>6, <1>7, <1>8 DEF RebuildKinds

(* A feed observes a page that is listed, restored or being closed, unless *)
(* it was started for a page that had left the list, and as long as no     *)
(* rebuild is dropped halfway (session/mod.rs, observations.rs).           *)
THEOREM FeedsListed == Spec /\ [][~Abandon]_vars => []NoStrayFeed
  <1>1. Init => PagesInv /\ FeedInv
    <2>1. Init => FeedInv
      BY DEF Init, FeedInv
    <2> QED
      BY <2>1, PagesStart
  <1>2. PagesInv /\ FeedInv /\ [Next]_vars /\ [~Abandon]_vars => (PagesInv /\ FeedInv)'
    <2>1. FeedInv /\ UNCHANGED vars => FeedInv'
      BY DEF vars, pastVars, FeedInv
    <2>2. PagesInv /\ FeedInv /\ Next /\ ~Abandon => FeedInv'
      <3>1. PagesInv /\ FeedInv /\ BrowserKinds => FeedInv'
        BY BrowserDoes DEF BrowserKinds, FeedInv, pastVars
      <3> QED
        BY <3>1, CallFeeds, RestFeeds, NextIs
    <2> QED
      BY <2>1, <2>2, PagesKeep
  <1>3. FeedInv => NoStrayFeed
    BY DEF FeedInv, FedOn, NoStrayFeed, Has, Contains, Indices, At
  <1> QED
    BY <1>1, <1>2, <1>3, PTL DEF Spec
-------------------------------------------------------------------------------
(* The targets of the session's own pages, as long as no rebuild is dropped. *)

\* an engine the session has not swapped in drives no page
AheadInv == \A e \in 1 .. MaxEngines : e > context => driven[e] = {}

\* a page that is being closed was registered, and is not any more once it was
Preparing(jobs, r, e, id) ==
    \/ r.at = "prepare" /\ r.ctx = e /\ r.id = id
    \/ \E c \in Clients : jobs[c].at = "prepare" /\ jobs[c].ctx = e /\ jobs[c].id = id
CloseOK(j, jobs, r, drv, n) ==
    ClosesOwn(j) /\ j.id \in OwnIds =>
        /\ Numbered(n, j.ctx, j.id) /\ ~Preparing(jobs, r, j.ctx, j.id)
        /\ j.at = "remove" => \A d \in drv[j.ctx] : d.id # j.id
CloseInv == \A c \in Clients : CloseOK(job[c], job, rec, driven, serial)

\* a page made for the session is listed, or somebody still has it in hand
Tracked(d, jobs, r, slots, e) ==
    \/ Tracks(IF r.at = "idle" THEN slots ELSE r.restored, d.id, d.tab, e)
    \/ r.at = "feed" /\ r.id = d.id /\ r.tab = d.tab
    \/ \E c \in Clients :
          Holding(jobs[c]) /\ jobs[c].at # "prepare" /\ jobs[c].ctx = e /\ jobs[c].id = d.id
OrphanInv ==
    engine = context => \A d \in driven[context] :
        d.id \in OwnIds /\ d.tab \in tabs \ (unclosed \cup mistaken)
            => Tracked(d, job, rec, reg.slots, context)

LEMMA AheadKeeps ==
    ASSUME PagesInv, AheadInv, Next
    PROVE  AheadInv'
  <1>1. Shapes /\ context \in Nat /\ context <= engines /\ engines \in Nat
    BY Counts DEF PagesInv
  <1>2. ASSUME context' = context, \A e \in 1 .. MaxEngines : driven'[e] \subseteq driven[e]
        PROVE  AheadInv'
    BY <1>2 DEF AheadInv
  <1>3. ASSUME NEW c \in Clients, CallKinds(c)
        PROVE  AheadInv'
    <2>1. CASE Registers(c)
      <3>1. context' = context /\ job[c].ctx \in 1 .. context
        BY <2>1 DEF Registers
      <3>2. \A e \in 1 .. MaxEngines : e > context => driven'[e] = driven[e]
        BY <1>1, <2>1, <3>1 DEF Registers
      <3> QED
        BY <3>1, <3>2 DEF AheadInv
    <2>2. CASE Drops(c)
      BY <1>2, <2>2 DEF Drops
    <2>3. CASE Calm(c) \/ StartFeed(c) \/ DropFeed(c) \/ DiscardFails(c) \/ CloseTarget(c)
      <3>1. Light(c)
        BY <2>3, StartFeedDoes, DropFeedDoes, DiscardFailsDoes, CloseTargetDoes DEF Calm
      <3> QED
        BY <1>2, <3>1 DEF Light, engineVars
    <2>4. CASE AdmitFirst(c) \/ AdmitMore(c) \/ Relists(c) \/ Removes(c) \/ Opens(c)
      BY <1>2, <2>4, AdmitFirstDoes, AdmitMoreDoes DEF Admits, Relists, Removes, Opens, engineVars
    <2> QED
      BY <1>3, <2>1, <2>2, <2>3, <2>4 DEF CallKinds
  <1>4. CASE Swap
    BY <1>1, <1>4, SwapDoes DEF PagesInv, GateInv, AheadInv
  <1>5. CASE Reopened
    <2>1. /\ rec.at = "prepare" /\ context' = context
          /\ \A e \in 1 .. MaxEngines : driven'[e] =
                driven[e] \cup (IF e = rec.ctx THEN {[id |-> rec.id, tab |-> rec.tab]} ELSE {})
      BY <1>5, ReopenedDoes
    <2>2. rec.ctx = context
      BY <2>1 DEF PagesInv, GateInv
    <2>3. \A e \in 1 .. MaxEngines : e > context => driven'[e] = driven[e]
      BY <1>1, <2>1, <2>2
    <2> QED
      BY <2>1, <2>3 DEF AheadInv
  <1>6. CASE \/ RecoverBegin \/ ClearFeeds \/ PassOver \/ ReopenFails \/ Reopen
             \/ RestorePage \/ Finish \/ Abandon
    BY <1>2, <1>6
       DEF RecoverBegin, ClearFeeds, PassOver, ReopenFails, Reopen, RestorePage, Finish, Abandon,
           engineVars
  <1>7. CASE BrowserKinds
    BY <1>2, <1>7, BrowserDoes DEF BrowserKinds
  <1> QED
    BY <1>3, <1>4, <1>5, <1>6, <1>7, NextIs DEF RebuildKinds

LEMMA CloseStays ==
    ASSUME PagesInv, CloseInv, serial' \in Serials, Rising(serial, serial'),
           \A c \in Clients : ClosesOwn(job'[c]) =>
               job'[c] = job[c] \/ CloseOK(job'[c], job', rec', driven', serial'),
           \A e \in 1 .. MaxEngines : \A id : Preparing(job', rec', e, id) =>
               Preparing(job, rec, e, id) \/ ~Numbered(serial, e, id),
           \A e \in 1 .. MaxEngines : \A d \in driven'[e] :
               d \in driven[e] \/ d.id \notin OwnIds \/ Preparing(job, rec, e, d.id)
    PROVE  CloseInv'
  <1> SUFFICES ASSUME NEW c \in Clients, ClosesOwn(job[c]), job'[c] = job[c], job[c].id \in OwnIds
               PROVE  CloseOK(job[c], job', rec', driven', serial')
    BY DEF CloseInv, CloseOK
  <1>1. job[c].ctx \in 1 .. MaxEngines
    <2>1. job[c].ctx \in 1 .. context
      BY DEF PagesInv, CallInv, CallOK, ClosesOwn
    <2> QED
      BY <2>1, Counts, PagesAssumption DEF PagesInv
  <1>2. /\ Numbered(serial, job[c].ctx, job[c].id) /\ ~Preparing(job, rec, job[c].ctx, job[c].id)
        /\ job[c].at = "remove" => \A d \in driven[job[c].ctx] : d.id # job[c].id
    BY DEF CloseInv, CloseOK
  <1>3. serial[job[c].ctx] <= serial'[job[c].ctx] /\ serial \in Serials
    BY <1>1 DEF Rising, PagesInv, Shapes
  <1>4. Numbered(serial', job[c].ctx, job[c].id)
    BY <1>1, <1>2, <1>3, NumberedGrows
  <1> QED
    BY <1>1, <1>2, <1>4 DEF CloseOK

\* the calls and the rebuild have no new page in preparation
LEMMA PrepareStays ==
    ASSUME NEW c \in Clients, Others(c), Stays(job[c], job'[c]), rec' = rec
    PROVE  \A e, id : Preparing(job', rec', e, id) => Preparing(job, rec, e, id)
  <1>1. job'[c].at = "prepare" =>
            job[c].at = "prepare" /\ job[c].ctx = job'[c].ctx /\ job[c].id = job'[c].id
    BY DEF Stays, Holding
  <1> QED
    BY <1>1 DEF Preparing, Others

LEMMA CallCloses ==
    ASSUME PagesInv, CloseInv, NEW c \in Clients, CallKinds(c)
    PROVE  CloseInv'
  <1>0. serial \in Serials /\ Rising(serial, serial)
    BY RisingIs DEF PagesInv
  <1>1. ASSUME Others(c), Stays(job[c], job'[c]), rec' = rec, serial' = serial,
               \A e \in 1 .. MaxEngines : driven'[e] \subseteq driven[e],
               ClosesOwn(job'[c]) => CloseOK(job'[c], job', rec', driven', serial')
        PROVE  CloseInv'
    <2>1. \A e, id : Preparing(job', rec', e, id) => Preparing(job, rec, e, id)
      BY <1>1, PrepareStays
    <2>2. \A d \in Clients : ClosesOwn(job'[d]) =>
             job'[d] = job[d] \/ CloseOK(job'[d], job', rec', driven', serial')
      BY <1>1 DEF Others
    <2> QED
      BY <1>0, <1>1, <2>1, <2>2, CloseStays
  <1>2. CASE Calm(c) \/ StartFeed(c) \/ DropFeed(c) \/ DiscardFails(c)
    <2>1. Light(c) /\ ~ClosesOwn(job'[c])
      BY <1>2, StartFeedDoes, DropFeedDoes, DiscardFailsDoes DEF Calm
    <2> QED
      BY <1>1, <2>1 DEF Light, Moves, engineVars
  <1>3. CASE AdmitFirst(c) \/ AdmitMore(c) \/ Relists(c) \/ Removes(c)
    <2>1. /\ Others(c) /\ ~Holding(job'[c]) /\ ~ClosesOwn(job'[c]) /\ rec' = rec
          /\ UNCHANGED engineVars
      BY <1>3, AdmitFirstDoes, AdmitMoreDoes DEF Admits, Relists, Removes, Moves
    <2> QED
      BY <1>1, <2>1 DEF Stays, engineVars
  <1>4. CASE CloseTarget(c)
    <2>1. /\ Light(c) /\ job'[c].at = "close" /\ job[c].at = "lookup"
          /\ job'[c].ctx = job[c].ctx /\ job'[c].id = job[c].id
      BY <1>4, CloseTargetDoes
    <2>2. PICK d \in driven[job[c].ctx] : d.id = job[c].id
      BY <1>4, CloseTargetDoes
    <2>3. job[c].ctx \in 1 .. MaxEngines
      <3>1. job[c].ctx \in 1 .. context
        BY <2>1 DEF PagesInv, CallInv, CallOK
      <3> QED
        BY <3>1, Counts, PagesAssumption DEF PagesInv
    <2>4. d.id \in OwnIds => Numbered(serial, job[c].ctx, d.id)
      BY <2>2, <2>3 DEF PagesInv, CountInv, DrivenCounted
    <2>5. ~Preparing(job, rec, job[c].ctx, job[c].id)
      <3>1. \A b \in Clients : job[b].at = "prepare" /\ job[b].ctx = job[c].ctx => d.id # job[b].id
        BY <2>2, HeldIs DEF HeldIn, Holding
      <3>2. rec.at = "prepare" /\ rec.ctx = job[c].ctx => d.id # rec.id
        BY <2>2 DEF PagesInv, RestoreInv, ReopenedOK, Rebuilding
      <3> QED
        BY <2>2, <3>1, <3>2 DEF Preparing
    <2>6. Others(c) /\ Stays(job[c], job'[c]) /\ rec' = rec /\ UNCHANGED engineVars
      BY <2>1 DEF Light, Moves
    <2>7. ~Preparing(job', rec', job'[c].ctx, job'[c].id)
      BY <2>1, <2>5, <2>6, PrepareStays
    <2>8. CloseOK(job'[c], job', rec', driven', serial')
      BY <2>1, <2>2, <2>4, <2>6, <2>7 DEF CloseOK, engineVars
    <2> QED
      BY <1>1, <2>6, <2>8 DEF engineVars
  <1>5. CASE Drops(c)
    <2>1. /\ Others(c) /\ ~Holding(job'[c]) /\ rec' = rec /\ serial' = serial
          /\ \A e \in 1 .. MaxEngines : driven'[e] \subseteq driven[e]
      BY <1>5 DEF Drops, Frame, Moves
    <2>2. Stays(job[c], job'[c])
      BY <2>1 DEF Stays
    <2>3. ClosesOwn(job'[c]) => CloseOK(job'[c], job', rec', driven', serial')
      <3> SUFFICES ASSUME ClosesOwn(job'[c]), job'[c].id \in OwnIds
                   PROVE  CloseOK(job'[c], job', rec', driven', serial')
        BY DEF CloseOK
      <3>1. /\ job[c].at = "close" /\ job'[c].ctx = job[c].ctx /\ job'[c].id = job[c].id
            /\ \A d \in driven'[job[c].ctx] : d.id # job[c].id
        BY <1>5 DEF Drops
      <3>2. Numbered(serial, job[c].ctx, job[c].id) /\ ~Preparing(job, rec, job[c].ctx, job[c].id)
        BY <3>1 DEF CloseInv, CloseOK, ClosesOwn
      <3> QED
        BY <2>1, <2>2, <3>1, <3>2, PrepareStays DEF CloseOK
    <2> QED
      BY <1>1, <2>1, <2>2, <2>3
  <1>6. CASE Opens(c)
    <2>1. /\ Others(c) /\ rec' = rec /\ serial' \in Serials /\ Rising(serial, serial')
          /\ driven' = driven /\ job'[c].at = "prepare"
          /\ ~Numbered(serial, job'[c].ctx, job'[c].id)
      BY <1>6 DEF Opens, Frame, Moves
    <2>2. \A e \in 1 .. MaxEngines : \A id : Preparing(job', rec', e, id) =>
               Preparing(job, rec, e, id) \/ ~Numbered(serial, e, id)
      BY <2>1 DEF Preparing, Others
    <2>3. \A d \in Clients : ClosesOwn(job'[d]) => job'[d] = job[d]
      BY <2>1 DEF Others, ClosesOwn
    <2> QED
      BY <2>1, <2>2, <2>3, CloseStays
  <1>7. CASE Registers(c)
    <2> DEFINE p == [id |-> job[c].id, tab |-> job[c].tab]
    <2>1. /\ Others(c) /\ rec' = rec /\ serial' = serial /\ job'[c].at = "admit"
          /\ job[c].at \in {"prepare", "attach"} /\ (job[c].at = "attach" => job[c].id \notin OwnIds)
          /\ \A e \in 1 .. MaxEngines :
                driven'[e] = driven[e] \cup (IF e = job[c].ctx THEN {p} ELSE {})
      BY <1>7 DEF Registers, Frame, Moves
    <2>2. p.id = job[c].id
      OBVIOUS
    <2> HIDE DEF p
    <2>3. \A e \in 1 .. MaxEngines : \A d \in driven'[e] :
               d \in driven[e] \/ d.id \notin OwnIds \/ Preparing(job, rec, e, d.id)
      BY <2>1, <2>2 DEF Preparing
    <2>4. \A e, id : Preparing(job', rec', e, id) => Preparing(job, rec, e, id)
      BY <2>1 DEF Preparing, Others
    <2>5. \A d \in Clients : ClosesOwn(job'[d]) => job'[d] = job[d]
      BY <2>1 DEF Others, ClosesOwn
    <2> QED
      BY <1>0, <2>1, <2>3, <2>4, <2>5, CloseStays
  <1> QED
    BY <1>2, <1>3, <1>4, <1>5, <1>6, <1>7 DEF CallKinds

LEMMA RestCloses ==
    ASSUME PagesInv, CloseInv, RebuildKinds \/ BrowserKinds
    PROVE  CloseInv'
  <1>0. serial \in Serials /\ Rising(serial, serial)
    BY RisingIs DEF PagesInv
  <1>1. ASSUME job' = job, driven' = driven, serial' \in Serials, Rising(serial, serial'),
               rec'.at = "prepare" => rec' = rec \/ ~Numbered(serial, rec'.ctx, rec'.id)
        PROVE  CloseInv'
    <2>1. \A e \in 1 .. MaxEngines : \A id : Preparing(job', rec', e, id) =>
               Preparing(job, rec, e, id) \/ ~Numbered(serial, e, id)
      BY <1>1 DEF Preparing
    <2> QED
      BY <1>1, <2>1, CloseStays
  <1>2. CASE RecoverBegin \/ ClearFeeds \/ Swap
    BY <1>0, <1>1, <1>2, RecoverBeginDoes, ClearFeedsDoes, SwapDoes DEF engineVars
  <1>3. CASE PassOver \/ ReopenFails
    BY <1>0, <1>1, <1>3, PassOverDoes, ReopenFailsDoes DEF Passes, engineVars
  <1>4. CASE Reopen
    BY <1>1, <1>4, ReopenDoes
  <1>5. CASE RestorePage
    BY <1>0, <1>1, <1>5, RestorePageDoes DEF Passes, engineVars
  <1>6. CASE Finish \/ Abandon
    BY <1>0, <1>1, <1>6, EndsDoesRebuild, RestingIs DEF engineVars
  <1>7. CASE BrowserKinds
    BY <1>0, <1>1, <1>7, BrowserDoes DEF BrowserKinds
  <1>8. CASE Reopened
    <2> DEFINE p == [id |-> rec.id, tab |-> rec.tab]
    <2>1. /\ rec.at = "prepare" /\ rec'.at = "feed" /\ UNCHANGED <<job, serial>>
          /\ \A e \in 1 .. MaxEngines :
                driven'[e] = driven[e] \cup (IF e = rec.ctx THEN {p} ELSE {})
      BY <1>8, ReopenedDoes
    <2>2. p.id = rec.id
      OBVIOUS
    <2> HIDE DEF p
    <2>3. \A e \in 1 .. MaxEngines : \A d \in driven'[e] :
               d \in driven[e] \/ d.id \notin OwnIds \/ Preparing(job, rec, e, d.id)
      BY <2>1, <2>2 DEF Preparing
    <2>4. \A e, id : Preparing(job', rec', e, id) => Preparing(job, rec, e, id)
      BY <2>1 DEF Preparing
    <2> QED
      BY <1>0, <2>1, <2>3, <2>4, CloseStays
  <1> QED
    BY <1>2, <1>3, <1>4, <1>5, <1>6, <1>7, <1>8 DEF RebuildKinds

LEMMA OrphanStays ==
    ASSUME PagesInv, OrphanInv, context' = context, engine' = engine,
           \A t \in tabs' : t \in tabs \/ t \notin 1 .. born,
           unclosed \subseteq unclosed', mistaken \subseteq mistaken',
           \A d \in driven'[context] :
               /\ engine = context /\ d.id \in OwnIds /\ d.tab \notin unclosed' \cup mistaken'
               /\ d \in driven[context] => Tracked(d, job, rec, reg.slots, context)
               => Tracked(d, job', rec', reg'.slots, context)
    PROVE  OrphanInv'
  <1> SUFFICES ASSUME engine = context, NEW d \in driven'[context], d.id \in OwnIds,
                      d.tab \in tabs' \ (unclosed' \cup mistaken')
               PROVE  Tracked(d, job', rec', reg'.slots, context)
    BY DEF OrphanInv
  <1>1. d \in driven[context] => d.tab \in 1 .. born
    BY Counts DEF PagesInv, CountInv, DrivenCounted
  <1>2. d \in driven[context] => Tracked(d, job, rec, reg.slots, context)
    BY <1>1 DEF OrphanInv
  <1> QED
    BY <1>2

\* a page stays tracked through another call's step, unless that call had it
InHand(j, d, e) == Holding(j) /\ j.at # "prepare" /\ j.ctx = e /\ j.id = d.id
LEMMA TrackStays ==
    ASSUME NEW c \in Clients, Others(c), rec' = rec,
           \A id, tab, e : Tracks(reg.slots, id, tab, e) => Tracks(reg'.slots, id, tab, e),
           NEW d, NEW e, Tracked(d, job, rec, reg.slots, e)
    PROVE  Tracked(d, job', rec', reg'.slots, e) \/ InHand(job[c], d, e)
  <1>1. CASE Tracks(IF rec.at = "idle" THEN reg.slots ELSE rec.restored, d.id, d.tab, e)
    BY <1>1 DEF Tracked
  <1>2. CASE rec.at = "feed" /\ rec.id = d.id /\ rec.tab = d.tab
    BY <1>2 DEF Tracked
  <1>3. CASE \E b \in Clients : InHand(job[b], d, e)
    BY <1>3 DEF Tracked, Others, InHand
  <1> QED
    BY <1>1, <1>2, <1>3 DEF Tracked, InHand

LEMMA CallOrphans ==
    ASSUME PagesInv, CloseInv, OrphanInv, NEW c \in Clients, CallKinds(c)
    PROVE  OrphanInv'
  <1>0. context \in 1 .. MaxEngines
    BY Counts DEF PagesInv
  <1>1. ASSUME Others(c), rec' = rec, context' = context, engine' = engine,
               \A t \in tabs' : t \in tabs \/ t \notin 1 .. born,
               unclosed \subseteq unclosed', mistaken \subseteq mistaken',
               driven'[context] \subseteq driven[context],
               \A id, tab, e : Tracks(reg.slots, id, tab, e) => Tracks(reg'.slots, id, tab, e),
               \A d \in driven'[context] :
                   InHand(job[c], d, context) /\ d.tab \notin unclosed'
                       => Tracked(d, job', rec', reg'.slots, context)
        PROVE  OrphanInv'
    <2> SUFFICES ASSUME NEW d \in driven'[context], d.tab \notin unclosed' \cup mistaken',
                        Tracked(d, job, rec, reg.slots, context)
                 PROVE  Tracked(d, job', rec', reg'.slots, context)
      BY <1>1, OrphanStays
    <2>1. Tracked(d, job', rec', reg'.slots, context) \/ InHand(job[c], d, context)
      BY <1>1, TrackStays
    <2> QED
      BY <1>1, <2>1
  <1>2. ASSUME ~Holding(job[c]) \/ job[c].at = "prepare"
        PROVE  \A d : ~InHand(job[c], d, context)
    BY <1>2 DEF InHand
  <1>3. CASE Calm(c)
    <2>1. \A d : InHand(job[c], d, context) => InHand(job'[c], d, context)
      BY <1>3 DEF Calm, Retains, InHand
    <2>2. \A d : InHand(job'[c], d, context) => Tracked(d, job', rec', reg'.slots, context)
      BY DEF InHand, Tracked
    <2> QED
      BY <1>1, <1>3, <2>1, <2>2 DEF Calm, Light, Moves, engineVars, pastVars
  <1>4. CASE StartFeed(c) \/ DropFeed(c) \/ CloseTarget(c)
    <2>1. /\ Light(c) /\ job[c].at \in {"feed", "unfeed", "lookup"}
          /\ unclosed' = unclosed /\ mistaken' = mistaken
      BY <1>4, StartFeedDoes, DropFeedDoes, CloseTargetDoes DEF pastVars
    <2>2. ~Holding(job[c])
      BY <2>1 DEF Holding
    <2> QED
      BY <1>1, <1>2, <2>1, <2>2 DEF Light, Moves, engineVars
  <1>5. CASE DiscardFails(c)
    <2>1. /\ Light(c) /\ job[c].at = "discard" /\ unclosed' = unclosed \cup {job[c].tab}
          /\ mistaken' = mistaken
      BY <1>5, DiscardFailsDoes
    <2>2. \A d \in driven[context] : InHand(job[c], d, context) => d.tab = job[c].tab
      BY <2>1, HeldIs DEF InHand, HeldIn
    <2> QED
      BY <1>1, <2>1, <2>2 DEF Light, Moves, engineVars
  <1>6. CASE AdmitFirst(c) \/ AdmitMore(c)
    <2>1. Admits(c)
      BY <1>6, AdmitFirstDoes, AdmitMoreDoes
    <2>2. /\ Others(c) /\ rec' = rec /\ UNCHANGED engineVars /\ UNCHANGED pastVars
          /\ ~reg.recovering /\ OneMore(reg.slots, reg'.slots, Offered(job[c]))
      BY <2>1 DEF Admits, Moves
    <2>3. rec.at = "idle"
      BY <2>2 DEF PagesInv, GateInv
    <2>4. \A d \in driven[context] : InHand(job[c], d, context) =>
             Tracks(reg'.slots, d.id, d.tab, context)
      BY <2>2, HeldIs, OfferedFields DEF InHand, HeldIn, OneMore
    <2>5. \A d \in driven[context] : InHand(job[c], d, context) =>
             Tracked(d, job', rec', reg'.slots, context)
      BY <2>2, <2>3, <2>4 DEF Tracked
    <2> QED
      BY <1>1, <2>2, <2>5 DEF OneMore, engineVars, pastVars
  <1>7. CASE Relists(c)
    BY <1>1, <1>2, <1>7 DEF Relists, SameTabs, engineVars, pastVars
  <1>8. CASE Opens(c)
    <2>1. /\ Others(c) /\ ~Holding(job[c]) /\ \A t \in tabs' : t \in tabs \/ t \notin 1 .. born
          /\ UNCHANGED <<reg, context, engine, engines, driven, rec, pastVars>>
      BY <1>8 DEF Opens, Frame, Moves, Holding
    <2> QED
      BY <1>1, <1>2, <2>1 DEF pastVars
  <1>9. CASE Drops(c)
    <2>1. /\ Others(c) /\ tabs' \subseteq tabs /\ job[c].at \in {"prepare", "discard", "close"}
          /\ \A e \in 1 .. MaxEngines : driven'[e] \subseteq driven[e]
          /\ job[c].at # "prepare" => \A d \in driven'[job[c].ctx] : d.id # job[c].id
          /\ UNCHANGED <<reg, context, engine, rec, pastVars>>
      BY <1>9 DEF Drops, Frame, Moves
    <2>2. \A d \in driven'[context] : ~InHand(job[c], d, context)
      BY <2>1 DEF InHand
    <2> QED
      BY <1>0, <1>1, <2>1, <2>2 DEF pastVars
  <1>10. CASE Registers(c)
    <2> DEFINE p == [id |-> job[c].id, tab |-> job[c].tab]
               j == job[c]
               k == job'[c]
    <2>1. /\ Others(c) /\ rec' = rec /\ j.at \in {"prepare", "attach"} /\ k.at = "admit"
          /\ k.op = j.op /\ k.ctx = j.ctx /\ k.id = j.id
          /\ (j.at = "attach" => j.id \notin OwnIds)
          /\ \A e \in 1 .. MaxEngines : driven'[e] = driven[e] \cup (IF e = j.ctx THEN {p} ELSE {})
          /\ UNCHANGED <<reg, context, engine, tabs, pastVars>>
      BY <1>10 DEF Registers, Frame, Moves
    <2>2. p.id = j.id
      OBVIOUS
    <2> HIDE DEF p
    <2>3. ~Holding(j) \/ j.at = "prepare"
      BY <2>1 DEF Holding
    <2>4. j.at = "prepare" => Holding(k) /\ k.at # "prepare"
      <3>1. j.at = "prepare" => j.op \in {"ensure", "open"}
        BY DEF PagesInv, CallInv, CallOK, Holding
      <3> QED
        BY <2>1, <3>1 DEF Holding
    <2>5. ASSUME NEW d \in driven'[context], d.id \in OwnIds,
                 d \in driven[context] => Tracked(d, job, rec, reg.slots, context)
          PROVE  Tracked(d, job', rec', reg'.slots, context)
      <3>1. CASE d \in driven[context]
        <4>1. Tracked(d, job', rec', reg'.slots, context) \/ InHand(j, d, context)
          BY <2>1, <2>5, <3>1, TrackStays
        <4> QED
          BY <2>3, <4>1 DEF InHand
      <3>2. CASE d \notin driven[context]
        <4>1. d = p /\ context = j.ctx
          BY <1>0, <2>1, <2>5, <3>2
        <4>2. j.at = "prepare"
          BY <2>1, <2>2, <2>5, <4>1
        <4>3. InHand(k, d, context)
          BY <2>1, <2>2, <2>4, <4>1, <4>2 DEF InHand
        <4> QED
          BY <4>3 DEF InHand, Tracked
      <3> QED
        BY <3>1, <3>2
    <2> QED
      BY <2>1, <2>5, OrphanStays DEF pastVars
  <1>11. CASE Removes(c)
    <2>1. /\ Others(c) /\ ~Holding(job[c]) /\ job[c].at = "remove" /\ rec' = rec
          /\ UNCHANGED engineVars /\ unclosed' = unclosed /\ mistaken \subseteq mistaken'
      BY <1>11 DEF Removes, Moves, Holding
    <2>2. CASE reg' = reg
      BY <1>1, <1>2, <2>1, <2>2 DEF engineVars
    <2>3. ASSUME NEW x \in SlotSet, x.id = job[c].id, OneLess(reg.slots, reg'.slots, x),
                 mistaken' = IF Meant(job[c], x) THEN mistaken ELSE mistaken \cup {x.tab}
          PROVE  OrphanInv'
      <3>1. ASSUME NEW d \in driven[context], d.id \in OwnIds, d.tab \notin mistaken',
                   d.id = x.id, d.tab = x.tab, context = x.ctx
            PROVE  FALSE
        <4>1. Meant(job[c], x)
          BY <2>3, <3>1
        <4>2. x.tab = job[c].tab /\ x.ctx = job[c].ctx
          BY <3>1, <4>1 DEF Meant, Registered
        <4>3. x.tab # 0
          BY SlotFields, PagesAssumption
        <4>4. ClosesOwn(job[c])
          BY <2>1, <4>2, <4>3 DEF ClosesOwn
        <4> QED
          BY <2>1, <2>3, <3>1, <4>2, <4>4 DEF CloseInv, CloseOK
      <3>2. ASSUME NEW d \in driven[context], d.id \in OwnIds, d.tab \notin mistaken',
                   Tracked(d, job, rec, reg.slots, context)
            PROVE  Tracked(d, job', rec', reg'.slots, context)
        <4>1. CASE rec.at = "idle" /\ Tracks(reg.slots, d.id, d.tab, context)
          <5>1. Tracks(reg'.slots, d.id, d.tab, context)
            BY <2>3, <3>1, <3>2, <4>1 DEF OneLess
          <5> QED
            BY <2>1, <4>1, <5>1 DEF Tracked
        <4>2. CASE rec.at # "idle" /\ Tracks(rec.restored, d.id, d.tab, context)
          BY <2>1, <4>2 DEF Tracked
        <4>3. CASE rec.at = "feed" /\ rec.id = d.id /\ rec.tab = d.tab
          BY <2>1, <4>3 DEF Tracked
        <4>4. CASE \E b \in Clients : InHand(job[b], d, context)
          <5>1. PICK b \in Clients : InHand(job[b], d, context)
            BY <4>4
          <5>2. job'[b] = job[b]
            BY <2>1, <5>1 DEF Others, InHand
          <5> QED
            BY <5>1, <5>2 DEF InHand, Tracked
        <4> QED
          BY <3>2, <4>1, <4>2, <4>3, <4>4 DEF Tracked, InHand
      <3> QED
        BY <2>1, <2>3, <3>2, OrphanStays DEF engineVars
    <2> QED
      BY <1>11, <2>2, <2>3 DEF Removes
  <1> QED
    BY <1>3, <1>4, <1>5, <1>6, <1>7, <1>8, <1>9, <1>10, <1>11 DEF CallKinds

LEMMA RestOrphans ==
    ASSUME PagesInv, AheadInv, OrphanInv, RebuildKinds, ~Abandon
    PROVE  OrphanInv'
  <1>0. context \in 1 .. MaxEngines /\ context \in Nat /\ engines \in Nat
    BY Counts DEF PagesInv
  <1>1. ASSUME job' = job, context' = context, engine' = engine, driven' = driven,
               UNCHANGED pastVars, \A t \in tabs' : t \in tabs \/ t \notin 1 .. born,
               \A d : engine = context /\ Tracked(d, job, rec, reg.slots, context)
                          => Tracked(d, job, rec', reg'.slots, context)
        PROVE  OrphanInv'
    BY <1>1, OrphanStays DEF pastVars
  <1>2. CASE RecoverBegin
    <2>1. engine' # context'
      BY <1>0, <1>2, RecoverBeginDoes, Counts DEF PagesInv
    <2> QED
      BY <2>1 DEF OrphanInv
  <1>3. CASE ClearFeeds
    <2>1. engine' # context'
      BY <1>0, <1>3, ClearFeedsDoes DEF PagesInv, Shapes, GateInv, engineVars
    <2> QED
      BY <2>1 DEF OrphanInv
  <1>4. CASE Swap
    <2>1. driven'[context'] = {}
      BY <1>0, <1>4, SwapDoes, Counts DEF PagesInv, GateInv, AheadInv
    <2> QED
      BY <2>1 DEF OrphanInv
  <1>5. CASE PassOver
    BY <1>1, <1>5, PassOverDoes DEF Passes, Tracked, engineVars
  <1>6. CASE ReopenFails
    BY <1>1, <1>6, ReopenFailsDoes DEF Passes, Tracked
  <1>7. CASE Reopen
    BY <1>1, <1>7, ReopenDoes DEF Tracked
  <1>8. CASE Reopened
    <2> DEFINE p == [id |-> rec.id, tab |-> rec.tab]
    <2>1. /\ rec.at = "prepare" /\ rec'.at = "feed" /\ rec'.id = rec.id /\ rec'.tab = rec.tab
          /\ rec'.restored = rec.restored
          /\ \A e \in 1 .. MaxEngines :
                driven'[e] = driven[e] \cup (IF e = rec.ctx THEN {p} ELSE {})
          /\ UNCHANGED <<reg, context, engine, tabs, job, pastVars>>
      BY <1>8, ReopenedDoes
    <2>2. p.id = rec.id /\ p.tab = rec.tab
      OBVIOUS
    <2> HIDE DEF p
    <2>3. \A d \in driven'[context] : d \in driven[context] \/ d = p
      BY <1>0, <2>1
    <2>4. \A d : Tracked(d, job, rec, reg.slots, context) => Tracked(d, job, rec', reg'.slots, context)
      BY <2>1 DEF Tracked
    <2>5. Tracked(p, job, rec', reg'.slots, context)
      BY <2>1, <2>2 DEF Tracked
    <2> QED
      BY <2>1, <2>3, <2>4, <2>5, OrphanStays DEF pastVars
  <1>9. CASE RestorePage
    <2>1. PICK s \in SlotSet :
             /\ rec.at = "feed" /\ s.id = rec.id /\ s.tab = rec.tab /\ s.ctx = rec.ctx
             /\ Passes /\ rec'.restored = Append(rec.restored, s)
             /\ UNCHANGED <<reg, engineVars, job, pastVars>>
      BY <1>9, RestorePageDoes
    <2>2. rec.restored \in Seq(SlotSet) /\ rec.ctx = context
      BY <2>1, RecFields DEF PagesInv, GateInv
    <2>3. /\ \A id, tab, e : Tracks(rec.restored, id, tab, e) => Tracks(rec'.restored, id, tab, e)
          /\ Tracks(rec'.restored, rec.id, rec.tab, context)
      BY <2>1, <2>2, AppendDoes DEF OneMore
    <2>4. \A d : Tracked(d, job, rec, reg.slots, context) => Tracked(d, job, rec', reg'.slots, context)
      BY <2>1, <2>3 DEF Tracked, Passes
    <2> QED
      BY <1>1, <2>1, <2>4 DEF engineVars
  <1>10. CASE Finish
    <2>1. /\ rec.at = "restore" /\ SameTabs(rec.restored, reg'.slots) /\ rec'.at = "idle"
          /\ UNCHANGED <<engineVars, job, pastVars>>
      BY <1>10, EndsDoesRebuild, RestingIs DEF Finish
    <2>2. \A d : Tracked(d, job, rec, reg.slots, context) => Tracked(d, job, rec', reg'.slots, context)
      BY <2>1 DEF Tracked, SameTabs
    <2> QED
      BY <1>1, <2>1, <2>2 DEF engineVars
  <1> QED
    BY <1>2, <1>3, <1>4, <1>5, <1>6, <1>7, <1>8, <1>9, <1>10 DEF RebuildKinds

LEMMA BrowserOrphans ==
    ASSUME PagesInv, OrphanInv, BrowserKinds
    PROVE  OrphanInv'
  <1>1. /\ \A t \in tabs' : t \in tabs \/ t \notin 1 .. born
        /\ engine' = engine \/ engine' = 0
        /\ UNCHANGED <<reg, context, driven, job, rec, pastVars>> /\ context # 0
    BY BrowserDoes, Counts DEF BrowserKinds, PagesInv
  <1>2. CASE engine' = engine
    BY <1>1, <1>2, OrphanStays DEF pastVars
  <1>3. CASE engine' = 0
    BY <1>1, <1>3 DEF OrphanInv
  <1> QED
    BY <1>1, <1>2, <1>3

(* A page made for the session is listed once the calls are over, as long  *)
(* as no rebuild is dropped halfway: the losers of the opening races and   *)
(* the pages opened into a rebuild were closed, but for a close that failed*)
(* and a slot that the close of another page took (session/mod.rs).        *)
THEOREM NothingOrphaned == Spec /\ [][~Abandon]_vars => []NoOrphan
  <1> DEFINE I == PagesInv /\ AheadInv /\ CloseInv /\ OrphanInv
  <1>1. Init => I
    <2> SUFFICES ASSUME Init PROVE I
      OBVIOUS
    <2>1. /\ context \in 1 .. MaxEngines /\ \A e \in 1 .. MaxEngines : driven[e] = {}
          /\ \A c \in Clients : ~ClosesOwn(job[c])
      BY PagesAssumption, FreeIs DEF Init
    <2>2. AheadInv /\ CloseInv /\ OrphanInv
      BY <2>1 DEF AheadInv, CloseInv, CloseOK, OrphanInv
    <2> QED
      BY <2>2, PagesStart
  <1>2. I /\ [Next]_vars /\ [~Abandon]_vars => I'
    <2>1. I /\ UNCHANGED vars => I'
      BY PagesKeep DEF vars, pastVars, AheadInv, CloseInv, OrphanInv
    <2>2. I /\ Next /\ ~Abandon => I'
      BY PagesKeep, AheadKeeps, CallCloses, RestCloses, CallOrphans, RestOrphans, BrowserOrphans, NextIs
    <2> QED
      BY <2>1, <2>2
  <1>3. I => NoOrphan
    <2> SUFFICES ASSUME PagesInv, OrphanInv, Quiet, NEW d \in driven[context],
                        d.tab \in tabs \ (unclosed \cup mistaken), d.id \in OwnIds
                 PROVE  \E i \in Indices(reg) : reg.slots[i].tab = d.tab
      BY DEF NoOrphan
    <2>1. /\ rec.at = "idle" /\ engine = context /\ \A c \in Clients : ~Holding(job[c])
      BY DEF Quiet, PagesInv, GateInv, Holding
    <2>2. Tracks(reg.slots, d.id, d.tab, context)
      BY <2>1 DEF OrphanInv, Tracked
    <2> QED
      BY <2>2 DEF Tracks, Indices
  <1> QED
    BY <1>1, <1>2, <1>3, PTL DEF Spec
-------------------------------------------------------------------------------
(* The observation feeds of one page id, for any number of handles, tasks   *)
(* and console lines, and any sizes of the buffer and the channel.         *)

TaskStages == {"unused", "spawned", "listening", "reading", "answering", "over",
               "refused", "ended"}
TaskSet == [at : TaskStages, handle : Handles \cup {None}, aborted : BOOLEAN]
PageSet == [claimed : BOOLEAN, emitted : Nat, lines : Seq(Nat), asks : BOOLEAN,
            dialog : BOOLEAN, channel : Seq(Nat)]
FeedSet == [token : 0 .. MaxSpawns, entries : Seq(Nat), kept : Seq(Nat)]

Feeding == {"spawned", "listening", "reading", "answering", "over"}

FeedState ==
    /\ tracked \in Handles \cup {None} /\ used \subseteq Handles
    /\ tracked # None => tracked \in used
    /\ feed \in FeedSet /\ task \in [Tokens -> TaskSet] /\ page \in [Handles -> PageSet]
    /\ \A h \in Handles : Len(page[h].channel) <= ChannelSize

\* a task is of the handle that was tracked when it was spawned
TaskOf(t) ==
    /\ task[t].at # "unused" => task[t].handle \in used
    /\ task[t].at = "unused" => ~task[t].aborted
    /\ task[t].aborted => task[t].handle # tracked
TasksOf == \A t \in Tokens : TaskOf(t)

\* the entry of the id is of the handle that is tracked now
EntryOf ==
    feed.token # 0 =>
        /\ task[feed.token].at # "unused" /\ ~task[feed.token].aborted
        /\ task[feed.token].handle = tracked

\* the buffer, entry by entry, is the end of what was recorded in it
Newest(f) ==
    /\ Len(f.entries) = IF Len(f.kept) > FeedCapacity THEN FeedCapacity ELSE Len(f.kept)
    /\ \A i \in 1 .. Len(f.entries) :
          f.entries[i] = f.kept[Len(f.kept) - Len(f.entries) + i]

StreamInv ==
    FeedState /\ TasksOf /\ EntryOf /\ RunningHasEntry /\ FeedHasStream /\ Newest(feed)

LEMMA TaskFields ==
    ASSUME NEW r \in TaskSet
    PROVE  r.at \in TaskStages /\ r.handle \in Handles \cup {None} /\ r.aborted \in BOOLEAN
  BY DEF TaskSet

LEMMA FeedFields ==
    ASSUME NEW f \in FeedSet
    PROVE  f.token \in 0 .. MaxSpawns /\ f.entries \in Seq(Nat) /\ f.kept \in Seq(Nat)
  BY DEF FeedSet

LEMMA PageFields ==
    ASSUME NEW p \in PageSet
    PROVE  /\ p.claimed \in BOOLEAN /\ p.emitted \in Nat /\ p.lines \in Seq(Nat)
           /\ p.asks \in BOOLEAN /\ p.dialog \in BOOLEAN /\ p.channel \in Seq(Nat)
  BY DEF PageSet

\* a task's next stage
LEMMA BecomesIs ==
    ASSUME NEW t \in Tokens, NEW at \in TaskStages, task \in [Tokens -> TaskSet], Becomes(t, at)
    PROVE  /\ task' \in [Tokens -> TaskSet] /\ task'[t].at = at
           /\ task'[t].handle = task[t].handle /\ task'[t].aborted = task[t].aborted
           /\ \A u \in Tokens \ {t} : task'[u] = task[u]
  <1> DEFINE r == [task[t] EXCEPT !.at = at]
  <1>1. /\ r \in TaskSet /\ r.at = at /\ r.handle = task[t].handle
        /\ r.aborted = task[t].aborted
    BY DEF TaskSet
  <1>2. task' = [task EXCEPT ![t] = r]
    BY DEF Becomes
  <1> HIDE DEF r
  <1> QED
    BY <1>1, <1>2

(* A step that leaves sessions, entry and claims alone, or lets go of a     *)
(* claim with the task that held it, keeps what the tasks are to each other *)
(* as long as no task starts again.                                        *)
LEMMA TasksStep ==
    ASSUME StreamInv, NEW t \in Tokens, task' \in [Tokens -> TaskSet],
           task'[t].handle = task[t].handle, task'[t].aborted = task[t].aborted,
           \A u \in Tokens \ {t} : task'[u] = task[u],
           task[t].at # "unused", task'[t].at # "unused",
           task'[t].at \in Feeding => task[t].at \in Feeding,
           UNCHANGED <<tracked, used>>, feed'.token = feed.token
    PROVE  TasksOf' /\ EntryOf' /\ RunningHasEntry'
  <1>1. TasksOf'
    <2> SUFFICES ASSUME NEW u \in Tokens
                 PROVE  TaskOf(u)'
      BY DEF TasksOf
    <2> QED
      BY DEF StreamInv, TasksOf, TaskOf
  <1>2. feed.token \in Tokens \cup {0}
    BY FeedAssumption, FeedFields DEF StreamInv, FeedState, Tokens
  <1>3. EntryOf'
    BY <1>2 DEF StreamInv, EntryOf
  <1>4. RunningHasEntry'
    BY DEF StreamInv, RunningHasEntry, Feeding
  <1> QED
    BY <1>1, <1>3, <1>4

Streaming == {"listening", "reading", "answering"}

LEMMA StreamStep ==
    ASSUME StreamInv, NEW t \in Tokens, task' \in [Tokens -> TaskSet],
           task'[t].handle = task[t].handle, task'[t].aborted = task[t].aborted,
           \A u \in Tokens \ {t} : task'[u] = task[u],
           \A h \in Handles : page'[h].claimed =>
              page[h].claimed \/ (h = task[t].handle /\ task'[t].at = "listening"),
           task[t].at \in Streaming =>
              \/ task'[t].at \in Streaming \/ task[t].aborted
              \/ \A h \in Handles : h = task[t].handle => ~page'[h].claimed,
           feed'.token = feed.token, feed.token = t => task'[t].at # "refused"
    PROVE  FeedHasStream'
  <1>1. feed.token \in Tokens \cup {0}
    BY FeedAssumption, FeedFields DEF StreamInv, FeedState, Tokens
  <1>2. feed'.token # 0 => task'[feed'.token].at # "refused"
    BY <1>1 DEF StreamInv, FeedHasStream
  <1>3. ASSUME NEW h \in Handles, page'[h].claimed
        PROVE  \E u \in Tokens : task'[u].handle = h
                  /\ (task'[u].aborted \/ task'[u].at \in Streaming)
    <2>1. CASE page[h].claimed
      <3>1. PICK u \in Tokens : task[u].handle = h /\ (task[u].aborted \/ task[u].at \in Streaming)
        BY <2>1 DEF StreamInv, FeedHasStream, Streaming
      <3> QED
        BY <1>3, <3>1
    <2>2. CASE ~page[h].claimed
      BY <1>3, <2>2 DEF Streaming
    <2> QED
      BY <2>1, <2>2
  <1> QED
    BY <1>2, <1>3 DEF FeedHasStream, Streaming

\* what the page writes, shows and forwards
LEMMA PageStep ==
    ASSUME StreamInv, NEW h \in Handles, NEW q \in PageSet, page' = [page EXCEPT ![h] = q],
           Len(q.channel) <= ChannelSize, q.claimed = page[h].claimed,
           UNCHANGED <<tracked, used, feed, task>>
    PROVE  StreamInv'
  <1>1. page' \in [Handles -> PageSet] /\ page'[h] = q
        /\ \A g \in Handles \ {h} : page'[g] = page[g]
    BY DEF StreamInv, FeedState
  <1>2. FeedState'
    BY <1>1 DEF StreamInv, FeedState
  <1>3. TasksOf' /\ EntryOf' /\ RunningHasEntry' /\ Newest(feed)'
    BY DEF StreamInv, TasksOf, TaskOf, EntryOf, RunningHasEntry, Newest
  <1>4. FeedHasStream'
    BY <1>1 DEF StreamInv, FeedHasStream
  <1> QED
    BY <1>2, <1>3, <1>4 DEF StreamInv

LEMMA EmitKeeps ==
    ASSUME StreamInv, NEW h \in Handles, Emit(h)
    PROVE  StreamInv'
  <1> DEFINE e == page[h].emitted + 1
             l == Append(page[h].lines, e)
             q == [page[h] EXCEPT !.emitted = e, !.lines = l]
  <1>1. page[h] \in PageSet /\ Len(page[h].channel) <= ChannelSize
    BY DEF StreamInv, FeedState
  <1>2. e \in Nat /\ l \in Seq(Nat)
    BY <1>1, PageFields, AppendProperties
  <1>3. page' = [page EXCEPT ![h] = q]
    BY DEF Emit
  <1> HIDE DEF e, l
  <1>4. q \in PageSet /\ q.channel = page[h].channel /\ q.claimed = page[h].claimed
    BY <1>1, <1>2 DEF PageSet
  <1> HIDE DEF q
  <1> QED
    BY <1>1, <1>3, <1>4, PageStep DEF Emit

LEMMA AskKeeps ==
    ASSUME StreamInv, NEW h \in Handles, Ask(h)
    PROVE  StreamInv'
  <1> DEFINE q == [page[h] EXCEPT !.dialog = TRUE, !.asks = TRUE]
  <1>1. page[h] \in PageSet /\ Len(page[h].channel) <= ChannelSize
    BY DEF StreamInv, FeedState
  <1>2. page' = [page EXCEPT ![h] = q]
    BY DEF Ask
  <1>3. q \in PageSet /\ q.channel = page[h].channel /\ q.claimed = page[h].claimed
    BY <1>1 DEF PageSet
  <1> HIDE DEF q
  <1> QED
    BY <1>1, <1>2, <1>3, PageStep DEF Ask

\* a full channel stays as it is
LEMMA SentFits ==
    ASSUME NEW h \in Handles, NEW o \in Nat, page[h] \in PageSet,
           Len(page[h].channel) <= ChannelSize
    PROVE  Sent(h, o) \in Seq(Nat) /\ Len(Sent(h, o)) <= ChannelSize
  BY PageFields, AppendProperties, LenProperties, FeedAssumption DEF Sent

LEMMA ForwardKeeps ==
    ASSUME StreamInv, NEW h \in Handles, Forward(h)
    PROVE  StreamInv'
  <1>1. page[h] \in PageSet /\ Len(page[h].channel) <= ChannelSize
    BY DEF StreamInv, FeedState
  <1>2. CASE page[h].lines # <<>>
             /\ page' = [page EXCEPT ![h].lines = Tail(@), ![h].channel = Sent(h, Head(page[h].lines))]
    <2> DEFINE l == Tail(page[h].lines)
               s == Sent(h, Head(page[h].lines))
               q == [page[h] EXCEPT !.lines = l, !.channel = s]
    <2>1. l \in Seq(Nat) /\ Head(page[h].lines) \in Nat
      BY <1>1, <1>2, PageFields, HeadTailProperties
    <2>2. s \in Seq(Nat) /\ Len(s) <= ChannelSize
      BY <1>1, <2>1, SentFits
    <2>3. page' = [page EXCEPT ![h] = q]
      BY <1>2
    <2> HIDE DEF l, s
    <2>4. q \in PageSet /\ q.channel = s /\ q.claimed = page[h].claimed
      BY <1>1, <2>1, <2>2 DEF PageSet
    <2> HIDE DEF q
    <2> QED
      BY <2>2, <2>3, <2>4, PageStep DEF Forward
  <1>3. CASE page' = [page EXCEPT ![h].asks = FALSE, ![h].channel = Sent(h, Dialog)]
    <2> DEFINE s == Sent(h, Dialog)
               q == [page[h] EXCEPT !.asks = FALSE, !.channel = s]
    <2>1. s \in Seq(Nat) /\ Len(s) <= ChannelSize
      BY <1>1, SentFits DEF Dialog
    <2>2. page' = [page EXCEPT ![h] = q]
      BY <1>3
    <2> HIDE DEF s
    <2>3. q \in PageSet /\ q.channel = s /\ q.claimed = page[h].claimed
      BY <1>1, <2>1 DEF PageSet
    <2> HIDE DEF q
    <2> QED
      BY <2>1, <2>2, <2>3, PageStep DEF Forward
  <1> QED
    BY <1>2, <1>3 DEF Forward

\* a handle nobody had before: what ran before was aborted for another
LEMMA TrackKeeps ==
    ASSUME StreamInv, NEW h \in Handles, Track(h)
    PROVE  StreamInv'
  <1>1. /\ tracked = None /\ h \notin used /\ tracked' = h /\ used' = used \cup {h}
        /\ UNCHANGED <<feed, task, page>>
    BY DEF Track
  <1>2. feed.token \in Tokens \cup {0}
    BY FeedAssumption, FeedFields DEF StreamInv, FeedState, Tokens
  <1>3. feed.token = 0
    BY <1>1, <1>2, FeedAssumption DEF StreamInv, EntryOf, TasksOf, TaskOf, FeedState
  <1>4. FeedState'
    BY <1>1 DEF StreamInv, FeedState
  <1>5. TasksOf'
    BY <1>1 DEF StreamInv, TasksOf, TaskOf
  <1>6. EntryOf' /\ RunningHasEntry' /\ FeedHasStream' /\ Newest(feed)'
    BY <1>1, <1>3 DEF StreamInv, EntryOf, RunningHasEntry, FeedHasStream, Newest
  <1> QED
    BY <1>4, <1>5, <1>6 DEF StreamInv

LEMMA NewEntry ==
    ASSUME NEW t \in Tokens \cup {0}
    PROVE  LET f == [NoFeed EXCEPT !.token = t] IN
           f \in FeedSet /\ f.token = t /\ Newest(f)
  <1>1. <<>> \in Seq(Nat) /\ Len(<<>>) = 0
    BY EmptySeq
  <1>2. t \in 0 .. MaxSpawns
    BY FeedAssumption DEF Tokens
  <1> DEFINE f == [NoFeed EXCEPT !.token = t]
  <1>3. f = [token |-> t, entries |-> <<>>, kept |-> <<>>]
    BY DEF NoFeed
  <1>4. f \in FeedSet
    BY <1>1, <1>2, <1>3 DEF FeedSet
  <1>5. f.token = t /\ f.entries = <<>> /\ f.kept = <<>>
    BY <1>3
  <1> HIDE DEF f
  <1>6. Newest(f)
    BY <1>1, <1>5, FeedAssumption DEF Newest
  <1> QED
    BY <1>4, <1>5, <1>6 DEF f

LEMMA NoEntry == NoFeed \in FeedSet /\ NoFeed.token = 0 /\ Newest(NoFeed)
  <1>1. NoFeed = [NoFeed EXCEPT !.token = 0]
    BY DEF NoFeed
  <1>2. 0 \in Tokens \cup {0}
    OBVIOUS
  <1> QED
    BY <1>1, <1>2, NewEntry

LEMMA SpawnKeeps ==
    ASSUME StreamInv, NEW t \in Tokens, Spawn(t)
    PROVE  StreamInv'
  <1> DEFINE f == [NoFeed EXCEPT !.token = t]
             r == [at |-> "spawned", handle |-> tracked, aborted |-> FALSE]
  <1>1. /\ tracked # None /\ task[t].at = "unused" /\ feed.token = 0 /\ feed' = f
        /\ task' = [task EXCEPT ![t] = r] /\ UNCHANGED <<tracked, used, page>>
    BY DEF Spawn, Unspawned
  <1>2. tracked \in Handles /\ tracked \in used
    BY <1>1 DEF StreamInv, FeedState
  <1>3. r \in TaskSet /\ r.at = "spawned" /\ r.handle = tracked /\ r.aborted = FALSE
    BY <1>2 DEF TaskSet, TaskStages
  <1>4. f \in FeedSet /\ f.token = t /\ Newest(f)
    BY NewEntry
  <1> HIDE DEF f, r
  <1>5. task' \in [Tokens -> TaskSet] /\ task'[t] = r /\ \A u \in Tokens \ {t} : task'[u] = task[u]
    BY <1>1, <1>3 DEF StreamInv, FeedState
  <1>6. FeedState'
    BY <1>1, <1>4, <1>5 DEF StreamInv, FeedState
  <1>7. TasksOf'
    BY <1>1, <1>2, <1>3, <1>5 DEF StreamInv, TasksOf, TaskOf
  <1>8. EntryOf'
    BY <1>1, <1>3, <1>4, <1>5 DEF EntryOf
  <1>9. RunningHasEntry'
    <2> SUFFICES ASSUME NEW u \in Tokens, task'[u].at \in Feeding, ~task'[u].aborted
                 PROVE  feed'.token = u
      BY DEF RunningHasEntry, Feeding
    <2>1. ASSUME u # t
          PROVE  FALSE
      <3>1. feed.token = u
        BY <1>5, <2>1 DEF StreamInv, RunningHasEntry, Feeding
      <3> QED
        BY <1>1, <3>1, FeedAssumption DEF Tokens
    <2> QED
      BY <1>1, <1>4, <2>1
  <1>10. FeedHasStream'
    <2>1. task'[feed'.token].at # "refused"
      BY <1>1, <1>3, <1>4, <1>5
    <2>2. \A u \in Tokens : task[u].aborted \/ task[u].at \in Streaming => u # t
      BY <1>1 DEF StreamInv, TasksOf, TaskOf, Streaming
    <2> QED
      BY <1>1, <1>5, <2>1, <2>2 DEF StreamInv, FeedHasStream, Streaming
  <1>11. Newest(feed)'
    BY <1>1, <1>4 DEF Newest
  <1> QED
    BY <1>6, <1>7, <1>8, <1>9, <1>10, <1>11 DEF StreamInv

LEMMA RemoveFeedKeeps ==
    ASSUME StreamInv, RemoveFeed
    PROVE  StreamInv'
  <1>1. /\ tracked # None /\ tracked' = None /\ feed' = NoFeed /\ UNCHANGED <<used, page>>
        /\ task' = [t \in Tokens |-> IF t = feed.token THEN [task[t] EXCEPT !.aborted = TRUE]
                                                       ELSE task[t]]
    BY DEF RemoveFeed
  <1>2. task \in [Tokens -> TaskSet] /\ tracked \in used /\ used \subseteq Handles
    BY <1>1 DEF StreamInv, FeedState
  <1>3. \A t \in Tokens :
           /\ task'[t] \in TaskSet
           /\ task'[t].at = task[t].at /\ task'[t].handle = task[t].handle
           /\ task'[t].aborted = (task[t].aborted \/ t = feed.token)
    <2> SUFFICES ASSUME NEW t \in Tokens
                 PROVE  /\ task'[t] \in TaskSet
                        /\ task'[t].at = task[t].at /\ task'[t].handle = task[t].handle
                        /\ task'[t].aborted = (task[t].aborted \/ t = feed.token)
      OBVIOUS
    <2>1. CASE t = feed.token
      <3> DEFINE r == [task[t] EXCEPT !.aborted = TRUE]
      <3>1. r \in TaskSet /\ r.at = task[t].at /\ r.handle = task[t].handle /\ r.aborted = TRUE
        BY <1>2 DEF TaskSet
      <3>2. task'[t] = r
        BY <1>1, <2>1
      <3> HIDE DEF r
      <3> QED
        BY <2>1, <3>1, <3>2
    <2>2. CASE t # feed.token
      BY <1>1, <1>2, <2>2, TaskFields
    <2> QED
      BY <2>1, <2>2
  <1>4. task' \in [Tokens -> TaskSet]
    BY <1>1, <1>3
  <1>5. FeedState'
    BY <1>1, <1>4, NoEntry DEF StreamInv, FeedState
  <1>6. TasksOf'
    <2> SUFFICES ASSUME NEW t \in Tokens
                 PROVE  TaskOf(t)'
      BY DEF TasksOf
    <2>1. TaskOf(t) /\ (t = feed.token => task[t].at # "unused") /\ t # 0
      BY FeedAssumption DEF StreamInv, TasksOf, EntryOf, Tokens
    <2>2. task'[t].aborted => task'[t].at # "unused"
      BY <1>3, <2>1 DEF TaskOf
    <2>3. None \notin used
      BY <1>2, FeedAssumption
    <2> QED
      BY <1>1, <1>3, <2>1, <2>2, <2>3 DEF TaskOf
  <1>7. EntryOf' /\ Newest(feed)'
    BY <1>1, NoEntry DEF EntryOf, Newest
  <1>8. RunningHasEntry'
    BY <1>3 DEF StreamInv, RunningHasEntry
  <1>9. FeedHasStream'
    BY <1>1, <1>3, NoEntry DEF StreamInv, FeedHasStream
  <1> QED
    BY <1>5, <1>6, <1>7, <1>8, <1>9 DEF StreamInv

\* a spawned task has a handle of the page
LEMMA HandleOf ==
    ASSUME StreamInv, NEW t \in Tokens, task[t].at # "unused"
    PROVE  /\ task[t].handle \in Handles /\ page[task[t].handle] \in PageSet
           /\ Len(page[task[t].handle].channel) <= ChannelSize
           /\ task \in [Tokens -> TaskSet] /\ page \in [Handles -> PageSet]
  BY DEF StreamInv, FeedState, TasksOf, TaskOf

\* one field of a handle, or the three a task that ends leaves empty
LEMMA ClaimIs ==
    ASSUME NEW h \in Handles, NEW b \in BOOLEAN, page \in [Handles -> PageSet],
           page' = [page EXCEPT ![h].claimed = b]
    PROVE  /\ page' \in [Handles -> PageSet] /\ page'[h].claimed = b
           /\ page'[h].channel = page[h].channel
           /\ \A g \in Handles \ {h} : page'[g] = page[g]
  <1> DEFINE q == [page[h] EXCEPT !.claimed = b]
  <1>1. q \in PageSet /\ q.claimed = b /\ q.channel = page[h].channel
    BY DEF PageSet
  <1>2. page' = [page EXCEPT ![h] = q]
    OBVIOUS
  <1> HIDE DEF q
  <1> QED
    BY <1>1, <1>2

LEMMA ChannelIs ==
    ASSUME NEW h \in Handles, NEW s \in Seq(Nat), page \in [Handles -> PageSet],
           page' = [page EXCEPT ![h].channel = s]
    PROVE  /\ page' \in [Handles -> PageSet] /\ page'[h].channel = s
           /\ page'[h].claimed = page[h].claimed
           /\ \A g \in Handles \ {h} : page'[g] = page[g]
  <1> DEFINE q == [page[h] EXCEPT !.channel = s]
  <1>1. q \in PageSet /\ q.channel = s /\ q.claimed = page[h].claimed
    BY DEF PageSet
  <1>2. page' = [page EXCEPT ![h] = q]
    OBVIOUS
  <1> HIDE DEF q
  <1> QED
    BY <1>1, <1>2

LEMMA DialogIs ==
    ASSUME NEW h \in Handles, NEW b \in BOOLEAN, page \in [Handles -> PageSet],
           page' = [page EXCEPT ![h].dialog = b]
    PROVE  /\ page' \in [Handles -> PageSet] /\ page'[h].channel = page[h].channel
           /\ page'[h].claimed = page[h].claimed
           /\ \A g \in Handles \ {h} : page'[g] = page[g]
  <1> DEFINE q == [page[h] EXCEPT !.dialog = b]
  <1>1. q \in PageSet /\ q.channel = page[h].channel /\ q.claimed = page[h].claimed
    BY DEF PageSet
  <1>2. page' = [page EXCEPT ![h] = q]
    OBVIOUS
  <1> HIDE DEF q
  <1> QED
    BY <1>1, <1>2

LEMMA DropIs ==
    ASSUME NEW h \in Handles, page \in [Handles -> PageSet],
           page' = [page EXCEPT ![h].lines = <<>>, ![h].asks = FALSE, ![h].channel = <<>>]
    PROVE  /\ page' \in [Handles -> PageSet] /\ page'[h].channel = <<>>
           /\ page'[h].claimed = page[h].claimed
           /\ \A g \in Handles \ {h} : page'[g] = page[g]
  <1> DEFINE q == [page[h] EXCEPT !.lines = <<>>, !.asks = FALSE, !.channel = <<>>]
  <1>1. <<>> \in Seq(Nat)
    BY EmptySeq
  <1>2. q \in PageSet /\ q.channel = <<>> /\ q.claimed = page[h].claimed
    BY <1>1 DEF PageSet
  <1>3. page' = [page EXCEPT ![h] = q]
    OBVIOUS
  <1> HIDE DEF q
  <1> QED
    BY <1>2, <1>3

\* the task of the entry has the stream of its page, or may yet claim it
LEMMA Unclaimed ==
    ASSUME StreamInv, NEW t \in Tokens, task[t].at = "spawned", feed.token = t
    PROVE  ~page[task[t].handle].claimed
  <1> SUFFICES ASSUME page[task[t].handle].claimed
               PROVE  FALSE
    OBVIOUS
  <1>1. task[t].handle \in Handles /\ t # 0
    BY HandleOf, FeedAssumption DEF Tokens
  <1>2. task[t].handle = tracked
    BY <1>1 DEF StreamInv, EntryOf
  <1>3. PICK u \in Tokens : task[u].handle = task[t].handle
                            /\ (task[u].aborted \/ task[u].at \in Streaming)
    BY <1>1 DEF StreamInv, FeedHasStream, Streaming
  <1>4. ~task[u].aborted
    BY <1>2, <1>3 DEF StreamInv, TasksOf, TaskOf
  <1>5. u = t
    BY <1>3, <1>4 DEF StreamInv, RunningHasEntry, Streaming
  <1> QED
    BY <1>3, <1>4, <1>5 DEF Streaming

\* a task's step that leaves the entry alone
LEMMA TaskMoves ==
    ASSUME StreamInv, NEW t \in Tokens, NEW at \in TaskStages \ {"unused"}, Becomes(t, at),
           task[t].at # "unused", at \in Feeding => task[t].at \in Feeding,
           page' \in [Handles -> PageSet],
           \A h \in Handles : Len(page'[h].channel) <= ChannelSize,
           \A h \in Handles : page'[h].claimed =>
              page[h].claimed \/ (h = task[t].handle /\ at = "listening"),
           task[t].at \in Streaming =>
              \/ at \in Streaming \/ task[t].aborted
              \/ \A h \in Handles : h = task[t].handle => ~page'[h].claimed,
           feed.token = t => at # "refused",
           UNCHANGED <<tracked, used, feed>>
    PROVE  StreamInv'
  <1>1. /\ task' \in [Tokens -> TaskSet] /\ task'[t].at = at
        /\ task'[t].handle = task[t].handle /\ task'[t].aborted = task[t].aborted
        /\ \A u \in Tokens \ {t} : task'[u] = task[u]
    BY HandleOf, BecomesIs
  <1>2. FeedState'
    BY <1>1 DEF StreamInv, FeedState
  <1>3. TasksOf' /\ EntryOf' /\ RunningHasEntry'
    BY <1>1, TasksStep
  <1>4. FeedHasStream'
    BY <1>1, StreamStep
  <1>5. Newest(feed)'
    BY DEF StreamInv, Newest
  <1> QED
    BY <1>2, <1>3, <1>4, <1>5 DEF StreamInv

LEMMA ObserveKeeps ==
    ASSUME StreamInv, NEW t \in Tokens, Observe(t)
    PROVE  StreamInv'
  <1>1. task[t].at = "spawned" /\ UNCHANGED <<tracked, used, feed>>
    BY DEF Observe
  <1>2. /\ task[t].handle \in Handles /\ page \in [Handles -> PageSet]
        /\ \A h \in Handles : Len(page[h].channel) <= ChannelSize
    BY <1>1, HandleOf DEF StreamInv, FeedState
  <1>3. CASE Becomes(t, "over") /\ UNCHANGED page
    BY <1>1, <1>2, <1>3, TaskMoves DEF TaskStages, Feeding, Streaming
  <1>4. CASE page[task[t].handle].claimed /\ Becomes(t, "refused") /\ UNCHANGED page
    <2>1. feed.token # t
      BY <1>1, <1>4, Unclaimed
    <2> QED
      BY <1>1, <1>2, <1>4, <2>1, TaskMoves DEF TaskStages, Feeding, Streaming
  <1>5. CASE Becomes(t, "listening") /\ page' = [page EXCEPT ![task[t].handle].claimed = TRUE]
    <2>1. /\ page' \in [Handles -> PageSet]
          /\ page'[task[t].handle].channel = page[task[t].handle].channel
          /\ \A g \in Handles \ {task[t].handle} : page'[g] = page[g]
      BY <1>2, <1>5, ClaimIs
    <2>2. \A h \in Handles : Len(page'[h].channel) <= ChannelSize
      BY <1>2, <2>1
    <2>3. \A h \in Handles : page'[h].claimed => page[h].claimed \/ h = task[t].handle
      BY <2>1
    <2> QED
      BY <1>1, <1>5, <2>1, <2>2, <2>3, TaskMoves DEF TaskStages, Feeding, Streaming
  <1> QED
    BY <1>3, <1>4, <1>5 DEF Observe, Of

LEMMA ListenKeeps ==
    ASSUME StreamInv, NEW t \in Tokens, Listen(t)
    PROVE  StreamInv'
  <1>1. task[t].at = "listening" /\ Becomes(t, "reading") /\ UNCHANGED <<tracked, used, feed, page>>
    BY DEF Listen
  <1>2. /\ page \in [Handles -> PageSet]
        /\ \A h \in Handles : Len(page[h].channel) <= ChannelSize
    BY DEF StreamInv, FeedState
  <1> QED
    BY <1>1, <1>2, TaskMoves DEF TaskStages, Feeding, Streaming

LEMMA ListenFailsKeeps ==
    ASSUME StreamInv, NEW t \in Tokens, ListenFails(t)
    PROVE  StreamInv'
  <1>1. /\ task[t].at = "listening" /\ Becomes(t, "ended") /\ UNCHANGED <<tracked, used, feed>>
        /\ page' = [page EXCEPT ![task[t].handle].claimed = FALSE]
    BY DEF ListenFails
  <1>2. /\ task[t].handle \in Handles /\ page \in [Handles -> PageSet]
        /\ \A h \in Handles : Len(page[h].channel) <= ChannelSize
    BY <1>1, HandleOf DEF StreamInv, FeedState
  <1>3. /\ page' \in [Handles -> PageSet] /\ page'[task[t].handle].claimed = FALSE
        /\ page'[task[t].handle].channel = page[task[t].handle].channel
        /\ \A g \in Handles \ {task[t].handle} : page'[g] = page[g]
    BY <1>1, <1>2, ClaimIs
  <1>4. \A h \in Handles : Len(page'[h].channel) <= ChannelSize
    BY <1>2, <1>3
  <1>5. \A h \in Handles : page'[h].claimed => page[h].claimed
    BY <1>3
  <1>6. \A h \in Handles : h = task[t].handle => ~page'[h].claimed
    BY <1>3
  <1> QED
    BY <1>1, <1>3, <1>4, <1>5, <1>6, TaskMoves DEF TaskStages, Feeding

LEMMA AnswerKeeps ==
    ASSUME StreamInv, NEW t \in Tokens, Answer(t)
    PROVE  StreamInv'
  <1>1. /\ task[t].at = "answering" /\ Becomes(t, "reading") /\ UNCHANGED <<tracked, used, feed>>
        /\ page' = [page EXCEPT ![task[t].handle].dialog = FALSE]
    BY DEF Answer
  <1>2. /\ task[t].handle \in Handles /\ page \in [Handles -> PageSet]
        /\ \A h \in Handles : Len(page[h].channel) <= ChannelSize
    BY <1>1, HandleOf DEF StreamInv, FeedState
  <1>3. /\ page' \in [Handles -> PageSet]
        /\ \A h \in Handles : page'[h].channel = page[h].channel
                              /\ page'[h].claimed = page[h].claimed
    BY <1>1, <1>2, DialogIs
  <1>4. \A h \in Handles : Len(page'[h].channel) <= ChannelSize
    BY <1>2, <1>3
  <1> QED
    BY <1>1, <1>3, <1>4, TaskMoves DEF TaskStages, Feeding, Streaming

LEMMA DieKeeps ==
    ASSUME StreamInv, NEW t \in Tokens, Die(t)
    PROVE  StreamInv'
  <1>1. /\ task[t].aborted /\ task[t].at \in Feeding /\ Becomes(t, "ended")
        /\ UNCHANGED <<tracked, used, feed>>
    BY DEF Die, Feeding
  <1>2. /\ task[t].handle \in Handles /\ page \in [Handles -> PageSet]
        /\ \A h \in Handles : Len(page[h].channel) <= ChannelSize
    BY <1>1, HandleOf DEF StreamInv, FeedState, Feeding
  <1>3. /\ page' \in [Handles -> PageSet]
        /\ \A h \in Handles : page'[h].channel \in {page[h].channel, <<>>}
                              /\ page'[h].claimed = page[h].claimed
    <2>1. CASE page' = page
      BY <1>2, <2>1
    <2>2. CASE page' = [page EXCEPT ![task[t].handle].lines = <<>>, ![task[t].handle].asks = FALSE,
                                    ![task[t].handle].channel = <<>>]
      BY <1>2, <2>2, DropIs
    <2> QED
      BY <2>1, <2>2 DEF Die
  <1>4. \A h \in Handles : Len(page'[h].channel) <= ChannelSize
    BY <1>2, <1>3, EmptySeq, FeedAssumption
  <1> QED
    BY <1>1, <1>3, <1>4, TaskMoves DEF TaskStages, Feeding

LEMMA ReapKeeps ==
    ASSUME StreamInv, NEW t \in Tokens, Reap(t)
    PROVE  StreamInv'
  <1>1. /\ task[t].at = "over" /\ Becomes(t, "ended") /\ UNCHANGED <<tracked, used, page>>
        /\ feed' = IF feed.token = t THEN NoFeed ELSE feed
    BY DEF Reap
  <1>2. /\ page \in [Handles -> PageSet]
        /\ \A h \in Handles : Len(page[h].channel) <= ChannelSize
    BY DEF StreamInv, FeedState
  <1>3. CASE feed.token # t
    BY <1>1, <1>2, <1>3, TaskMoves DEF TaskStages, Feeding, Streaming
  <1>4. CASE feed.token = t
    <2>1. /\ task' \in [Tokens -> TaskSet] /\ task'[t].at = "ended"
          /\ task'[t].handle = task[t].handle /\ task'[t].aborted = task[t].aborted
          /\ \A u \in Tokens \ {t} : task'[u] = task[u]
      BY <1>1, HandleOf, BecomesIs DEF TaskStages
    <2>2. feed' = NoFeed
      BY <1>1, <1>4
    <2>3. FeedState'
      BY <1>1, <2>1, <2>2, NoEntry DEF StreamInv, FeedState
    <2>4. TasksOf'
      <3> SUFFICES ASSUME NEW u \in Tokens
                   PROVE  TaskOf(u)'
        BY DEF TasksOf
      <3> QED
        BY <1>1, <2>1 DEF StreamInv, TasksOf, TaskOf
    <2>5. EntryOf' /\ Newest(feed)'
      BY <2>2, NoEntry DEF EntryOf, Newest
    <2>6. RunningHasEntry'
      <3> SUFFICES ASSUME NEW u \in Tokens, task'[u].at \in Feeding, ~task'[u].aborted
                   PROVE  FALSE
        BY DEF RunningHasEntry, Feeding
      <3>1. u # t /\ task'[u] = task[u]
        BY <2>1 DEF Feeding
      <3> QED
        BY <1>4, <3>1 DEF StreamInv, RunningHasEntry, Feeding
    <2>7. FeedHasStream'
      <3>1. feed'.token = 0
        BY <2>2, NoEntry
      <3>2. ASSUME NEW h \in Handles, page'[h].claimed
            PROVE  \E u \in Tokens : task'[u].handle = h
                      /\ (task'[u].aborted \/ task'[u].at \in Streaming)
        <4>1. PICK u \in Tokens : task[u].handle = h
                                  /\ (task[u].aborted \/ task[u].at \in Streaming)
          BY <1>1, <3>2 DEF StreamInv, FeedHasStream, Streaming
        <4> QED
          BY <1>1, <2>1, <4>1 DEF Streaming
      <3> QED
        BY <3>1, <3>2 DEF FeedHasStream, Streaming
    <2> QED
      BY <2>3, <2>4, <2>5, <2>6, <2>7 DEF StreamInv
  <1> QED
    BY <1>3, <1>4

LEMMA BufferCounts ==
    ASSUME NEW a \in Nat, NEW b \in Nat, NEW max \in Nat, max >= 1,
           a = IF b > max THEN max ELSE b, NEW d, d = IF a >= max THEN 1 ELSE 0
    PROVE  /\ d \in {0, 1} /\ a - d \in Nat /\ a <= b
           /\ a - d + 1 = IF b + 1 > max THEN max ELSE b + 1
           /\ (b + 1) - (a - d + 1) = b - a + d /\ a - d + 1 <= b + 1
  OBVIOUS

LEMMA Shifted ==
    ASSUME NEW a \in Nat, NEW b \in Nat, NEW d \in {0, 1}, a <= b,
           NEW i \in 1 .. (a - d), NEW x \in Int, x = b - a + d
    PROVE  b - a + (i + d) = x + i /\ x + i \in 1 .. b
  OBVIOUS

(* push_bounded drops the oldest entry of a full buffer, so the buffer      *)
(* stays the end of what was recorded.                                     *)
LEMMA PushKeepsNewest ==
    ASSUME NEW f \in FeedSet, NEW n \in Nat, Newest(f)
    PROVE  LET g == [f EXCEPT !.entries = Pushed(@, n), !.kept = Append(@, n)] IN
           g \in FeedSet /\ g.token = f.token /\ Newest(g)
  <1> DEFINE rest == IF Len(f.entries) >= FeedCapacity THEN Tail(f.entries) ELSE f.entries
             e == Append(rest, n)
             k == Append(f.kept, n)
             g == [f EXCEPT !.entries = e, !.kept = k]
             drop == IF Len(f.entries) >= FeedCapacity THEN 1 ELSE 0
  <1>1. f.entries \in Seq(Nat) /\ f.kept \in Seq(Nat)
    BY FeedFields
  <1>2. Len(f.entries) \in Nat /\ Len(f.kept) \in Nat
    BY <1>1, LenProperties
  <1>3. FeedCapacity \in Nat /\ FeedCapacity >= 1
    BY FeedAssumption
  <1>4. /\ rest \in Seq(Nat) /\ Len(rest) = Len(f.entries) - drop /\ Len(rest) \in Nat
        /\ \A i \in 1 .. Len(rest) : rest[i] = f.entries[i + drop]
    <2>1. CASE Len(f.entries) >= FeedCapacity
      <3>1. f.entries # <<>>
        BY <1>1, <1>3, <2>1, EmptySeq
      <3>2. /\ Tail(f.entries) \in Seq(Nat) /\ Len(Tail(f.entries)) = Len(f.entries) - 1
            /\ \A i \in 1 .. Len(Tail(f.entries)) : Tail(f.entries)[i] = f.entries[i + 1]
        BY <1>1, <3>1, HeadTailProperties
      <3> QED
        BY <1>2, <1>3, <2>1, <3>2
    <2>2. CASE ~(Len(f.entries) >= FeedCapacity)
      BY <1>1, <1>2, <2>2
    <2> QED
      BY <2>1, <2>2
  <1> HIDE DEF rest
  <1>5. /\ e \in Seq(Nat) /\ Len(e) = Len(rest) + 1 /\ e[Len(rest) + 1] = n
        /\ \A i \in 1 .. Len(rest) : e[i] = rest[i]
    <2>1. rest \in Seq(Nat)
      BY <1>4
    <2> QED
      BY <2>1, AppendProperties
  <1>6. /\ k \in Seq(Nat) /\ Len(k) = Len(f.kept) + 1 /\ k[Len(f.kept) + 1] = n
        /\ \A i \in 1 .. Len(f.kept) : k[i] = f.kept[i]
    BY <1>1, AppendProperties
  <1>7. g = [f EXCEPT !.entries = Pushed(@, n), !.kept = Append(@, n)]
    BY DEF Pushed, rest
  <1> HIDE DEF e, k
  <1>8. g \in FeedSet /\ g.token = f.token /\ g.entries = e /\ g.kept = k
    BY <1>5, <1>6 DEF FeedSet
  <1> HIDE DEF g
  <1>9. /\ Len(f.entries) = IF Len(f.kept) > FeedCapacity THEN FeedCapacity ELSE Len(f.kept)
        /\ Len(rest) = Len(f.entries) - drop /\ Len(rest) \in Nat
        /\ Len(e) = Len(rest) + 1 /\ Len(k) = Len(f.kept) + 1
    BY <1>4, <1>5, <1>6 DEF Newest
  <1>10. /\ Len(e) = IF Len(k) > FeedCapacity THEN FeedCapacity ELSE Len(k)
         /\ Len(k) - Len(e) = Len(f.kept) - Len(f.entries) + drop
         /\ Len(e) <= Len(k) /\ drop \in {0, 1} /\ Len(f.entries) <= Len(f.kept)
    <2> DEFINE a == Len(f.entries)
               b == Len(f.kept)
    <2>1. a \in Nat /\ b \in Nat /\ a = IF b > FeedCapacity THEN FeedCapacity ELSE b
      BY <1>2, <1>9
    <2>2. drop = IF a >= FeedCapacity THEN 1 ELSE 0
      OBVIOUS
    <2>3. Len(e) = a - drop + 1 /\ Len(k) = b + 1
      BY <1>9
    <2> HIDE DEF a, b, drop
    <2>4. /\ drop \in {0, 1} /\ a <= b
          /\ a - drop + 1 = IF b + 1 > FeedCapacity THEN FeedCapacity ELSE b + 1
          /\ (b + 1) - (a - drop + 1) = b - a + drop /\ a - drop + 1 <= b + 1
      BY <1>3, <2>1, <2>2, BufferCounts
    <2> QED
      BY <2>3, <2>4 DEF a, b
  <1>11. ASSUME NEW i \in 1 .. Len(e)
         PROVE  e[i] = k[Len(k) - Len(e) + i]
    <2>1. CASE i = Len(rest) + 1
      <3>1. Len(k) - Len(e) + i = Len(f.kept) + 1
        BY <1>2, <1>9, <2>1
      <3> QED
        BY <1>5, <1>6, <2>1, <3>1
    <2>2. CASE i # Len(rest) + 1
      <3>1. i \in 1 .. Len(rest) /\ i + drop \in 1 .. Len(f.entries)
        BY <1>2, <1>9, <2>2
      <3>2. /\ Len(f.kept) - Len(f.entries) + (i + drop) = Len(k) - Len(e) + i
            /\ Len(k) - Len(e) + i \in 1 .. Len(f.kept)
        <4> HIDE DEF drop
        <4> DEFINE a == Len(f.entries)
                   b == Len(f.kept)
                   x == Len(k) - Len(e)
        <4>1. /\ a \in Nat /\ b \in Nat /\ a <= b /\ drop \in {0, 1}
              /\ i \in 1 .. (a - drop)
          BY <1>2, <1>9, <1>10, <3>1
        <4>2. x \in Int
          BY <1>2, <1>9
        <4>3. x = b - a + drop
          BY <1>10
        <4> HIDE DEF a, b, x
        <4>4. b - a + (i + drop) = x + i /\ x + i \in 1 .. b
          BY <4>1, <4>2, <4>3, Shifted
        <4> QED
          BY <4>4 DEF a, b, x
      <3>3. e[i] = f.entries[i + drop]
        BY <1>4, <1>5, <3>1
      <3>4. f.entries[i + drop] = f.kept[Len(f.kept) - Len(f.entries) + (i + drop)]
        BY <3>1 DEF Newest
      <3>5. k[Len(k) - Len(e) + i] = f.kept[Len(k) - Len(e) + i]
        BY <1>6, <3>2
      <3> QED
        BY <3>2, <3>3, <3>4, <3>5
    <2> QED
      BY <2>1, <2>2
  <1>12. Newest(g)
    BY <1>8, <1>10, <1>11 DEF Newest
  <1> QED
    BY <1>7, <1>8, <1>12

LEMMA ReadKeeps ==
    ASSUME StreamInv, NEW t \in Tokens, Read(t)
    PROVE  StreamInv'
  <1> DEFINE h == task[t].handle
             n == Head(page[h].channel)
             s == Tail(page[h].channel)
  <1>1. /\ task[t].at = "reading" /\ page[h].channel # <<>> /\ UNCHANGED <<tracked, used>>
        /\ page' = [page EXCEPT ![h].channel = s]
    BY DEF Read, Of
  <1>2. /\ h \in Handles /\ page \in [Handles -> PageSet] /\ page[h] \in PageSet
        /\ \A g \in Handles : Len(page[g].channel) <= ChannelSize
        /\ page[h].channel \in Seq(Nat)
    BY <1>1, HandleOf, PageFields DEF StreamInv, FeedState
  <1>3. n \in Nat /\ s \in Seq(Nat) /\ Len(s) = Len(page[h].channel) - 1
    BY <1>1, <1>2, HeadTailProperties
  <1>4. \/ Becomes(t, "answering") /\ UNCHANGED feed
        \/ /\ feed' = IF feed.token = 0 THEN feed
                      ELSE [feed EXCEPT !.entries = Pushed(@, n), !.kept = Append(@, n)]
           /\ UNCHANGED task
    BY DEF Read, Of
  <1> HIDE DEF n, s
  <1>5. /\ page' \in [Handles -> PageSet] /\ page'[h].channel = s
        /\ page'[h].claimed = page[h].claimed
        /\ \A g \in Handles \ {h} : page'[g] = page[g]
    BY <1>1, <1>2, <1>3, ChannelIs
  <1>6. \A g \in Handles : Len(page'[g].channel) <= ChannelSize
    BY <1>2, <1>3, <1>5, FeedAssumption, LenProperties
  <1>7. \A g \in Handles : page'[g].claimed = page[g].claimed
    BY <1>5
  <1> HIDE DEF h
  <1>8. CASE Becomes(t, "answering") /\ UNCHANGED feed
    BY <1>1, <1>5, <1>6, <1>7, <1>8, TaskMoves DEF TaskStages, Feeding, Streaming
  <1>9. CASE /\ feed' = IF feed.token = 0 THEN feed
                        ELSE [feed EXCEPT !.entries = Pushed(@, n), !.kept = Append(@, n)]
             /\ UNCHANGED task
    <2>1. feed' \in FeedSet /\ feed'.token = feed.token /\ Newest(feed')
      <3>1. feed \in FeedSet /\ Newest(feed)
        BY DEF StreamInv, FeedState
      <3>2. CASE feed.token = 0
        BY <1>9, <3>1, <3>2
      <3>3. CASE feed.token # 0
        BY <1>3, <1>9, <3>1, <3>3, PushKeepsNewest
      <3> QED
        BY <3>2, <3>3
    <2>2. FeedState'
      BY <1>1, <1>5, <1>6, <1>9, <2>1 DEF StreamInv, FeedState
    <2>3. TasksOf' /\ EntryOf' /\ RunningHasEntry'
      BY <1>1, <1>9, <2>1 DEF StreamInv, TasksOf, TaskOf, EntryOf, RunningHasEntry
    <2>4. FeedHasStream'
      BY <1>7, <1>9, <2>1 DEF StreamInv, FeedHasStream
    <2>5. Newest(feed)'
      BY <2>1 DEF Newest
    <2> QED
      BY <2>2, <2>3, <2>4, <2>5 DEF StreamInv
  <1> QED
    BY <1>4, <1>8, <1>9

(* Which task has the entry of the id, and what an aborted one may still   *)
(* hold of its page (observations.rs; claim_observation in page.rs).       *)
THEOREM FeedInductive == FeedSpec => []StreamInv
  <1>1. FeedInit => StreamInv
    <2> SUFFICES ASSUME FeedInit
                 PROVE  StreamInv
      OBVIOUS
    <2> DEFINE q == [claimed |-> FALSE, emitted |-> 0, lines |-> <<>>,
                     asks |-> FALSE, dialog |-> FALSE, channel |-> <<>>]
    <2>1. <<>> \in Seq(Nat) /\ Len(<<>>) = 0
      BY EmptySeq
    <2>2. q \in PageSet /\ q.claimed = FALSE /\ q.channel = <<>>
      BY <2>1 DEF PageSet
    <2>3. page = [h \in Handles |-> q]
      BY DEF FeedInit
    <2> HIDE DEF q
    <2>4. /\ page \in [Handles -> PageSet]
          /\ \A h \in Handles : ~page[h].claimed /\ page[h].channel = <<>>
      BY <2>2, <2>3
    <2>5. NoTask \in TaskSet /\ NoTask.at = "unused" /\ NoTask.aborted = FALSE
      BY DEF NoTask, TaskSet, TaskStages
    <2>6. task = [t \in Tokens |-> NoTask] /\ tracked = None /\ used = {} /\ feed = NoFeed
      BY DEF FeedInit
    <2> HIDE DEF NoTask
    <2>7. task \in [Tokens -> TaskSet] /\ \A t \in Tokens : task[t] = NoTask
      BY <2>5, <2>6
    <2>8. FeedState
      BY <2>1, <2>4, <2>6, <2>7, NoEntry, FeedAssumption DEF FeedState
    <2>9. TasksOf /\ RunningHasEntry
      BY <2>5, <2>7 DEF TasksOf, TaskOf, RunningHasEntry
    <2>10. EntryOf /\ FeedHasStream /\ Newest(feed)
      BY <2>4, <2>6, NoEntry DEF EntryOf, FeedHasStream
    <2> QED
      BY <2>8, <2>9, <2>10 DEF StreamInv
  <1>2. StreamInv /\ [FeedNext]_feedVars => StreamInv'
    <2> SUFFICES ASSUME StreamInv, [FeedNext]_feedVars
                 PROVE  StreamInv'
      OBVIOUS
    <2>1. CASE RemoveFeed
      BY <2>1, RemoveFeedKeeps
    <2>2. ASSUME NEW h \in Handles, Track(h) \/ Emit(h) \/ Ask(h) \/ Forward(h)
          PROVE  StreamInv'
      BY <2>2, TrackKeeps, EmitKeeps, AskKeeps, ForwardKeeps
    <2>3. ASSUME NEW t \in Tokens,
                 Spawn(t) \/ Observe(t) \/ Listen(t) \/ ListenFails(t) \/ Read(t) \/ Answer(t)
                 \/ Reap(t) \/ Die(t)
          PROVE  StreamInv'
      BY <2>3, SpawnKeeps, ObserveKeeps, ListenKeeps, ListenFailsKeeps, ReadKeeps, AnswerKeeps,
         ReapKeeps, DieKeeps
    <2>4. CASE UNCHANGED feedVars
      BY <2>4 DEF feedVars, StreamInv, FeedState, TasksOf, TaskOf, EntryOf, RunningHasEntry,
         FeedHasStream, Newest
    <2> QED
      BY <2>1, <2>2, <2>3, <2>4 DEF FeedNext
  <1> QED
    BY <1>1, <1>2, PTL DEF FeedSpec

(* A running feed task has the entry of its page or will be reaped, a page  *)
(* that observes keeps its stream, and its buffer holds the newest lines    *)
(* (observations.rs, spawn, run_feed, reap and push_bounded).              *)
THEOREM FeedsKept == FeedSpec => []FeedsSound
  <1>1. StreamInv => FeedsSound
    <2> SUFFICES ASSUME StreamInv
                 PROVE  FeedsSound
      OBVIOUS
    <2>1. feed \in FeedSet /\ Newest(feed)
      BY DEF StreamInv, FeedState
    <2>2. /\ feed.token \in 0 .. MaxSpawns /\ feed.entries \in Seq(Nat) /\ feed.kept \in Seq(Nat)
          /\ Len(feed.entries) \in Nat /\ Len(feed.kept) \in Nat
      BY <2>1, FeedFields, LenProperties
    <2>3. FeedTypes
      <3>1. Len(feed.entries) <= FeedCapacity
        BY <2>1, <2>2, FeedAssumption DEF Newest
      <3> QED
        BY <2>2, <3>1 DEF StreamInv, FeedState, FeedTypes, TaskSet, TaskStages
    <2>4. BufferNewest
      <3> DEFINE n == Len(feed.kept)
                 m == IF n > FeedCapacity THEN n - FeedCapacity + 1 ELSE 1
      <3>1. /\ m \in 1 .. n + 1 /\ n - m + 1 = Len(feed.entries)
        BY <2>1, <2>2, FeedAssumption DEF Newest
      <3> DEFINE a == Len(feed.entries)
      <3>2. m \in Int /\ n \in Int /\ a \in Int /\ n - m + 1 = a
        BY <2>2, <3>1
      <3> HIDE DEF m
      <3>3. /\ SubSeq(feed.kept, m, n) \in Seq(Nat)
            /\ Len(SubSeq(feed.kept, m, n)) = n - m + 1
            /\ \A i \in 1 .. n - m + 1 : SubSeq(feed.kept, m, n)[i] = feed.kept[m + i - 1]
        BY <2>2, <3>1, SubSeqProperties
      <3>4. \A i \in 1 .. Len(feed.entries) :
               feed.entries[i] = SubSeq(feed.kept, m, n)[i]
        <4> SUFFICES ASSUME NEW i \in 1 .. Len(feed.entries)
                     PROVE  feed.entries[i] = SubSeq(feed.kept, m, n)[i]
          OBVIOUS
        <4>1. feed.entries[i] = feed.kept[n - Len(feed.entries) + i]
          BY <2>1 DEF Newest
        <4>2. SubSeq(feed.kept, m, n)[i] = feed.kept[m + i - 1]
          BY <3>1, <3>3
        <4>3. n - Len(feed.entries) + i = m + i - 1
          <5>1. i \in Int
            BY <3>2
          <5> HIDE DEF n, a
          <5>2. \A j \in Int : n - a + j = m + j - 1
            BY <3>2
          <5> QED
            BY <5>1, <5>2 DEF n, a
        <4> QED
          BY <4>1, <4>2, <4>3
      <3>5. feed.entries = SubSeq(feed.kept, m, n)
        BY <2>2, <3>1, <3>3, <3>4, SeqEqual
      <3> QED
        BY <3>5 DEF BufferNewest, m
    <2> QED
      BY <2>3, <2>4 DEF StreamInv, FeedsSound
  <1> QED
    BY <1>1, FeedInductive, PTL
-------------------------------------------------------------------------------
(* The actions of a session's executor, for any budgets, restarts and       *)
(* slowness, places and documents.                                         *)

BoxSet   == [place : Places \cup {Hidden}, off : BOOLEAN]
ShownSet == [doc : 1 .. MaxDocs, live : BOOLEAN, place : Places \cup {Hidden}, off : BOOLEAN]
ExStages == Answers \cup {"idle", "wait", "poll", "act", "release", "insert", "hand", "settle",
                          "snapshot"}
ExSet ==
    [at : ExStages, action : Referenced \cup Plain, seen : Places \cup {Never},
     pending : {"visible", "stable", "enabled"}, left : Nat, restarts : 0 .. MaxPhaseRestarts,
     waited : Nat, doc : Nat, trail : BoxSet \X BoxSet]
EffectSet ==
    {"scroll", "focus", "press", "release", "point", "text", "select", "files", "load"}
    \X (1 .. MaxDocs)

ActionState == shown \in ShownSet /\ ex \in ExSet /\ effects \subseteq EffectSet

\* what the wait may still take is within the budgets renewed so far
Span == PhaseTimeout + Slowest
Timed ==
    /\ ex.at = "wait" =>
          ex.action \in Referenced /\ ex.waited + ex.left <= ex.restarts * Span + PhaseTimeout
    /\ ex.at = "poll" =>
          ex.action = "wait_for" /\ ex.waited + ex.left <= Budget("wait_for")

\* what the next sample is compared with is the last one that was visible
Compared ==
    ex.at = "wait" =>
        ex.seen = IF ex.trail[2].place = Hidden THEN Never ELSE ex.trail[2].place

\* up to the act, and in an action refused, the page is scrolled at most
Untouching == {"idle", "wait", "poll", "act", "hand"} \cup Refusals
LeftAlone  ==
    /\ ex.at = "idle" => effects = {}
    /\ ex.at \in Untouching => effects \subseteq Scrolled

Settled(trail) ==
    trail[1].place = trail[2].place /\ trail[2].place # Hidden /\ ~trail[2].off

\* past the wait, the last two samples found the element settled
Acting == {"act", "release", "insert", "hand"}
SeenSettled == ex.at \in Acting /\ ex.action \in Referenced => Settled(ex.trail)

\* what a script does it does to the element, which is of the reference's document
OnElement   == {"scroll", "focus", "select", "files"}
OwnDocument == \A effect \in effects : effect[1] \in OnElement => effect[2] = ex.doc

ActionInv ==
    /\ ActionState /\ Timed /\ WaitBounded /\ Compared /\ LeftAlone /\ SeenSettled
    /\ ActedOnSettled /\ OwnDocument

LEMMA Numbers ==
    /\ PhaseTimeout \in Nat /\ MaxPhaseRestarts \in Nat /\ PollBudget \in Nat
    /\ MaxPollBudget \in Nat /\ Slowest \in Nat /\ MaxDocs \in Nat \ {0} /\ Span \in Nat
  BY ExecutorAssumption DEF Span

LEMMA BudgetIs ==
    /\ Budget("wait_for") \in Nat
    /\ \A action \in (Referenced \cup Plain) \ {"wait_for"} : Budget(action) = PhaseTimeout
  <1>1. \/ Min({PollBudget, MaxPollBudget}) = PollBudget
        \/ Min({PollBudget, MaxPollBudget}) = MaxPollBudget
    <2> DEFINE least(x) == x \in {PollBudget, MaxPollBudget}
                           /\ \A y \in {PollBudget, MaxPollBudget} : x =< y
    <2>1. least(PollBudget) \/ least(MaxPollBudget)
      BY Numbers
    <2>2. least(CHOOSE x \in {PollBudget, MaxPollBudget} :
                   \A y \in {PollBudget, MaxPollBudget} : x =< y)
      BY <2>1
    <2> QED
      BY <2>2 DEF Min
  <1> QED
    BY <1>1, Numbers DEF Budget

(* Renewed budgets add up.                                                 *)
LEMMA Spans ==
    ASSUME NEW r \in 0 .. MaxPhaseRestarts
    PROVE  /\ r * Span \in Nat /\ (r + 1) * Span = r * Span + Span
           /\ r * Span + Span <= (MaxPhaseRestarts + 1) * Span
           /\ (MaxPhaseRestarts + 1) * Span \in Nat
  <1> DEFINE m == MaxPhaseRestarts
             k == m - r
  <1>1. m \in Nat /\ r \in Nat /\ k \in Nat /\ m = r + k /\ Span \in Nat
    BY Numbers
  <1> HIDE DEF m, k
  <1>2. ASSUME NEW a \in Nat, NEW b \in Nat
        PROVE  a * b \in Nat
    OBVIOUS
  <1>3. ASSUME NEW a \in Nat, NEW b \in Nat, NEW c \in Nat
        PROVE  (a + b) * c = a * c + b * c
    OBVIOUS
  <1>4. r * Span \in Nat /\ k * Span \in Nat /\ (m + 1) * Span \in Nat
    BY <1>1, <1>2
  <1>5. (r + 1) * Span = r * Span + Span
    BY <1>1, <1>3
  <1>6. (m + 1) * Span = m * Span + Span /\ m * Span = r * Span + k * Span
    BY <1>1, <1>3
  <1>7. r * Span + Span <= (m + 1) * Span
    BY <1>1, <1>4, <1>6
  <1> QED
    BY <1>4, <1>5, <1>7 DEF m

LEMMA ExFields ==
    ASSUME NEW e \in ExSet
    PROVE  /\ e.at \in ExStages /\ e.action \in Referenced \cup Plain
           /\ e.seen \in Places \cup {Never} /\ e.pending \in {"visible", "stable", "enabled"}
           /\ e.left \in Nat /\ e.restarts \in 0 .. MaxPhaseRestarts /\ e.waited \in Nat
           /\ e.doc \in Nat /\ e.trail \in BoxSet \X BoxSet
  BY DEF ExSet

LEMMA ShownFields ==
    ASSUME NEW s \in ShownSet
    PROVE  /\ s.doc \in 1 .. MaxDocs /\ s.live \in BOOLEAN
           /\ s.place \in Places \cup {Hidden} /\ s.off \in BOOLEAN
  BY DEF ShownSet

LEMMA StageIs ==
    ASSUME ex \in ExSet, NEW at \in ExStages, Ends(at)
    PROVE  /\ ex' \in ExSet /\ ex'.at = at /\ ex'.action = ex.action /\ ex'.seen = ex.seen
           /\ ex'.left = ex.left /\ ex'.restarts = ex.restarts /\ ex'.waited = ex.waited
           /\ ex'.doc = ex.doc /\ ex'.trail = ex.trail
  BY DEF Ends, ExSet

\* the pause after an evaluation of d intervals, or the end of the wait
LEMMA PauseIs ==
    ASSUME NEW e \in ExSet, NEW d \in Nat, NEW answer \in ExStages
    PROVE  LET f == Pause(e, d, answer) IN
           /\ f \in ExSet /\ f.action = e.action /\ f.seen = e.seen
           /\ f.restarts = e.restarts /\ f.doc = e.doc /\ f.trail = e.trail
           /\ \/ f.at = answer /\ f.waited = e.waited + d
              \/ f.at = e.at /\ f.waited + f.left = e.waited + e.left
  <1>1. e.left \in Nat /\ e.waited \in Nat
    BY ExFields
  <1>2. CASE Less(e.left, d) = 0
    <2> DEFINE w == e.waited + d
               f == [e EXCEPT !.at = answer, !.waited = w, !.left = 0]
    <2>1. Pause(e, d, answer) = f
      BY <1>2 DEF Pause
    <2>2. w \in Nat
      BY <1>1
    <2> HIDE DEF w
    <2>3. /\ f \in ExSet /\ f.action = e.action /\ f.seen = e.seen
          /\ f.restarts = e.restarts /\ f.doc = e.doc /\ f.trail = e.trail
          /\ f.at = answer /\ f.waited = w
      BY <2>2 DEF ExSet
    <2> HIDE DEF f
    <2> QED
      BY <2>1, <2>3 DEF w
  <1>3. CASE Less(e.left, d) # 0
    <2> DEFINE w == e.waited + d + 1
               l == Less(e.left, d + 1)
               f == [e EXCEPT !.waited = w, !.left = l]
    <2>1. Pause(e, d, answer) = f
      BY <1>3 DEF Pause
    <2>2. w \in Nat /\ l \in Nat /\ w + l = e.waited + e.left
      BY <1>1, <1>3 DEF Less
    <2> HIDE DEF w, l
    <2>3. /\ f \in ExSet /\ f.action = e.action /\ f.seen = e.seen
          /\ f.restarts = e.restarts /\ f.doc = e.doc /\ f.trail = e.trail
          /\ f.at = e.at /\ f.waited = w /\ f.left = l
      BY <2>2 DEF ExSet
    <2> HIDE DEF f
    <2> QED
      BY <2>1, <2>2, <2>3
  <1> QED
    BY <1>2, <1>3

(* An action that goes on to another stage keeps the invariant when what it *)
(* did to the page is what that stage allows.                              *)
LEMMA EndsKeeps ==
    ASSUME ActionInv, NEW at \in ExStages \ {"idle", "wait", "poll"}, Ends(at),
           shown' \in ShownSet, effects' \subseteq EffectSet,
           at \in Untouching => effects' \subseteq Scrolled,
           at \in Acting /\ ex.action \in Referenced => Settled(ex.trail),
           ~(effects' \subseteq Scrolled) /\ ex.action \in Referenced => Settled(ex.trail),
           \A effect \in effects' : effect[1] \in OnElement => effect[2] = ex.doc
    PROVE  ActionInv'
  <1>1. /\ ex' \in ExSet /\ ex'.at = at /\ ex'.action = ex.action
        /\ ex'.waited = ex.waited /\ ex'.doc = ex.doc /\ ex'.trail = ex.trail
    BY StageIs DEF ActionInv, ActionState
  <1>0. Scrolled' = Scrolled
    BY <1>1 DEF Scrolled
  <1>2. ActionState' /\ Timed' /\ Compared' /\ LeftAlone' /\ SeenSettled'
    BY <1>0, <1>1 DEF ActionState, Timed, Compared, LeftAlone, SeenSettled
  <1>3. WaitBounded'
    BY <1>1 DEF ActionInv, WaitBounded, Budget
  <1>4. ActedOnSettled'
    BY <1>0, <1>1 DEF ActedOnSettled, Settled
  <1>5. OwnDocument'
    BY <1>1 DEF OwnDocument
  <1> QED
    BY <1>2, <1>3, <1>4, <1>5 DEF ActionInv

\* without an effect of its own
LEMMA StillEnds ==
    ASSUME ActionInv, NEW at \in ExStages \ {"idle", "wait", "poll"}, Ends(at), Still,
           at \in Untouching => ex.at \in Untouching,
           at \in Acting => ex.at \in Acting
    PROVE  ActionInv'
  <1>1. /\ shown' \in ShownSet /\ effects' \subseteq EffectSet /\ effects' = effects
    BY DEF Still, ActionInv, ActionState
  <1>2. at \in Untouching => effects' \subseteq Scrolled
    BY <1>1 DEF ActionInv, LeftAlone
  <1>3. at \in Acting /\ ex.action \in Referenced => Settled(ex.trail)
    BY DEF ActionInv, SeenSettled
  <1>4. ~(effects' \subseteq Scrolled) /\ ex.action \in Referenced => Settled(ex.trail)
    BY <1>1 DEF ActionInv, ActedOnSettled, Settled
  <1>5. \A effect \in effects' : effect[1] \in OnElement => effect[2] = ex.doc
    BY <1>1 DEF ActionInv, OwnDocument
  <1> QED
    BY <1>1, <1>2, <1>3, <1>4, <1>5, EndsKeeps

\* with one effect, on a document that is the reference's when it matters
LEMMA DoesEnd ==
    ASSUME ActionInv, NEW at \in ExStages \ Untouching, Ends(at),
           NEW what \in {"press", "release", "point", "text", "select", "files", "load"},
           NEW doc \in 1 .. MaxDocs, Do(what, doc), shown' \in ShownSet,
           what \in OnElement => doc = ex.doc,
           ex.at \in Acting
    PROVE  ActionInv'
  <1>1. effects' = effects \cup {<<what, doc>>}
    BY DEF Do
  <1>2. effects' \subseteq EffectSet
    BY <1>1 DEF ActionInv, ActionState, EffectSet
  <1>3. ex.action \in Referenced => Settled(ex.trail)
    BY DEF ActionInv, SeenSettled
  <1>4. \A effect \in effects' : effect[1] \in OnElement => effect[2] = ex.doc
    BY <1>1 DEF ActionInv, OwnDocument
  <1>5. at \notin {"idle", "wait", "poll"}
    BY DEF Untouching
  <1> QED
    BY <1>2, <1>3, <1>4, <1>5, EndsKeeps

(* The page may change under an action whenever it likes.                  *)
LEMMA PageKeeps ==
    ASSUME ActionInv, shown' \in ShownSet, UNCHANGED <<ex, effects>>
    PROVE  ActionInv'
  BY DEF ActionInv, ActionState, Timed, WaitBounded, Budget, Compared, LeftAlone, SeenSettled,
     ActedOnSettled, OwnDocument, Scrolled

LEMMA MoveKeeps ==
    ASSUME ActionInv, Move
    PROVE  ActionInv'
  <1>1. shown \in ShownSet
    BY DEF ActionInv, ActionState
  <1>2. PICK place \in Places \cup {Hidden}, off \in BOOLEAN :
           shown' = [shown EXCEPT !.place = place, !.off = off]
    BY DEF Move
  <1>3. shown' \in ShownSet
    BY <1>1, <1>2 DEF ShownSet
  <1> QED
    BY <1>3, PageKeeps DEF Move

LEMMA DetachKeeps ==
    ASSUME ActionInv, Detach
    PROVE  ActionInv'
  <1>1. shown \in ShownSet /\ shown' = [shown EXCEPT !.live = FALSE]
    BY DEF ActionInv, ActionState, Detach
  <1>2. shown' \in ShownSet
    BY <1>1 DEF ShownSet
  <1> QED
    BY <1>2, PageKeeps DEF Detach

\* the next document, whose element nobody has referred to yet
LEMMA NextDocument ==
    ASSUME shown \in ShownSet, shown.doc < MaxDocs
    PROVE  /\ shown.doc + 1 \in 1 .. MaxDocs
           /\ [doc |-> shown.doc + 1, live |-> FALSE, place |-> Hidden, off |-> FALSE] \in ShownSet
  <1>1. shown.doc + 1 \in 1 .. MaxDocs
    BY ShownFields, Numbers
  <1> QED
    BY <1>1 DEF ShownSet

LEMMA ReloadKeeps ==
    ASSUME ActionInv, Reload
    PROVE  ActionInv'
  BY NextDocument, PageKeeps DEF Reload, ActionInv, ActionState

LEMMA LandKeeps ==
    ASSUME ActionInv, NEW at \in {"snapshot", "settle"}, ex.at = "act", Land(at)
    PROVE  ActionInv'
  <1>1. shown' \in ShownSet /\ shown.doc + 1 \in 1 .. MaxDocs /\ Do("load", shown.doc + 1)
    BY NextDocument DEF Land, ActionInv, ActionState
  <1>2. CASE Ends(at)
    BY <1>1, <1>2, DoesEnd DEF OnElement, ExStages, Untouching, Refusals, Acting
  <1>3. CASE Ends("engine")
    BY <1>1, <1>3, DoesEnd DEF OnElement, ExStages, Answers, Untouching, Refusals, Acting
  <1> QED
    BY <1>2, <1>3 DEF Land

LEMMA DispatchKeeps ==
    ASSUME ActionInv, NEW at \in {"release", "settle"}, ex.at \in Acting,
           NEW what \in {"press", "release", "point", "text"}, Dispatch(what, at)
    PROVE  ActionInv'
  <1>1. /\ shown' \in ShownSet /\ shown.doc \in 1 .. MaxDocs /\ Do(what, shown.doc)
    BY ShownFields DEF Dispatch, ActionInv, ActionState
  <1>2. CASE Ends(at)
    BY <1>1, <1>2, DoesEnd DEF OnElement, ExStages, Untouching, Refusals
  <1>3. CASE Ends("engine")
    BY <1>1, <1>3, DoesEnd DEF OnElement, ExStages, Answers, Untouching, Refusals
  <1> QED
    BY <1>2, <1>3 DEF Dispatch

LEMMA EngineFailsKeeps ==
    ASSUME ActionInv, EngineFails
    PROVE  ActionInv'
  BY StillEnds DEF EngineFails, ExStages, Answers, Untouching, Refusals, Acting

LEMMA PointerKeeps ==
    ASSUME ActionInv, Press \/ Release \/ Point \/ Insert
    PROVE  ActionInv'
  BY DispatchKeeps DEF Press, Release, Point, Insert, Acting

LEMMA FocusKeeps ==
    ASSUME ActionInv, Focus
    PROVE  ActionInv'
  <1>1. ex.at = "act" /\ ex.action = "type" /\ UNCHANGED shown
    BY DEF Focus
  <1>2. CASE Resolves
    <2>1. /\ effects' = effects \cup {<<"scroll", shown.doc>>, <<"focus", shown.doc>>}
          /\ Ends("insert") \/ Ends("engine")
      BY <1>2 DEF Focus
    <2>2. shown.doc = ex.doc /\ shown.doc \in 1 .. MaxDocs /\ shown' \in ShownSet
      BY <1>1, <1>2, ShownFields DEF Resolves, ActionInv, ActionState
    <2>3. effects' \subseteq EffectSet
      BY <2>1, <2>2 DEF ActionInv, ActionState, EffectSet
    <2>4. \A effect \in effects' : effect[1] \in OnElement => effect[2] = ex.doc
      BY <2>1, <2>2 DEF ActionInv, OwnDocument
    <2>5. ex.action \in Referenced => Settled(ex.trail)
      BY <1>1 DEF ActionInv, SeenSettled, Acting
    <2>6. CASE Ends("insert")
      BY <2>2, <2>3, <2>4, <2>5, <2>6, EndsKeeps DEF ExStages, Untouching, Refusals
    <2>7. CASE Ends("engine")
      BY <2>2, <2>3, <2>4, <2>5, <2>7, EndsKeeps DEF ExStages, Answers, Untouching, Refusals
    <2> QED
      BY <2>1, <2>6, <2>7
  <1>3. CASE ~Resolves
    <2>1. Ends("expired") /\ Still
      BY <1>1, <1>3 DEF Focus, Still
    <2> QED
      BY <1>1, <2>1, StillEnds DEF ExStages, Answers, Untouching, Refusals, Acting
  <1> QED
    BY <1>2, <1>3

LEMMA SelectOptionKeeps ==
    ASSUME ActionInv, SelectOption
    PROVE  ActionInv'
  <1>1. ex.at = "act" /\ UNCHANGED shown
    BY DEF SelectOption
  <1>2. PICK answer \in Scripted, matched \in BOOLEAN :
           /\ IF SelectScript(answer, matched) THEN Do("select", shown.doc)
              ELSE UNCHANGED effects
           /\ \/ Ends(CASE answer = "missing" -> "expired"
                        [] answer = "it" /\ matched -> "settle"
                        [] OTHER -> "refused")
              \/ Ends("engine")
    BY DEF SelectOption
  <1>3. CASE answer = "it" /\ matched
    <2>1. Do("select", shown.doc) /\ (Ends("settle") \/ Ends("engine"))
      BY <1>2, <1>3 DEF SelectScript
    <2>2. shown.doc = ex.doc
      BY <1>3 DEF Scripted, Resolves
    <2>3. shown \in ShownSet /\ shown.doc \in 1 .. MaxDocs
      BY ShownFields DEF ActionInv, ActionState
    <2> QED
      BY <1>1, <2>1, <2>2, <2>3, DoesEnd DEF OnElement, ExStages, Answers, Untouching, Refusals, Acting
  <1>4. CASE ~(answer = "it" /\ matched)
    <2>1. Still /\ (Ends("expired") \/ Ends("refused") \/ Ends("engine"))
      BY <1>1, <1>2, <1>4 DEF SelectScript, Still
    <2> QED
      BY <1>1, <2>1, StillEnds DEF ExStages, Answers, Untouching, Refusals, Acting
  <1> QED
    BY <1>3, <1>4

LEMMA FilesKeep ==
    ASSUME ActionInv, CheckFiles \/ HandFiles
    PROVE  ActionInv'
  <1>1. CASE CheckFiles
    <2>1. ex.at = "act" /\ Still /\ (Ends("expired") \/ Ends("hand") \/ Ends("refused"))
      BY <1>1 DEF CheckFiles
    <2> QED
      BY <2>1, StillEnds DEF ExStages, Answers, Untouching, Refusals, Acting
  <1>2. CASE HandFiles /\ Resolves
    <2>1. /\ ex.at = "hand" /\ Do("files", shown.doc) /\ (Ends("settle") \/ Ends("engine"))
          /\ shown.doc = ex.doc /\ UNCHANGED shown
      BY <1>2 DEF HandFiles, Resolves
    <2>2. shown \in ShownSet /\ shown.doc \in 1 .. MaxDocs
      BY ShownFields DEF ActionInv, ActionState
    <2> QED
      BY <2>1, <2>2, DoesEnd DEF OnElement, ExStages, Answers, Untouching, Refusals, Acting
  <1>3. CASE HandFiles /\ ~Resolves
    <2>1. ex.at = "hand" /\ Ends("expired") /\ Still
      BY <1>3 DEF HandFiles, Still
    <2> QED
      BY <2>1, StillEnds DEF ExStages, Answers, Untouching, Refusals, Acting
  <1> QED
    BY <1>1, <1>2, <1>3

LEMMA LeavesKeep ==
    ASSUME ActionInv, Navigate \/ History
    PROVE  ActionInv'
  BY LandKeeps DEF Navigate, History

LEMMA AnswersKeep ==
    ASSUME ActionInv, Settle \/ Snapshot \/ Missing
    PROVE  ActionInv'
  BY StillEnds DEF Settle, Snapshot, Missing, ExStages, Answers, Untouching, Refusals, Acting

\* what an action begins with: no sample taken, nothing waited for
LEMMA FreshTrail ==
    /\ Idle.trail \in BoxSet \X BoxSet /\ Idle.trail[2].place = Hidden
    /\ Idle.seen = Never /\ Idle.waited = 0 /\ Idle.restarts = 0 /\ Idle.at = "idle"
    /\ Idle.action = "key" /\ Idle \in ExSet
  <1>1. Unseen \in BoxSet /\ Unseen.place = Hidden
    BY DEF Unseen, BoxSet
  <1>2. <<Unseen, Unseen>> \in BoxSet \X BoxSet /\ <<Unseen, Unseen>>[2] = Unseen
    BY <1>1
  <1> HIDE DEF Unseen
  <1>3. /\ Idle.trail = <<Unseen, Unseen>> /\ Idle.seen = Never /\ Idle.waited = 0
        /\ Idle.restarts = 0 /\ Idle.at = "idle" /\ Idle.action = "key"
    BY DEF Idle
  <1>4. Idle \in ExSet
    <2>1. 0 \in 0 .. MaxPhaseRestarts
      BY Numbers
    <2> DEFINE t == <<Unseen, Unseen>>
    <2>2. Idle = [at |-> "idle", action |-> "key", seen |-> Never, pending |-> "visible",
                  left |-> 0, restarts |-> 0, waited |-> 0, doc |-> 0, trail |-> t]
      BY DEF Idle
    <2>3. t \in BoxSet \X BoxSet
      BY <1>2
    <2> HIDE DEF t
    <2> QED
      BY <2>1, <2>2, <2>3 DEF ExSet, ExStages, Referenced, Plain
  <1> QED
    BY <1>1, <1>2, <1>3, <1>4

LEMMA Starts ==
    ASSUME ActionInv, ex' \in ExSet, Still, effects = {}, ex'.waited = 0, ex'.restarts = 0,
           ex'.trail = Idle.trail, ex'.seen = Never, ex'.at # "idle",
           ex'.at = "wait" => ex'.action \in Referenced /\ ex'.left = PhaseTimeout,
           ex'.at = "poll" => ex'.action = "wait_for" /\ ex'.left = Budget("wait_for"),
           ex'.at \in Acting => ex'.action \notin Referenced
    PROVE  ActionInv'
  <1>1. ActionState'
    BY DEF ActionInv, ActionState, Still
  <1>2. Timed'
    <2>1. ex'.restarts * Span = 0
      BY Numbers
    <2> QED
      BY <2>1, Numbers, BudgetIs DEF Timed, Budget
  <1>3. WaitBounded'
    <2>1. (MaxPhaseRestarts + 1) * (PhaseTimeout + Slowest) \in Nat
      BY Numbers
    <2>2. Budget("wait_for") + Slowest \in Nat
      BY Numbers, BudgetIs
    <2> QED
      BY <2>1, <2>2 DEF WaitBounded, Budget
  <1>4. Compared'
    BY FreshTrail DEF Compared
  <1>5. LeftAlone' /\ SeenSettled' /\ ActedOnSettled' /\ OwnDocument'
    BY DEF LeftAlone, SeenSettled, ActedOnSettled, OwnDocument, Still
  <1> QED
    BY <1>1, <1>2, <1>3, <1>4, <1>5 DEF ActionInv

LEMMA BeginActionKeeps ==
    ASSUME ActionInv, BeginAction
    PROVE  ActionInv'
  <1>1. PICK action \in Referenced \cup Plain :
          ex' = [Idle EXCEPT
                    !.action = action, !.doc = shown.doc,
                    !.at = CASE action \in Referenced -> "wait"
                             [] action = "wait_for"   -> "poll"
                             [] OTHER                 -> "act",
                    !.left = Budget(action)]
    BY DEF BeginAction
  <1> DEFINE at == CASE action \in Referenced -> "wait"
                     [] action = "wait_for"   -> "poll"
                     [] OTHER                 -> "act"
             left == Budget(action)
             doc == shown.doc
  <1>2. /\ at \in ExStages /\ at # "idle"
        /\ at = "wait" => action \in Referenced
        /\ at = "poll" => action = "wait_for"
        /\ at \in Acting => action \notin Referenced
    <2>1. "wait_for" \notin Referenced
      BY DEF Referenced
    <2> QED
      BY <2>1 DEF ExStages, Acting
  <1>3. left \in Nat /\ doc \in Nat
    BY Numbers, BudgetIs, ShownFields DEF ActionInv, ActionState
  <1>4. at = "wait" => left = PhaseTimeout
    BY <1>2, BudgetIs DEF Referenced
  <1>5. at = "poll" => left = Budget("wait_for")
    BY <1>2
  <1>6. ex' = [Idle EXCEPT !.action = action, !.doc = doc, !.at = at, !.left = left]
    BY <1>1
  <1> HIDE DEF at, left, doc
  <1>7. /\ ex' \in ExSet /\ ex'.waited = 0 /\ ex'.restarts = 0
        /\ ex'.trail = Idle.trail /\ ex'.seen = Never
        /\ ex'.at = at /\ ex'.left = left /\ ex'.action = action
    BY <1>2, <1>3, <1>6, FreshTrail DEF ExSet
  <1>8. Still /\ effects = {}
    BY DEF BeginAction, ActionInv, LeftAlone
  <1> QED
    BY <1>2, <1>4, <1>5, <1>7, <1>8, Starts

LEMMA NoFilesKeeps ==
    ASSUME ActionInv, NoFiles
    PROVE  ActionInv'
  <1>1. ex' = [Idle EXCEPT !.action = "files", !.at = "refused"] /\ Still /\ effects = {}
    BY DEF NoFiles, ActionInv, LeftAlone
  <1>2. /\ ex' \in ExSet /\ ex'.waited = 0 /\ ex'.restarts = 0
        /\ ex'.trail = Idle.trail /\ ex'.seen = Never /\ ex'.at = "refused"
    <2>1. "refused" \in ExStages /\ "files" \in Referenced \cup Plain
      BY DEF ExStages, Answers, Refusals, Referenced
    <2> QED
      BY <1>1, <2>1, FreshTrail DEF ExSet
  <1> QED
    BY <1>1, <1>2, Starts DEF Acting

LEMMA ReturnKeeps ==
    ASSUME ActionInv, Return
    PROVE  ActionInv'
  <1>1. ex' = Idle /\ effects' = {} /\ shown' = [shown EXCEPT !.live = TRUE]
    BY DEF Return
  <1>2. shown' \in ShownSet
    BY <1>1 DEF ActionInv, ActionState, ShownSet
  <1>3. ActionState'
    BY <1>1, <1>2, FreshTrail DEF ActionState
  <1>4. Timed' /\ Compared' /\ LeftAlone' /\ SeenSettled' /\ ActedOnSettled' /\ OwnDocument'
    BY <1>1, FreshTrail DEF Timed, Compared, LeftAlone, SeenSettled, Acting, ActedOnSettled,
       OwnDocument
  <1>5. WaitBounded'
    <2>1. (MaxPhaseRestarts + 1) * (PhaseTimeout + Slowest) \in Nat
      BY Numbers
    <2> QED
      BY <1>1, <2>1, FreshTrail DEF WaitBounded
  <1> QED
    BY <1>3, <1>4, <1>5 DEF ActionInv

\* a turn of a wait scrolls to the element when the reference names one
Scrolls == shown' = shown /\ (effects' = effects \/ (Resolves /\ Scroll))

(* One turn of a wait: what it has seen and what it has taken so far keep   *)
(* the invariant when they are within the budgets and the page is scrolled  *)
(* at most.                                                                *)
LEMMA WaitTurn ==
    ASSUME ActionInv, ex.at \in {"wait", "poll"}, Scrolls, ex' \in ExSet, Timed', Compared',
           ex'.action = ex.action, ex'.doc = ex.doc, ex'.at # "idle",
           ex.action \in Referenced =>
              ex'.waited <= (MaxPhaseRestarts + 1) * Span,
           ex.action = "wait_for" => ex'.waited <= Budget("wait_for") + Slowest,
           ex'.at \in Acting /\ ex.action \in Referenced => Settled(ex'.trail)
    PROVE  ActionInv'
  <1>1. effects' \subseteq Scrolled /\ shown' = shown
    <2>1. effects \subseteq Scrolled
      BY DEF ActionInv, LeftAlone, Untouching
    <2>2. Resolves /\ Scroll => effects' \subseteq Scrolled
      BY <2>1 DEF Resolves, Scroll, Do, Scrolled
    <2> QED
      BY <2>1, <2>2 DEF Scrolls
  <1>2. Scrolled' = Scrolled
    BY DEF Scrolled
  <1>3. effects' \subseteq EffectSet
    <2>1. effects \subseteq EffectSet /\ shown.doc \in 1 .. MaxDocs
      BY ShownFields DEF ActionInv, ActionState
    <2> QED
      BY <2>1 DEF Scrolls, Scroll, Do, EffectSet
  <1>4. ActionState'
    BY <1>1, <1>3 DEF ActionInv, ActionState
  <1>5. LeftAlone' /\ SeenSettled' /\ ActedOnSettled'
    BY <1>1, <1>2 DEF LeftAlone, SeenSettled, ActedOnSettled
  <1>6. OwnDocument'
    BY <1>1 DEF OwnDocument, Scrolled
  <1>7. ex.action \in Referenced \/ ex.action = "wait_for"
    BY DEF ActionInv, Timed
  <1>8. "wait_for" \notin Referenced
    BY DEF Referenced
  <1>9. WaitBounded'
    BY <1>7, <1>8 DEF WaitBounded, Span, Budget
  <1> QED
    BY <1>4, <1>5, <1>6, <1>9 DEF ActionInv

\* the last evaluation within budget may be slow, and no more
LEMMA WithinBudgets ==
    ASSUME NEW r \in 0 .. MaxPhaseRestarts, NEW d \in 0 .. Slowest,
           NEW waited \in Nat, NEW left \in Nat, waited + left <= r * Span + PhaseTimeout
    PROVE  /\ waited + d <= (MaxPhaseRestarts + 1) * Span
           /\ waited <= (MaxPhaseRestarts + 1) * Span
           /\ waited + d + PhaseTimeout <= (r + 1) * Span + PhaseTimeout
  <1> DEFINE a == r * Span
             b == (r + 1) * Span
             c == (MaxPhaseRestarts + 1) * Span
  <1>1. a \in Nat /\ b = a + Span /\ a + Span <= c /\ c \in Nat
    BY Spans
  <1>2. Span = PhaseTimeout + Slowest /\ PhaseTimeout \in Nat /\ Slowest \in Nat
    BY Numbers DEF Span
  <1>3. waited + left <= a + PhaseTimeout
    OBVIOUS
  <1> HIDE DEF a, b, c
  <1>4. waited + d <= c /\ waited <= c /\ waited + d + PhaseTimeout <= b + PhaseTimeout
    BY <1>1, <1>2, <1>3
  <1> QED
    BY <1>4 DEF a, b, c

\* a pause in the wait, of what has been seen up to now
LEMMA PauseKeeps ==
    ASSUME ActionInv, ex.at = "wait", Scrolls, NEW e \in ExSet, NEW d \in 0 .. Slowest,
           NEW answer \in {"timed_out", "engine"}, ex' = Pause(e, d, answer),
           e.at = "wait", e.action = ex.action, e.doc = ex.doc,
           e.seen = IF e.trail[2].place = Hidden THEN Never ELSE e.trail[2].place,
           e.waited + e.left <= e.restarts * Span + PhaseTimeout
    PROVE  ActionInv'
  <1>1. d \in Nat /\ answer \in ExStages \ {"idle", "wait", "poll"} /\ answer \notin Acting
    BY Numbers DEF ExStages, Answers, Refusals, Acting
  <1>2. /\ ex' \in ExSet /\ ex'.action = ex.action /\ ex'.seen = e.seen
        /\ ex'.restarts = e.restarts /\ ex'.trail = e.trail /\ ex'.doc = ex.doc
        /\ \/ ex'.at = answer /\ ex'.waited = e.waited + d
           \/ ex'.at = "wait" /\ ex'.waited + ex'.left = e.waited + e.left
    BY <1>1, PauseIs
  <1>3. ex.action \in Referenced /\ "wait_for" \notin Referenced
    BY DEF ActionInv, Timed, Referenced
  <1>4. /\ e.waited \in Nat /\ e.left \in Nat /\ e.restarts \in 0 .. MaxPhaseRestarts
        /\ ex'.waited \in Nat /\ ex'.left \in Nat
    BY <1>2, ExFields
  <1>5. ex'.waited <= (MaxPhaseRestarts + 1) * Span
    <2>1. CASE ex'.at = answer /\ ex'.waited = e.waited + d
      <3>1. e.waited + d <= (MaxPhaseRestarts + 1) * Span
        BY <1>4, WithinBudgets
      <3> QED
        BY <2>1, <3>1
    <2>2. CASE ex'.at = "wait" /\ ex'.waited + ex'.left = e.waited + e.left
      <3>1. ex'.waited + ex'.left <= e.restarts * Span + PhaseTimeout
        BY <2>2
      <3> QED
        BY <3>1, <1>4, WithinBudgets
    <2> QED
      BY <1>2, <2>1, <2>2
  <1>6. Timed'
    BY <1>1, <1>2, <1>3 DEF Timed
  <1>7. Compared'
    BY <1>1, <1>2 DEF Compared
  <1> QED
    BY <1>1, <1>2, <1>3, <1>5, <1>6, <1>7, WaitTurn DEF Acting

LEMMA RejectedKeeps ==
    ASSUME ActionInv, Rejected
    PROVE  ActionInv'
  <1>1. PICK d \in 0 .. Slowest, answer \in {"timed_out", "engine"} :
           ex' = Pause(ex, d, answer)
    BY DEF Rejected
  <1>2. ex.at = "wait" /\ Scrolls /\ ex \in ExSet
    BY DEF Rejected, Scrolls, ActionInv, ActionState
  <1>3. /\ ex.seen = IF ex.trail[2].place = Hidden THEN Never ELSE ex.trail[2].place
        /\ ex.waited + ex.left <= ex.restarts * Span + PhaseTimeout
    BY <1>2 DEF ActionInv, Compared, Timed
  <1> QED
    BY <1>1, <1>2, <1>3, PauseKeeps

(* A sample settles the element when the box it finds is the one seen last, *)
(* which is the last sample of the trail.                                  *)
LEMMA SampleKeeps ==
    ASSUME ActionInv, Sample
    PROVE  ActionInv'
  <1> DEFINE visible == shown.place # Hidden
             stable  == visible /\ ex.seen = shown.place
             now     == IF ~visible THEN "visible"
                        ELSE IF ~stable THEN "stable" ELSE "enabled"
             box     == [place |-> shown.place, off |-> shown.off]
             seen    == Seen(visible)
             trail   == <<ex.trail[2], box>>
             e       == [ex EXCEPT !.seen = seen, !.pending = now, !.trail = trail]
  <1>1. PICK d \in 0 .. Slowest :
          IF stable /\ ~shown.off
          THEN ex' = [e EXCEPT !.at = "act", !.waited = @ + d]
          ELSE IF Renewed(now)
          THEN ex' = Pause([e EXCEPT !.left = PhaseTimeout, !.waited = @ + d,
                                     !.restarts = @ + 1], 0, "timed_out")
          ELSE ex' = Pause(e, d, "timed_out")
    BY DEF Sample
  <1>2. /\ ex.at = "wait" /\ Scrolls /\ ex \in ExSet /\ shown \in ShownSet
        /\ ex.action \in Referenced
        /\ ex.seen = IF ex.trail[2].place = Hidden THEN Never ELSE ex.trail[2].place
        /\ ex.waited + ex.left <= ex.restarts * Span + PhaseTimeout
    BY DEF Sample, Scrolls, ActionInv, ActionState, Compared, Timed
  <1>3. /\ ex.trail \in BoxSet \X BoxSet /\ ex.left \in Nat /\ ex.waited \in Nat
        /\ ex.restarts \in 0 .. MaxPhaseRestarts
    BY <1>2, ExFields
  <1>4. /\ shown.place \in Places \cup {Hidden} /\ shown.off \in BOOLEAN
    BY <1>2, ShownFields
  <1>5. box \in BoxSet /\ box.place = shown.place /\ box.off = shown.off
    BY <1>4 DEF BoxSet
  <1> HIDE DEF box
  <1>6. /\ trail \in BoxSet \X BoxSet /\ trail[1] = ex.trail[2] /\ trail[2] = box
    BY <1>3, <1>5
  <1>7. /\ seen \in Places \cup {Never}
        /\ seen = IF trail[2].place = Hidden THEN Never ELSE trail[2].place
    BY <1>4, <1>5, <1>6 DEF Seen
  <1>8. stable /\ ~shown.off => Settled(trail)
    <2>1. stable => trail[1].place = shown.place /\ shown.place # Hidden
      BY <1>2, <1>4, <1>6, ExecutorAssumption
    <2> QED
      BY <2>1, <1>5, <1>6 DEF Settled
  <1>9. now \in {"visible", "stable", "enabled"}
    OBVIOUS
  <1> HIDE DEF visible, stable, now, seen, trail
  <1>10. /\ e \in ExSet /\ e.at = "wait" /\ e.action = ex.action /\ e.seen = seen
         /\ e.left = ex.left /\ e.restarts = ex.restarts /\ e.waited = ex.waited
         /\ e.trail = trail /\ e.doc = ex.doc
    BY <1>2, <1>6, <1>7, <1>9 DEF ExSet
  <1> HIDE DEF e
  <1>11. CASE stable /\ ~shown.off
    <2> DEFINE w == e.waited + d
    <2>1. ex' = [e EXCEPT !.at = "act", !.waited = w]
      BY <1>1, <1>11
    <2>2. w \in Nat /\ w <= (MaxPhaseRestarts + 1) * Span
      <3>1. ex.waited + d <= (MaxPhaseRestarts + 1) * Span
        BY <1>2, <1>3, WithinBudgets
      <3>2. ex.waited + d \in Nat
        BY <1>3, Numbers
      <3> QED
        BY <3>1, <3>2, <1>10
    <2> HIDE DEF w
    <2>3. "act" \in ExStages
      BY DEF ExStages
    <2>4. /\ ex' \in ExSet /\ ex'.at = "act" /\ ex'.action = e.action /\ ex'.waited = w
          /\ ex'.trail = e.trail /\ ex'.doc = ex.doc
      BY <2>1, <2>2, <2>3, <1>10 DEF ExSet
    <2>5. Timed' /\ Compared'
      BY <2>4 DEF Timed, Compared
    <2>6. ex.action # "wait_for"
      BY <1>2 DEF Referenced
    <2>7. Settled(ex'.trail)
      BY <2>4, <1>8, <1>10, <1>11
    <2> QED
      BY <2>2, <2>4, <2>5, <2>6, <2>7, <1>2, <1>10, WaitTurn
  <1>12. CASE ~(stable /\ ~shown.off) /\ Renewed(now)
    <2> DEFINE w == e.waited + d
               r == e.restarts + 1
               f == [e EXCEPT !.left = PhaseTimeout, !.waited = w, !.restarts = r]
    <2>1. ex' = Pause(f, 0, "timed_out")
      BY <1>1, <1>12
    <2>2. ex.restarts < MaxPhaseRestarts
      BY <1>12 DEF Renewed
    <2>3. w \in Nat /\ r \in 0 .. MaxPhaseRestarts
      BY <2>2, <1>3, <1>10, Numbers
    <2>4. w + PhaseTimeout <= r * Span + PhaseTimeout
      BY <1>2, <1>3, <1>10, WithinBudgets
    <2> HIDE DEF w, r
    <2>5. /\ f \in ExSet /\ f.at = e.at /\ f.action = e.action /\ f.seen = e.seen
          /\ f.left = PhaseTimeout /\ f.restarts = r /\ f.waited = w /\ f.trail = e.trail
          /\ f.doc = e.doc
      BY <2>3, <1>10, Numbers DEF ExSet
    <2> HIDE DEF f
    <2>6. 0 \in 0 .. Slowest
      BY Numbers
    <2>7. f.seen = IF f.trail[2].place = Hidden THEN Never ELSE f.trail[2].place
      BY <2>5, <1>7, <1>10
    <2>8. f.at = "wait" /\ f.action = ex.action /\ f.doc = ex.doc
      BY <2>5, <1>10
    <2>9. f.waited + f.left <= f.restarts * Span + PhaseTimeout
      BY <2>4, <2>5
    <2> QED
      BY <2>1, <2>5, <2>6, <2>7, <2>8, <2>9, <1>2, PauseKeeps
  <1>13. CASE ~(stable /\ ~shown.off) /\ ~Renewed(now)
    <2>1. ex' = Pause(e, d, "timed_out")
      BY <1>1, <1>13
    <2>2. e.seen = IF e.trail[2].place = Hidden THEN Never ELSE e.trail[2].place
      BY <1>7, <1>10
    <2>3. e.waited + e.left <= e.restarts * Span + PhaseTimeout
      BY <1>2, <1>10
    <2> QED
      BY <2>1, <2>2, <2>3, <1>2, <1>10, PauseKeeps
  <1> QED
    BY <1>11, <1>12, <1>13

\* a wait_for has one budget, clamped when it was asked for
LEMMA PollKeeps ==
    ASSUME ActionInv, Poll
    PROVE  ActionInv'
  <1>1. PICK d \in 0 .. Slowest, found \in BOOLEAN :
          ex' = IF found THEN [ex EXCEPT !.at = "snapshot", !.waited = @ + d]
                ELSE Pause(ex, d, "timed_out")
    BY DEF Poll
  <1>2. /\ ex.at = "poll" /\ Scrolls /\ ex \in ExSet /\ ex.action = "wait_for"
        /\ ex.waited + ex.left <= Budget("wait_for")
    BY DEF Poll, Still, Scrolls, ActionInv, ActionState, Timed
  <1>3. /\ ex.left \in Nat /\ ex.waited \in Nat /\ d \in Nat /\ Slowest \in Nat
        /\ Budget("wait_for") \in Nat /\ d <= Slowest
    BY <1>2, ExFields, BudgetIs, Numbers
  <1>4. ex.action \notin Referenced
    BY <1>2 DEF Referenced
  <1>5. CASE found
    <2> DEFINE w == ex.waited + d
    <2>1. ex' = [ex EXCEPT !.at = "snapshot", !.waited = w]
      BY <1>1, <1>5
    <2>2. w \in Nat /\ w <= Budget("wait_for") + Slowest
      BY <1>2, <1>3
    <2> HIDE DEF w
    <2>3. "snapshot" \in ExStages /\ "snapshot" \notin Acting
      BY DEF ExStages, Acting
    <2>4. /\ ex' \in ExSet /\ ex'.at = "snapshot" /\ ex'.action = ex.action /\ ex'.waited = w
          /\ ex'.doc = ex.doc
      BY <2>1, <2>2, <2>3, <1>2 DEF ExSet
    <2>5. Timed' /\ Compared'
      BY <2>4 DEF Timed, Compared
    <2> QED
      BY <2>2, <2>3, <2>4, <2>5, <1>2, <1>4, WaitTurn
  <1>6. CASE ~found
    <2>1. ex' = Pause(ex, d, "timed_out")
      BY <1>1, <1>6
    <2>2. "timed_out" \in ExStages /\ "timed_out" \notin Acting \cup {"idle", "wait", "poll"}
      BY DEF ExStages, Answers, Refusals, Acting
    <2>3. /\ ex' \in ExSet /\ ex'.action = ex.action /\ ex'.doc = ex.doc
          /\ \/ ex'.at = "timed_out" /\ ex'.waited = ex.waited + d
             \/ ex'.at = "poll" /\ ex'.waited + ex'.left = ex.waited + ex.left
      BY <2>1, <2>2, <1>2, <1>3, PauseIs
    <2>4. ex'.waited \in Nat /\ ex'.left \in Nat
      BY <2>3, ExFields
    <2>5. ex'.waited <= Budget("wait_for") + Slowest
      BY <2>3, <2>4, <1>2, <1>3
    <2>6. Timed' /\ Compared'
      BY <2>2, <2>3, <1>2 DEF Timed, Compared, Budget
    <2>7. ex'.at \notin Acting /\ ex'.at # "idle"
      BY <2>2, <2>3 DEF Acting, ExStages
    <2> QED
      BY <2>3, <2>5, <2>6, <2>7, <1>2, <1>4, WaitTurn
  <1> QED
    BY <1>5, <1>6

(* The invariant of the executor holds of every action's every stage.      *)
THEOREM ActionInductive == ActionSpec => []ActionInv
  <1>1. ActionInit => ActionInv
    <2> SUFFICES ASSUME ActionInit PROVE ActionInv
      OBVIOUS
    <2>1. shown \in ShownSet
      BY Numbers DEF ActionInit, ShownSet
    <2>2. ex = Idle /\ effects = {}
      BY DEF ActionInit
    <2>3. ActionState /\ Timed /\ Compared /\ LeftAlone /\ SeenSettled /\ ActedOnSettled
          /\ OwnDocument
      BY <2>1, <2>2, FreshTrail DEF ActionState, Timed, Compared, LeftAlone, SeenSettled,
         Acting, ActedOnSettled, OwnDocument
    <2>4. WaitBounded
      <3>1. (MaxPhaseRestarts + 1) * (PhaseTimeout + Slowest) \in Nat
        BY Numbers
      <3> QED
        BY <2>2, <3>1, FreshTrail DEF WaitBounded
    <2> QED
      BY <2>3, <2>4 DEF ActionInv
  <1>2. ActionInv /\ [ActionNext]_actionVars => ActionInv'
    <2> SUFFICES ASSUME ActionInv, [ActionNext]_actionVars
                 PROVE  ActionInv'
      OBVIOUS
    <2>1. CASE Move \/ Detach \/ Reload
      BY <2>1, MoveKeeps, DetachKeeps, ReloadKeeps
    <2>2. CASE BeginAction \/ NoFiles \/ Return
      BY <2>2, BeginActionKeeps, NoFilesKeeps, ReturnKeeps
    <2>3. CASE Sample \/ Rejected \/ Poll
      BY <2>3, SampleKeeps, RejectedKeeps, PollKeeps
    <2>4. CASE Press \/ Release \/ Point \/ Insert
      BY <2>4, PointerKeeps
    <2>5. CASE Focus \/ SelectOption \/ EngineFails
      BY <2>5, FocusKeeps, SelectOptionKeeps, EngineFailsKeeps
    <2>6. CASE CheckFiles \/ HandFiles
      BY <2>6, FilesKeep
    <2>7. CASE Navigate \/ History
      BY <2>7, LeavesKeep
    <2>8. CASE Settle \/ Snapshot \/ Missing
      BY <2>8, AnswersKeep
    <2>9. CASE UNCHANGED actionVars
      <3>1. shown' = shown /\ UNCHANGED <<ex, effects>>
        BY <2>9 DEF actionVars
      <3> QED
        BY <3>1, PageKeeps DEF ActionInv, ActionState
    <2> QED
      BY <2>1, <2>2, <2>3, <2>4, <2>5, <2>6, <2>7, <2>8, <2>9 DEF ActionNext
  <1> QED
    BY <1>1, <1>2, PTL DEF ActionSpec

(* An action does more to the page than scroll to its element only after    *)
(* two samples in a row found the element settled, waits no longer than its *)
(* renewed budgets, and has scrolled at most when it is refused, for any    *)
(* budgets, any slowness of the page and any number of restarts             *)
(* (actions/mod.rs, auto_wait; resolver.rs, RESOLVER_TEMPLATE).            *)
THEOREM ActsSettled == ActionSpec => []ActsOnSettled
  <1>1. ActionInv => ActsOnSettled
    <2> SUFFICES ASSUME ActionInv PROVE ActsOnSettled
      OBVIOUS
    <2>1. shown \in ShownSet /\ ex \in ExSet /\ effects \subseteq EffectSet
      BY DEF ActionInv, ActionState
    <2>2. ActionTypes
      BY <2>1, ExFields, ShownFields DEF ActionTypes, ExStages, EffectSet
    <2>3. RefusedOnlyScrolled
      BY DEF ActionInv, LeftAlone, Untouching, OwnDocument, OnElement, RefusedOnlyScrolled
    <2> QED
      BY <2>2, <2>3 DEF ActionInv, ActsOnSettled
  <1> QED
    BY <1>1, ActionInductive, PTL
===============================================================================
