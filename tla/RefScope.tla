-------------------------------- MODULE RefScope --------------------------------
(***************************************************************************)
(* Reference scopes: preparing a browser target for snapshots              *)
(* (prepare_once and its neighbours in crates/engine-cdp/src/context.rs,   *)
(* the probes of page.rs) and the reference store of the serializer        *)
(* (crates/observe/src/assets).  Several calls, of one context or of two,  *)
(* adopt one target whose document is replaced whenever it likes; commands *)
(* fail, or run with their answer lost.  Every reference of a document     *)
(* carries its scope, drawn by the minter the document holds.              *)
(***************************************************************************)
EXTENDS Naturals, FiniteSets

CONSTANTS
    Adopters,   \* adopt_page calls, and their handles
    Contexts,
    Elements,   \* of a document
    SweepAt,    \* REF_SWEEP_AT, 512 in the program
    MaxDocs,    \* bound: documents the target ever shows
    MaxScopes   \* bound: scopes ever drawn

Nobody == "nobody"

ASSUME ScopeAssumption ==
    /\ Nobody \notin Adopters
    /\ IsFiniteSet(Elements) /\ SweepAt \in Nat
    /\ MaxDocs \in Nat \ {0} /\ MaxScopes \in Nat

VARIABLES
    doc,       \* the target's document
    known,     \* scopes handed to a page so far
    drawn,     \* number of scopes drawn; a scope is its number
    gate,      \* the preparation gate: its holder and the scope recorded
    sessions,  \* handles whose session holds the document-start scripts
    adopter,
    tracked,   \* each context's registered handle of the target
    issued     \* references snapshots handed out, with what they meant

scopeVars == <<doc, known, drawn, gate, sessions, adopter, tracked, issued>>

(* A minter: absent, the page's own (of this name, locked, answering some  *)
(* scope), or the engine's.                                                *)
NoMinter == [by |-> "none", scope |-> 0]
Pages(s)   == [by |-> "page", scope |-> s]
Engines(s) == [by |-> "engine", scope |-> s]

\* refs numbers the elements; a swept or never minted one has none
Fresh(n, started, minter) ==
    [n |-> n, started |-> started, minter |-> minter, claim |-> 0,
     scope |-> 0, counter |-> 0, refs |-> [e \in Elements |-> 0],
     reverse |-> {}, gone |-> {}]

Unadopted == [at |-> "idle", ctx |-> Nobody, scope |-> 0, previous |-> 0, handle |-> Nobody,
         began |-> 0, clean |-> TRUE]

ScopeInit ==
    /\ doc = Fresh(1, FALSE, NoMinter)
    /\ known = {} /\ drawn = 0
    /\ gate = [holder |-> Nobody, recorded |-> 0]
    /\ sessions = {}
    /\ adopter = [a \in Adopters |-> Unadopted]
    /\ tracked = [c \in Contexts |-> Nobody]
    /\ issued = {}
-------------------------------------------------------------------------------
(* The target *)

\* a new document: covered by the document-start scripts of any session
\* there is, or free to hold a minter of its own, of a scope it may have
\* learned from the document before
Navigate ==
    /\ doc.n < MaxDocs
    /\ IF sessions # {}
       THEN /\ drawn < MaxScopes
            /\ drawn' = drawn + 1
            /\ doc' = Fresh(doc.n + 1, TRUE, Engines(drawn'))
            /\ known' = known \cup {drawn'}
       ELSE /\ \E minter \in {NoMinter} \cup {Pages(s) : s \in known \cup {0}} :
                  doc' = Fresh(doc.n + 1, FALSE, minter)
            /\ UNCHANGED <<drawn, known>>
    /\ adopter' = [a \in Adopters |-> [adopter[a] EXCEPT !.clean = FALSE]]
    /\ UNCHANGED <<gate, sessions, tracked, issued>>

\* the page removes an element and the browser collects it
Collect(e) ==
    /\ e \notin doc.gone
    /\ doc' = [doc EXCEPT !.gone = @ \cup {e}]
    /\ UNCHANGED <<known, drawn, gate, sessions, adopter, tracked, issued>>
-------------------------------------------------------------------------------
(* prepare_once: one command to the browser at a time, under the gate.     *)

To(a, at) == adopter' = [adopter EXCEPT ![a].at = at]

\* a gate nobody waits at (a mutant of Enter)
EnterAnyway(a, c) ==
    /\ adopter[a].at = "idle" /\ tracked[c] = Nobody
    /\ gate' = [gate EXCEPT !.holder = a]
    /\ adopter' = [adopter EXCEPT ![a] = [Unadopted EXCEPT !.at = "register", !.ctx = c,
                                                      !.began = doc.n]]
    /\ UNCHANGED <<doc, known, drawn, sessions, tracked, issued>>

\* preparation_gate, locked.  adopt_page found no handle registered, else
\* it hands that out and changes nothing
Enter(a, c) ==
    /\ adopter[a].at = "idle" /\ tracked[c] = Nobody /\ gate.holder = Nobody
    /\ gate' = [gate EXCEPT !.holder = a]
    /\ adopter' = [adopter EXCEPT ![a] = [Unadopted EXCEPT !.at = "register", !.ctx = c,
                                                      !.began = doc.n]]
    /\ UNCHANGED <<doc, known, drawn, sessions, tracked, issued>>

\* install_entropy_capture, on this handle's own session
Register(a) ==
    /\ adopter[a].at = "register"
    /\ sessions' = sessions \cup {a}
    /\ To(a, "ran")
    /\ UNCHANGED <<doc, known, drawn, gate, tracked, issued>>

\* document_start_ran, the shadow in the isolated world
Ran(a) ==
    /\ adopter[a].at = "ran"
    /\ To(a, IF doc.started THEN "locked" ELSE "claimed")
    /\ UNCHANGED <<doc, known, drawn, gate, sessions, tracked, issued>>

\* prepared: the gate opens for the next
Prepared(a) ==
    /\ adopter' = [adopter EXCEPT ![a].at = "insert"]
    /\ gate' = [gate EXCEPT !.holder = Nobody]

\* locked_scope_minter: some locked function of that name.  Any error of
\* that look counts as none
Locked(a) ==
    /\ adopter[a].at = "locked"
    /\ \/ doc.minter # NoMinter /\ Prepared(a)
       \/ doc.minter = NoMinter /\ To(a, "claimed") /\ UNCHANGED gate
       \/ /\ adopter' = [adopter EXCEPT ![a].at = "claimed", ![a].clean = FALSE]
          /\ UNCHANGED gate
    /\ UNCHANGED <<doc, known, drawn, sessions, tracked, issued>>

\* the scope remembered, whichever document it was for (a mutant of Named)
NamedByRecord == gate.recorded # 0

\* document_scope_claimed: this document was claimed for the scope recorded
Named == gate.recorded # 0 /\ doc.claim = gate.recorded

Claimed(a) ==
    /\ adopter[a].at = "claimed"
    /\ To(a, IF Named THEN "recheck" ELSE "mint")
    /\ UNCHANGED <<doc, known, drawn, gate, sessions, tracked, issued>>

Failed(a, clean) ==
    /\ adopter' = [adopter EXCEPT ![a].at = "failed", ![a].clean = @ /\ clean]
    /\ gate' = [gate EXCEPT !.holder = Nobody]

\* verify_locked_scope of the scope recorded: a minter that is missing is
\* an error like a lost answer, not somebody else's minter
Recheck(a) ==
    /\ adopter[a].at = "recheck"
    /\ IF doc.minter = NoMinter THEN Failed(a, TRUE)
       ELSE IF doc.minter.scope = gate.recorded THEN Prepared(a)
       ELSE To(a, "mint") /\ UNCHANGED gate
    /\ UNCHANGED <<doc, known, drawn, sessions, tracked, issued>>

\* mint_scope_in_isolated_world
Mint(a) ==
    /\ adopter[a].at = "mint" /\ drawn < MaxScopes
    /\ drawn' = drawn + 1
    /\ adopter' = [adopter EXCEPT ![a].at = "claim", ![a].scope = drawn']
    /\ UNCHANGED <<doc, known, gate, sessions, tracked, issued>>

\* claim_document_scope, then the record, before the define
Claim(a) ==
    /\ adopter[a].at = "claim"
    /\ doc' = [doc EXCEPT !.claim = adopter[a].scope]
    /\ adopter' = [adopter EXCEPT ![a].at = "define", ![a].previous = gate.recorded]
    /\ gate' = [gate EXCEPT !.recorded = adopter[a].scope]
    /\ UNCHANGED <<known, drawn, sessions, tracked, issued>>

\* the engine's own definition, where nothing is locked yet
Installed(a) == [doc EXCEPT !.minter = Engines(adopter[a].scope)]

\* define_locked_scope: defined, or refused by what is there, and then the
\* earlier record is restored
Define(a) ==
    /\ adopter[a].at = "define"
    /\ IF doc.minter = NoMinter
       THEN /\ doc' = Installed(a)
            /\ known' = known \cup {adopter[a].scope}
            /\ To(a, "verify") /\ UNCHANGED gate
       ELSE /\ adopter' = [adopter EXCEPT ![a].at = "refused"]
            /\ gate' = [gate EXCEPT !.holder = Nobody, !.recorded = adopter[a].previous]
            /\ UNCHANGED <<doc, known>>
    /\ UNCHANGED <<drawn, sessions, tracked, issued>>

\* the answer is lost and the record with it (a mutant of DefineLost)
DefineForgot(a) ==
    /\ adopter[a].at = "define" /\ doc.minter = NoMinter
    /\ \/ doc' = Installed(a) /\ known' = known \cup {adopter[a].scope}
       \/ UNCHANGED <<doc, known>>
    /\ To(a, "failed")
    /\ gate' = [gate EXCEPT !.holder = Nobody, !.recorded = adopter[a].previous]
    /\ UNCHANGED <<drawn, sessions, tracked, issued>>

\* the answer is lost, whether or not the define ran: the candidate stays
DefineLost(a) ==
    /\ adopter[a].at = "define" /\ doc.minter = NoMinter
    /\ \/ doc' = Installed(a) /\ known' = known \cup {adopter[a].scope}
       \/ UNCHANGED <<doc, known>>
    /\ Failed(a, FALSE)
    /\ UNCHANGED <<drawn, sessions, tracked, issued>>

Verify(a) ==
    /\ adopter[a].at = "verify"
    /\ IF doc.minter.scope = adopter[a].scope /\ doc.minter # NoMinter
       THEN Prepared(a) ELSE Failed(a, TRUE)
    /\ UNCHANGED <<doc, known, drawn, sessions, tracked, issued>>

\* any other command times out or fails
Fault(a) ==
    /\ adopter[a].at \in {"register", "ran", "claimed", "recheck", "mint", "claim",
                          "verify"}
    /\ Failed(a, FALSE)
    /\ UNCHANGED <<doc, known, drawn, sessions, tracked, issued>>

\* adopt_page's error: the target is left alone, the handle's session ends
AdoptFails(a) ==
    /\ adopter[a].at \in {"failed", "refused"}
    /\ adopter' = [adopter EXCEPT ![a] = Unadopted]
    /\ sessions' = sessions \ {a}
    /\ UNCHANGED <<doc, known, drawn, gate, tracked, issued>>
-------------------------------------------------------------------------------
(* adopt_page registers the handle, or hands back the one it displaced.    *)
Insert(a) ==
    LET c == adopter[a].ctx
    IN /\ adopter[a].at = "insert"
       /\ tracked' = [tracked EXCEPT ![c] = a]
       /\ adopter' = [adopter EXCEPT ![a].at = "held",
                        ![a].handle = IF tracked[c] = Nobody THEN a ELSE tracked[c]]
       /\ UNCHANGED <<doc, known, drawn, gate, sessions, issued>>

\* close_page of a surface that is not the context's: the registration
\* goes, the gate stays with the target
Release(a) ==
    /\ adopter[a].at = "held"
    /\ adopter' = [adopter EXCEPT ![a] = Unadopted]
    /\ tracked' = [tracked EXCEPT ![adopter[a].ctx] = Nobody]
    /\ sessions' = sessions \ {a}
    /\ UNCHANGED <<doc, known, drawn, gate, issued>>
-------------------------------------------------------------------------------
(* The serializer *)

\* pruneRefs forgets whatever it has numbered (a mutant of Kept)
KeptNone(d) == IF Cardinality(d.reverse) < SweepAt THEN d.reverse ELSE {}

\* pruneRefs: at the threshold, references of collected elements go
Kept(d) == IF Cardinality(d.reverse) < SweepAt THEN d.reverse
           ELSE {e \in d.reverse : e \notin d.gone}

\* one count for every document (a mutant of Reference)
ReferenceBare(scope, n) == <<0, n>>

\* refFor: the counter and the document's scope
Reference(scope, n) == <<scope, n>>

\* ensureRefStore and refFor, for one element after the other; a document
\* without a minter hands out none
Snapshot(a, e) ==
    /\ adopter[a].at = "held" /\ e \notin doc.gone
    /\ doc.minter # NoMinter
    /\ LET scope == IF doc.scope = 0 THEN doc.minter.scope ELSE doc.scope
           new   == doc.refs[e] = 0
           n     == IF new THEN doc.counter + 1 ELSE doc.refs[e]
           kept  == Kept(doc)
       IN /\ doc' = [doc EXCEPT !.scope = scope, !.refs[e] = n,
                                !.counter = IF new THEN n ELSE @,
                                !.reverse = IF new THEN kept \cup {e} ELSE kept]
          /\ issued' = issued \cup {[ref |-> Reference(scope, n), doc |-> doc.n, element |-> e]}
    /\ UNCHANGED <<known, drawn, gate, sessions, adopter, tracked>>

ScopeNext ==
    \/ Navigate \/ \E e \in Elements : Collect(e)
    \/ \E a \in Adopters :
          \/ \E c \in Contexts : Enter(a, c)
          \/ Register(a) \/ Ran(a) \/ Locked(a) \/ Claimed(a) \/ Recheck(a) \/ Mint(a)
          \/ Claim(a) \/ Define(a) \/ DefineLost(a) \/ Verify(a) \/ Fault(a) \/ AdoptFails(a)
          \/ Insert(a) \/ Release(a)
          \/ \E e \in Elements : Snapshot(a, e)

ScopeSpec == ScopeInit /\ [][ScopeNext]_scopeVars
-------------------------------------------------------------------------------
(* Every part of the state has its type (context.rs, page.rs).             *)
ScopeTypes ==
    /\ doc.n \in 1 .. MaxDocs /\ doc.minter.scope \in 0 .. drawn /\ doc.claim \in 0 .. drawn
    /\ doc.gone \subseteq Elements /\ doc.reverse \subseteq Elements
    /\ known \subseteq 1 .. drawn /\ drawn \in 0 .. MaxScopes
    /\ gate.holder \in Adopters \cup {Nobody} /\ gate.recorded \in 0 .. drawn
    /\ sessions \subseteq Adopters
    /\ tracked \in [Contexts -> Adopters \cup {Nobody}]
    /\ \A a \in Adopters : adopter[a].at \in
          {"idle", "register", "ran", "locked", "claimed", "recheck", "mint", "claim",
           "define", "verify", "insert", "held", "failed", "refused"}

\* what a reference resolves to in the document shown (resolver.rs)
Resolve(ref) ==
    {e \in doc.reverse \ doc.gone : Reference(doc.scope, doc.refs[e]) = ref}

(* serializer.js, mintScope: a stale reference must not "silently resolve  *)
(* to the other page's own e17": whoever adopts, however documents come    *)
(* and go, a reference resolves to the element it was handed out for, as   *)
(* long as that lives in the document shown, and else to nothing.          *)
Faithful ==
    \A i \in issued :
        Resolve(i.ref) = IF i.doc = doc.n /\ i.element \notin doc.gone THEN {i.element} ELSE {}

(* References are faithful, and the state they are kept in has its types   *)
(* (serializer.js; context.rs, prepare_once).                              *)
RefsFaithful == ScopeTypes /\ Faithful

(* prepare_once: an engine's define never meets the engine's own install   *)
(* in a document that stayed the same while it was prepared, whether the   *)
(* install was another context's or one whose answer was lost.             *)
OwnInstallKnown ==
    \A a \in Adopters :
        adopter[a].at = "refused" /\ adopter[a].clean /\ adopter[a].began = doc.n =>
            doc.minter.by = "page"

(* context.rs: a define "whose answer was lost ... leaves the candidate    *)
(* remembered and a retry takes path 2 instead of defining a second time": *)
(* a preparation that meets no failure of its own, on a document that      *)
(* stays and holds no minter of the page's, succeeds.  The code does not   *)
(* keep this: a claim whose define never ran is verified, and the minter   *)
(* that is missing fails the retry like a lost answer.                     *)
RetryRecovers ==
    \A a \in Adopters :
        adopter[a].at = "failed" /\ adopter[a].clean /\ adopter[a].began = doc.n =>
            doc.minter.by = "page"

(* adopt_page: "re-adopting must hand back the same handle": a handle that *)
(* was handed out is the one its context has registered.  The code does    *)
(* not keep this: two adoptions that both found none registered in turn    *)
(* each insert theirs, and the second caller is given the displaced one.   *)
OneHandle ==
    \A a \in Adopters : adopter[a].at = "held" =>
        tracked[adopter[a].ctx] \in {adopter[a].handle, Nobody}
===============================================================================
