---------------------------- MODULE MCApprovals -----------------------------
(***************************************************************************)
(* Supervision of a session: approvals, the events a dashboard client      *)
(* follows them by, and the dashboards it reaches.  Approvals: two         *)
(* spellings of one shop, a URL with credentials in it, a bank; rules in   *)
(* the order a document lists them.                                        *)
(* The modules share no state here: part says which one a behaviour        *)
(* exercises, the others stay as they began.                               *)
(***************************************************************************)
EXTENDS Approvals, EventPromises, DashboardAccess, PolicyInputs, SequencesExt, TLC

CONSTANT Sessions

VARIABLES part, closing, busy

Events == INSTANCE EventStream WITH
    RingCapacity <- 2, ChannelCapacity <- 2, MaxEvents <- 4, MaxDue <- 0

ASSUME Events!CapacityAssumption
ASSUME InputsAreBytes /\ ConfigAssumption

eventVars  == <<log, rings, opened, closing, busy, ws>>
all == <<part, vars, eventVars, accessVars, policyVars>>

\* every pattern of up to 4 bytes and every text of up to 3
MCBytes    == {"a", "/", SchemeEnd, "*"}
MCPatterns == BoundedSeq(MCBytes, 4)
MCTexts    == BoundedSeq(MCBytes \ {"*"}, 3)

\* every file of one entry or none, typing errors in values and in keys and
\* windows past the bounds among them, and of two entries with nothing else;
\* the other parts rest on one that is refused
NoFile  == [default |-> "typo", timeout |-> Omitted, rules |-> <<>>, misspelled |-> {}]
Entries == [class : {Omitted, "pointer", "typo"},
            pattern : {Omitted, <<>>, <<SchemeEnd, "*">>, <<"a", "*">>},
            verdict : {"allow", "deny", "typo"},
            misspelled : {{}} \cup {{key} : key \in {"class", "pattern", "verdict"}}]
MCFiles ==
    [default : {Omitted, "deny", "typo"},
     timeout : {Omitted, 0, 1, MAX_APPROVAL_TIMEOUT_MS, MAX_APPROVAL_TIMEOUT_MS + 1},
     rules : BoundedSeq(Entries, 1),
     misspelled : {{}} \cup {{key} : key \in {"default", "timeout", "rules"}}]
    \cup [default : {Omitted}, timeout : {Omitted},
          rules : [1 .. 2 -> {e \in Entries : EntryParses(e) \/ e.misspelled # {}}],
          misspelled : {{}}]

\* the events do not tell one page from another
MCInit ==
    /\ part \in {"approvals", "events", "access", "match", "file"}
    /\ part = "file" \/ (part # "file" /\ toml = NoFile)
    /\ part = "match" \/ (part # "match" /\ pattern = <<>> /\ text = <<>>)
    /\ part = "approvals" \/ (part # "approvals" /\ page = "bank")
    /\ part = "access" \/ (part # "access" /\ terminal = {})
    /\ Init /\ Events!Init /\ AccessInit /\ PolicyInit
\* peers that vanish are in MCLives: what they are sent is the same
MCNext ==
    \/ part = "approvals" /\ Next /\ UNCHANGED <<part, eventVars, accessVars, policyVars>>
    \/ part = "events" /\ Events!Next /\ ws'.peer = "alive"
       /\ UNCHANGED <<part, vars, accessVars, policyVars>>
    \/ part = "access" /\ AccessNext /\ UNCHANGED <<part, vars, eventVars, policyVars>>
    \/ part = "match" /\ PolicyNext /\ UNCHANGED <<part, vars, eventVars, accessVars>>
MCSpec == MCInit /\ [][MCNext]_all

MCRaw   == {"shop", "SHOP:443", "bank", "user@shop"}
MCCanon == [r \in MCRaw \cup {NoUrl} |->
              CASE r \in {"shop", "SHOP:443"} -> "shop"
                [] r = "bank" -> "bank"
                [] OTHER -> NoUrl]

Site(u)    == {u}
Everywhere == {"shop", "bank", NoUrl}

\* pointer actions are denied at the bank and everything else there is asked
\* about, cookies are asked about everywhere, the shop may be navigated to
MCRules == <<[class |-> "pointer",    urls |-> Site("bank"), verdict |-> "deny"],
             [class |-> "any",        urls |-> Site("bank"), verdict |-> "require_approval"],
             [class |-> "cookies",    urls |-> Everywhere, verdict |-> "require_approval"],
             [class |-> "navigation", urls |-> Site("shop"), verdict |-> "allow"]>>

Symmetry == Permutations(Calls) \cup Permutations(Sessions)
=============================================================================
