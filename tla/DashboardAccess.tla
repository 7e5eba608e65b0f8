--------------------------- MODULE DashboardAccess ---------------------------
(***************************************************************************)
(* How a human reaches a dashboard (crates/dashboard/src/lib.rs, auth.rs): *)
(* several rutter processes bind ports of one machine and hand their       *)
(* access URL over, a browser follows it and keeps the cookie it was       *)
(* given, and the pages it has open answer the approvals they show.        *)
(* Approval ids count from one in every process, so an id does not tell    *)
(* whose brief was answered; the gate has to.                              *)
(***************************************************************************)
EXTENDS Naturals, FiniteSets, SequencesExt

CONSTANTS
    Instances,   \* rutter processes with a dashboard
    Ports,       \* loopback ports
    Tabs,        \* of the browser
    None

ASSUME AccessAssumption ==
    /\ None \notin Instances /\ None \notin Ports
    /\ None \notin [scheme : {"http"}, port : Ports \cup {None}]
    /\ Ports \subseteq 1 .. 65535

VARIABLES
    terminal,    \* the instances whose stderr is a terminal
    server,      \* where each instance's DashboardServer stands
    urlFile,     \* dashboard-access-<port>.url: whose URL it holds
    printed,     \* the ports a terminal was told, with the token
    cookies,     \* what a request sends as rutter_token, in header order
    tab,         \* each tab's page: its port, the token of its URL, its cards
    taken        \* history: answers a broker took, and the request they were for

accessVars == <<terminal, server, urlFile, printed, cookies, tab, taken>>
-------------------------------------------------------------------------------
Planted == "planted"                  \* a rutter_token some other server set
Closed  == [port |-> None, query |-> None, cards |-> {}]

Holds(i, p)   == server[i].port = p /\ server[i].at # "ended"
Serves(i, p)  == server[i] = [at |-> "serving", port |-> p]
Free(p)       == \A i \in Instances : ~Holds(i, p)

AccessInit ==
    /\ terminal \in SUBSET Instances
    /\ server = [i \in Instances |-> [at |-> "new", port |-> None]]
    /\ urlFile = [p \in Ports |-> None]
    /\ printed = {}
    /\ cookies = <<>>
    /\ tab = [t \in Tabs |-> Closed]
    /\ taken = {}
-------------------------------------------------------------------------------
(* bind, and the hand-off under the port it owns. *)

\* mutant: a lost race for the port is no failure
BindLost(i, p) ==
    /\ server[i].at = "new"
    /\ server' = [server EXCEPT ![i] = [at |-> "bound", port |-> p]]
    /\ UNCHANGED <<terminal, urlFile, printed, cookies, tab, taken>>

\* a port somebody holds fails the start instead
Bind(i, p) ==
    /\ server[i].at = "new"
    /\ server' = [server EXCEPT ![i] = IF Free(p) THEN [at |-> "bound", port |-> p]
                                       ELSE [at |-> "ended", port |-> None]]
    /\ UNCHANGED <<terminal, urlFile, printed, cookies, tab, taken>>

\* a terminal is told the URL itself
Announce(i) ==
    /\ server[i].at = "bound" /\ i \in terminal
    /\ server' = [server EXCEPT ![i].at = "serving"]
    /\ printed' = printed \cup {[port |-> server[i].port, token |-> i]}
    /\ UNCHANGED <<terminal, urlFile, cookies, tab, taken>>

\* write_private replaces an earlier copy by removing it
RemoveOld(i) ==
    /\ server[i].at = "bound" /\ i \notin terminal
    /\ server' = [server EXCEPT ![i].at = "removed"]
    /\ urlFile' = [urlFile EXCEPT ![server[i].port] = None]
    /\ UNCHANGED <<terminal, printed, cookies, tab, taken>>

WriteNew(i) ==
    /\ server[i].at = "removed"
    /\ server' = [server EXCEPT ![i].at = "serving"]
    /\ urlFile' = [urlFile EXCEPT ![server[i].port] = i]
    /\ UNCHANGED <<terminal, printed, cookies, tab, taken>>

\* a hand-off that fails fails the start, a listener that fails or a process
\* that ends stops the dashboard; the file stays as it is
End(i) ==
    /\ server[i].at \in {"bound", "removed", "serving"}
    /\ server' = [server EXCEPT ![i].at = "ended"]
    /\ UNCHANGED <<terminal, urlFile, printed, cookies, tab, taken>>
-------------------------------------------------------------------------------
(* The gate of every endpoint.  A request carries the Origin of the page    *)
(* that sent it (None from a script), the token of its query and the        *)
(* browser's cookies.  Its Host is a loopback name, which all ports share.  *)

\* as a browser spells the origin of a page: without the scheme's own port
OriginOf(p) == [scheme |-> "http", port |-> IF p = 80 THEN None ELSE p]

\* mutant: no port reads as no port
PortAsSpelled(origin) == origin.port

EffectivePort(origin) ==
    IF origin.port # None THEN origin.port
    ELSE CASE origin.scheme = "http" -> 80 [] origin.scheme = "https" -> 443

\* origin_allowed: a loopback name and the bound port
OriginAllowed(i, request) ==
    request.origin # None => EffectivePort(request.origin) = server[i].port

\* mutant: matching the host alone, which spans every port
OriginOfHost(i, request) == TRUE

\* cookie_tokens: every copy is answered, not just the first
CookieTokens(request) == ToSet(request.cookies)

\* mutant: the first copy decides
FirstCookie(request) == IF request.cookies = <<>> THEN {} ELSE {Head(request.cookies)}

\* mutant: a query token that does not match leaves it to the cookie
TokenOrCookie(i, request) == i = request.query \/ i \in CookieTokens(request)

\* token_ok: a query token speaks alone
TokenOk(i, request) ==
    IF request.query # None THEN request.query = i ELSE i \in CookieTokens(request)

AccessAllowed(i, request) == OriginAllowed(i, request) /\ TokenOk(i, request)

Request(origin, query) == [origin |-> origin, query |-> query, cookies |-> cookies]
-------------------------------------------------------------------------------
(* The browser. *)

\* a cookie is kept per name and path: the dashboards of a host share the slot,
\* another path's copy sorts ahead
SetCookie(i) == IF Planted \in ToSet(cookies) THEN <<Planted, i>> ELSE <<i>>

Plant ==
    /\ Planted \notin ToSet(cookies)
    /\ cookies' = <<Planted>> \o cookies
    /\ UNCHANGED <<terminal, server, urlFile, printed, tab, taken>>

\* index: the page opens, and the token is exchanged for the cookie
Visit(i, t, p, query) ==
    /\ Serves(i, p)
    /\ AccessAllowed(i, Request(None, query))
    /\ cookies' = SetCookie(i)
    /\ tab' = [tab EXCEPT ![t] = [port |-> p, query |-> query, cards |-> {}]]
    /\ UNCHANGED <<terminal, server, urlFile, printed, taken>>

\* the URL in the file or on the terminal, or a bookmark without the token
OpenPage(i, t, p) ==
    \E query \in {urlFile[p]} \cup {u.token : u \in {v \in printed : v.port = p}} \cup {None} :
        Visit(i, t, p, query)

\* ws_upgrade, and again whenever the socket was lost: the timeline starts over
\* (app.js connect), the approvals on the page stay
Connect(i, t) ==
    /\ Serves(i, tab[t].port)
    /\ AccessAllowed(i, Request(OriginOf(tab[t].port), tab[t].query))
    /\ tab' = [tab EXCEPT ![t].cards = @ \cup {i}]
    /\ UNCHANGED <<terminal, server, urlFile, printed, cookies, taken>>

\* decide: a click on a card posts its id to whoever serves the port now
Answer(i, t, card) ==
    /\ Serves(i, tab[t].port) /\ card \in tab[t].cards
    /\ AccessAllowed(i, Request(OriginOf(tab[t].port), tab[t].query))
    /\ taken' = taken \cup {[of |-> card, at |-> i, byUrl |-> tab[t].query # None]}
    /\ UNCHANGED <<terminal, server, urlFile, printed, cookies, tab>>

\* a page of another port is same-site: its requests carry the cookies too
AnswerAcross(i, p) ==
    /\ Serves(i, server[i].port) /\ p # server[i].port
    /\ AccessAllowed(i, Request(OriginOf(p), None))
    /\ taken' = taken \cup {[of |-> None, at |-> i, byUrl |-> FALSE]}
    /\ UNCHANGED <<terminal, server, urlFile, printed, cookies, tab>>

AccessNext ==
    \/ \E i \in Instances :
          \/ \E p \in Ports : Bind(i, p) \/ AnswerAcross(i, p)
          \/ Announce(i) \/ RemoveOld(i) \/ WriteNew(i) \/ End(i)
          \/ \E t \in Tabs : \/ \E p \in Ports : OpenPage(i, t, p)
                             \/ Connect(i, t)
                             \/ \E card \in Instances : Answer(i, t, card)
    \/ Plant

AccessSpec == AccessInit /\ [][AccessNext]_accessVars
-------------------------------------------------------------------------------
(* Properties. *)

AccessTypes ==
    /\ terminal \subseteq Instances
    /\ server \in [Instances -> [at : {"new", "bound", "removed", "serving", "ended"},
                                 port : Ports \cup {None}]]
    /\ urlFile \in [Ports -> Instances \cup {None}]
    /\ printed \subseteq [port : Ports, token : Instances]
    /\ ToSet(cookies) \subseteq Instances \cup {Planted} /\ Len(cookies) =< 2
    /\ tab \in [Tabs -> [port : Ports \cup {None}, query : Instances \cup {None},
                         cards : SUBSET Instances]]
    /\ taken \subseteq [of : Instances \cup {None}, at : Instances, byUrl : BOOLEAN]

(* While a dashboard without a terminal serves, the file named after its    *)
(* port holds its URL and nobody else's: an instance that lost the race for *)
(* the port, or that failed after a restart, never clobbers it (lib.rs,     *)
(* bind and hand_off).                                                      *)
HandOffHolds ==
    \A i \in Instances \ terminal, p \in Ports : Serves(i, p) => urlFile[p] = i

(* An answer a broker took was given on a page of that dashboard's own      *)
(* port, and one given on a page opened by its access URL was given to a    *)
(* brief of that very process, whichever process owns the port by now.      *)
AnswersOwnBrief ==
    \A d \in taken : /\ d.of # None
                     /\ d.byUrl => d.of = d.at

(* A dashboard's own page is let in on the cookie, on whichever port it     *)
(* serves and whatever cookie another local server has planted before it.   *)
NotShadowed ==
    \A i \in Instances, p \in Ports :
        Serves(i, p) /\ i \in ToSet(cookies) => AccessAllowed(i, Request(OriginOf(p), None))

(* The hand-off file of a serving dashboard holds its own URL, an answer    *)
(* given on a page opened by an access URL is to a brief of the process     *)
(* that takes it, and a planted cookie locks nobody out (lib.rs, hand_off   *)
(* and decide; auth.rs, access_allowed).                                    *)
AnswersReach == AccessTypes /\ HandOffHolds /\ AnswersOwnBrief /\ NotShadowed

(* The same of a page opened by its bare path, which the cookie alone lets  *)
(* in (docs/dashboard.md: later requests authenticate through the cookie).  *)
EveryAnswerOwnBrief == \A d \in taken : d.of = d.at

(* docs/dashboard.md: after the first visit the cookie alone authenticates, *)
(* so the page a tab has open can be opened again by its bare path.         *)
CookieKept ==
    \A i \in Instances, t \in Tabs :
        Serves(i, tab[t].port) /\ tab[t].query = i
            => AccessAllowed(i, Request(OriginOf(tab[t].port), None))
===============================================================================
