---------------------------- MODULE StorageDump -----------------------------
(***************************************************************************)
(* crates/session/src/storage.rs: the localStorage a capture reads, and     *)
(* what a restore finds of it.  The pages are grouped by the string the     *)
(* registry pairs them with, all groups are asked at once, the pages of one *)
(* group one after the other until one answers, and the entries stand in    *)
(* the order in which the registry first names their groups.  The code      *)
(* calls the string an origin; PageRegistry::pairs gives the tracked URL.   *)
(***************************************************************************)
EXTENDS Naturals, Sequences

CONSTANTS Urls,      \* the URLs a page may be at
          Site,      \* the origin of each
          Pairs      \* the lists of tracked URLs a capture may be given

ASSUME PairsAssumption == Pairs \subseteq Seq(Urls)

VARIABLES
    pairs,     \* the URL tracked for each page, by its place in the registry
    grouped,   \* how many of the pages origins_in_order has seen
    groups,    \* url, pages; asked: how many of them were, taken: whose answer, or 0
    silent,    \* history: pages that were asked and did not answer
    collected, \* how many of the answers were collected
    dump,      \* StorageState::origins: the URL and the page of each entry
    restored   \* the page the entries were restored on: its URL, whose entry, or 0

dumpVars == <<pairs, grouped, groups, silent, collected, dump, restored>>

DumpInit ==
    /\ pairs \in Pairs
    /\ grouped = 0 /\ groups = <<>> /\ silent = {}
    /\ collected = 0 /\ dump = <<>>
    /\ restored = {}

\* Mutant: a known group keeps the page that came last.
JoinLast(group, page) == [group EXCEPT !.pages = <<page>>]

Join(group, page) == [group EXCEPT !.pages = Append(@, page)]

\* origins_in_order, a turn of its loop
Group ==
    /\ grouped < Len(pairs)
    /\ grouped' = grouped + 1
    /\ LET url == pairs[grouped']
           known == {k \in DOMAIN groups : groups[k].url = url}
       IN  groups' = IF known = {}
                     THEN Append(groups, [url |-> url, pages |-> <<grouped'>>,
                                          asked |-> 0, taken |-> 0])
                     ELSE [k \in DOMAIN groups |->
                             IF k \in known THEN Join(groups[k], grouped') ELSE groups[k]]
    /\ UNCHANGED <<pairs, silent, collected, dump, restored>>

Ended(k) == groups[k].taken # 0 \/ groups[k].asked = Len(groups[k].pages)

\* the page of group k that is being asked
Asked(k) == groups[k].pages[groups[k].asked + 1]

Asking(k) == grouped = Len(pairs) /\ k \in DOMAIN groups /\ ~Ended(k)

Answer(k) ==
    /\ Asking(k)
    /\ groups' = [groups EXCEPT ![k].asked = @ + 1, ![k].taken = Asked(k)]
    /\ UNCHANGED <<pairs, grouped, silent, collected, dump, restored>>

\* Mutant: only the first page of a group is asked.
NextAskedNever(k) == [groups EXCEPT ![k].asked = Len(groups[k].pages)]

NextAsked(k) == [groups EXCEPT ![k].asked = @ + 1]

\* the evaluate fails, or its answer is no dump: the next page has its turn
Refuse(k) ==
    /\ Asking(k)
    /\ groups' = NextAsked(k)
    /\ silent' = silent \cup {Asked(k)}
    /\ UNCHANGED <<pairs, grouped, collected, dump, restored>>

\* join_all has every answer; a group without one leaves no entry
Collect ==
    /\ grouped = Len(pairs) /\ \A k \in DOMAIN groups : Ended(k)
    /\ collected < Len(groups)
    /\ collected' = collected + 1
    /\ LET group == groups[collected']
       IN  dump' = IF group.taken = 0 THEN dump
                   ELSE Append(dump, [url |-> group.url, page |-> group.taken])
    /\ UNCHANGED <<pairs, grouped, groups, silent, restored>>

Dumped == grouped = Len(pairs) /\ collected = Len(groups)

\* restore_origins on one page, which says what URL it is at
RestoreOn(url) ==
    LET entries == {dump[d].page : d \in {d \in DOMAIN dump : dump[d].url = url}} IN
    /\ Dumped
    /\ \/ entries = {} /\ restored' = {[url |-> url, entry |-> 0]}
       \/ \E page \in entries : restored' = {[url |-> url, entry |-> page]}
    /\ UNCHANGED <<pairs, grouped, groups, silent, collected, dump>>

DumpNext ==
    \/ Group \/ Collect
    \/ \E k \in DOMAIN groups : Answer(k) \/ Refuse(k)
    \/ \E url \in Urls : RestoreOn(url)

DumpSpec == DumpInit /\ [][DumpNext]_dumpVars
---------------------------------------------------------------------------
(* Whatever order the pages answer in, each URL with a page that answers    *)
(* has one entry, from the first of its pages that does; the entries stand  *)
(* in the order in which the registry first names their URLs; and a page    *)
(* at the URL of an entry is given it (dump_origins, restore_origins).      *)
DumpsEachUrl ==
    Dumped =>
        /\ {dump[d].page : d \in DOMAIN dump} =
              {i \in DOMAIN pairs : /\ i \notin silent
                                    /\ \A j \in 1 .. i - 1 : pairs[j] = pairs[i] => j \in silent}
        /\ \A d \in DOMAIN dump : pairs[dump[d].page] = dump[d].url
        /\ \A c, d \in DOMAIN dump :
              c < d => \E i \in DOMAIN pairs :
                          /\ pairs[i] = dump[c].url
                          /\ \A j \in 1 .. i : pairs[j] # dump[d].url
        /\ \A r \in restored :
              r.entry = 0 => \A d \in DOMAIN dump : dump[d].url # r.url

(* A page whose origin matches an entry is given it (storage.rs, what       *)
(* `restore` says of itself).                                               *)
RestoresItsOrigin ==
    \A r \in restored :
        (\E d \in DOMAIN dump : Site[dump[d].url] = Site[r.url]) => r.entry # 0
=============================================================================
