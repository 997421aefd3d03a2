---------------------------- MODULE AccessControl ----------------------------
(***************************************************************************)
(* Who may read @@metrics (metrics/access.py).  The address that is        *)
(* compared with the allow-list is the peer's, or, if the peer is a        *)
(* trusted proxy, the rightmost entry of X-Forwarded-For that is an        *)
(* address and not a trusted proxy.  The code finds it by walking the      *)
(* chain from right to left.                                               *)
(*                                                                         *)
(* A network is represented by the set of addresses it contains, a list of *)
(* networks by their union, which has Junk if an entry is no network.  The *)
(* states are those of one call of is_allowed, for every configuration,    *)
(* peer and header.                                                        *)
(***************************************************************************)
EXTENDS Integers, Sequences

CONSTANTS
    Addrs,       \* IP addresses
    Junk,        \* text that is not an IP address
    MaxHops      \* bound on the entries of X-Forwarded-For

ASSUME HopsAssumption == MaxHops \in Nat
ASSUME JunkAssumption == Junk \notin Addrs

Entries == Addrs \cup {Junk}
Headers == UNION {[1..n -> Entries] : n \in 0..MaxHops}

VARIABLES
    allowlist,   \* PLONE_OBSERVABILITY_METRICS_ALLOWLIST
    trusted,     \* PLONE_OBSERVABILITY_TRUSTED_PROXIES
    peer,        \* REMOTE_ADDR
    forwarded,   \* X-Forwarded-For, split
    pc,          \* where the call is
    i,           \* the entry of the chain to be looked at
    client,      \* client_ip_str
    answer       \* what is_allowed returns, unless it has raised

request == <<allowlist, trusted, peer, forwarded>>
vars == <<request, pc, i, client, answer>>

Init ==
    /\ allowlist \in SUBSET Entries
    /\ trusted \in SUBSET Entries
    /\ peer \in Entries
    /\ forwarded \in Headers
    /\ pc = "allowlist"
    /\ i = 0
    /\ client = Junk
    /\ answer = FALSE

Goto(from, to) == pc = from /\ pc' = to

\* No allow-list, no restriction.
Unrestricted ==
    /\ allowlist = {}
    /\ Goto("allowlist", "done")
    /\ answer' = TRUE
    /\ UNCHANGED <<request, i, client>>

\* ip_network() refuses an entry of either list, and is_allowed raises.  The
\* trusted proxies are not read when there is no allow-list.
Readable == Junk \notin allowlist \cup trusted

Misconfigured ==
    /\ allowlist # {} /\ ~Readable
    /\ Goto("allowlist", "raised")
    /\ UNCHANGED <<request, i, client, answer>>

\* The peer is not an address, is no proxy, or has forwarded for nobody.
FromPeer ==
    /\ allowlist # {} /\ Readable
    /\ (peer \notin trusted \/ forwarded = <<>>)
    /\ Goto("allowlist", "decide")
    /\ client' = peer
    /\ UNCHANGED <<request, i, answer>>

FromProxy ==
    /\ allowlist # {} /\ Readable
    /\ peer \in trusted /\ forwarded # <<>>
    /\ Goto("allowlist", "walk")
    /\ i' = Len(forwarded)
    /\ UNCHANGED <<request, client, answer>>

\* Mutant: an unreadable entry ends the chain.
SkipTrustedOnly ==
    /\ pc = "walk" /\ i > 0
    /\ forwarded[i] = Junk \/ forwarded[i] \in trusted
    /\ i' = IF forwarded[i] = Junk THEN 0 ELSE i - 1
    /\ UNCHANGED <<request, pc, client, answer>>

\* "continue", or a trusted proxy.
Skip ==
    /\ pc = "walk" /\ i > 0
    /\ forwarded[i] = Junk \/ forwarded[i] \in trusted
    /\ i' = i - 1
    /\ UNCHANGED <<request, pc, client, answer>>

Found ==
    /\ i > 0
    /\ forwarded[i] # Junk /\ forwarded[i] \notin trusted
    /\ Goto("walk", "decide")
    /\ client' = forwarded[i]
    /\ UNCHANGED <<request, i, answer>>

Exhausted ==
    /\ i <= 0
    /\ Goto("walk", "decide")
    /\ client' = peer
    /\ UNCHANGED <<request, i, answer>>

Decide ==
    /\ Goto("decide", "done")
    /\ answer' = (client # Junk /\ client \in allowlist)
    /\ UNCHANGED <<request, i, client>>

Next ==
    \/ Unrestricted \/ Misconfigured \/ FromPeer \/ FromProxy
    \/ Skip \/ Found \/ Exhausted \/ Decide

Spec == Init /\ [][Next]_vars

-----------------------------------------------------------------------------

TypeOK ==
    /\ allowlist \subseteq Entries
    /\ trusted \subseteq Entries
    /\ peer \in Entries
    /\ forwarded \in Headers
    /\ pc \in {"allowlist", "walk", "decide", "done", "raised"}
    /\ i \in 0..MaxHops
    /\ client \in Entries
    /\ answer \in BOOLEAN

\* The entries of the chain that are addresses of untrusted hosts.
Outside == {k \in DOMAIN forwarded : forwarded[k] \in Addrs \ trusted}

\* x is the address the request comes from.
ComesFrom(x) ==
    IF peer \in trusted /\ Outside # {}
    THEN \E k \in Outside : x = forwarded[k] /\ \A j \in Outside : j <= k
    ELSE x = peer

(* The answer is the membership of the address the request comes from: the  *)
(* nearest untrusted host of the chain, whatever unreadable or trusted      *)
(* entries stand between and whatever stands before it.  With lists that    *)
(* cannot be read there is no answer.                                       *)
AnswersForTheClient ==
    /\ pc = "done" =>
           answer = (allowlist = {} \/ \E x \in allowlist : ComesFrom(x))
    /\ pc \in {"done", "raised"} =>
           (pc = "raised" <=> allowlist # {} /\ Junk \in allowlist \cup trusted)

=============================================================================
