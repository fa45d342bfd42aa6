---------------------------- MODULE EgressProxy ----------------------------
(***************************************************************************)
(* The egress proxy of a session (sandbox proxy.rs): the CONNECT requests  *)
(* of its client connections, held to the grant's hosts, vetted, connected *)
(* and carried, until the proxy is dropped.                                *)
(***************************************************************************)
EXTENDS Naturals, Sequences, SequencesExt, FiniteSets

CONSTANTS
    Conns,     \* client connections
    Requests,  \* [method, host]: a host is [address, labels], or None without host:port
    Answers,   \* what a name may resolve to: sets of addresses, {} where it fails
    Held,      \* what the interfaces may hold: sets of addresses
    Ranges,    \* the ranges each address is in
    V6,        \* the addresses of version 6
    Carries,   \* the v4 address a v6 address carries, or None
    Lower,     \* each label in lower case
    None

\* DeniedAddress: the classes of an address, in the order asked.
OrderV4 == <<"unspecified", "loopback", "broadcast", "metadata", "link_local", "multicast">>
OrderV6 == <<"unspecified", "loopback", "metadata", "link_local", "multicast">>
OrderOf(a) == IF a \in V6 THEN OrderV6 ELSE OrderV4

\* A loopback address is in no other range. Of the v6 addresses that carry one of v4,
\* mapped or compatible, only :: and ::1 are in a range themselves, an interface holds
\* none but these, and none holds what ::1 carries.
ASSUME AddressAssumption ==
    /\ None \notin DOMAIN Ranges \cup {"own"} \cup {OrderV4[i] : i \in DOMAIN OrderV4}
    /\ \A a \in DOMAIN Ranges :
        /\ Ranges[a] \subseteq {OrderOf(a)[i] : i \in DOMAIN OrderOf(a)}
        /\ "loopback" \in Ranges[a] => Ranges[a] = {"loopback"}
        /\ Carries[a] \in (DOMAIN Ranges \ V6) \cup {None}
        /\ Carries[a] # None => Ranges[a] \subseteq {"unspecified", "loopback"}
        /\ Carries[a] # None /\ Ranges[a] = {} => \A held \in Held : a \notin held
        /\ Carries[a] # None /\ "loopback" \in Ranges[a] =>
             Ranges[Carries[a]] = {} /\ \A held \in Held : Carries[a] \notin held
    /\ \A answer \in Answers : answer \subseteq DOMAIN Ranges
    /\ \A r \in Requests : r.host # None => r.host.address \in DOMAIN Ranges \cup {None}
    /\ None \notin Requests

VARIABLES
    proxy,     \* "unbound", "bound", or "aborted" as the Proxy is dropped
    listed,    \* Allowlist: the entries, parsed
    own,       \* the addresses the interfaces hold right now
    pc,        \* where each connection stands
    request,   \* its last request
    seen,      \* the host's addresses as that request read them
    left,      \* the addresses still to try
    upstream   \* what its tunnel is connected to, or None

connVars == <<pc, request, seen, left, upstream>>
proxyVars == <<proxy, listed, own, connVars>>

ProxyInit ==
    /\ proxy = "unbound" /\ listed = {} /\ own \in Held
    /\ pc = [c \in Conns |-> "none"]
    /\ request = [c \in Conns |-> None]
    /\ seen = [c \in Conns |-> {}]
    /\ left = [c \in Conns |-> {}]
    /\ upstream = [c \in Conns |-> None]

-----------------------------------------------------------------------------
Lowered(labels) == [i \in DOMAIN labels |-> Lower[labels[i]]]

\* Entry::parse: a literal, `*.suffix`, or a whole name.
EntryOf(text) ==
    LET labels == Lowered(text.labels) IN
    IF text.address # None THEN [form |-> "literal", address |-> text.address]
    ELSE IF Len(labels) > 1 /\ Head(labels) = "*"
         THEN [form |-> "suffix", name |-> Tail(labels)]
         ELSE [form |-> "exact", name |-> labels]

EntryAdmits(entry, labels) ==
    \/ entry.form = "exact" /\ labels = entry.name
    \/ entry.form = "suffix" /\ IsSuffix(entry.name, labels)

\* Allowlist::admits: an address only as a listed literal, a name by its entries.
Admits(host) ==
    IF host.address # None
    THEN [form |-> "literal", address |-> host.address] \in listed
    ELSE \E entry \in listed : EntryAdmits(entry, Lowered(host.labels))

\* DeniedAddress::of_v4, of_v6: the first class, in the order asked, an address is of.
ClassOf(a) ==
    LET of == {i \in DOMAIN OrderOf(a) : OrderOf(a)[i] \in Ranges[a]}
    IN  IF of = {} THEN None ELSE OrderOf(a)[CHOOSE i \in of : \A k \in of : i <= k]

\* DeniedAddress::of: a v4 address carried in v6 is classed as what it carries.
Denied(a, held) ==
    LET b == IF Carries[a] # None /\ Ranges[a] \cap {"unspecified", "loopback"} = {}
             THEN Carries[a] ELSE a
    IN  IF ClassOf(b) # None THEN ClassOf(b)
        ELSE IF b \in held THEN "own" ELSE None

\* literal: loopback is the mirror a literal exists to name.
Literal(a, held) == Denied(a, held) \in {None, "loopback"}

\* vetted: the resolved addresses that are not denied.
Vetted(resolved, held) == {a \in resolved : Denied(a, held) = None}

-----------------------------------------------------------------------------
Move(c, from, to) == pc[c] \in from /\ pc' = [pc EXCEPT ![c] = to]

\* What a request holds until it is answered or its tunnel is closed.
Holds(c, r, held, addresses) ==
    /\ request' = [request EXCEPT ![c] = r]
    /\ seen' = [seen EXCEPT ![c] = held]
    /\ left' = [left EXCEPT ![c] = addresses]

\* answer: a status and no tunnel; the connection takes its next request.
Answer(c, from) == Move(c, from, "serving") /\ Holds(c, None, {}, {})

\* serve: a connection is accepted.  A serve task cancelled while it is polled may
\* accept one more.  A failed accept is retried and changes nothing.
Accept(c) ==
    /\ proxy # "unbound"
    /\ Move(c, {"none"}, "serving")
    /\ UNCHANGED <<proxy, listed, own, request, seen, left, upstream>>

\* handle, up to its first await: refused as not CONNECT (405), as without host:port
\* (400), as not listed or a denied literal (403); else connected or resolved.
RefusedAtOnce(r, held) ==
    \/ r.method # "CONNECT"
    \/ r.host = None
    \/ ~Admits(r.host)
    \/ r.host.address # None /\ ~Literal(r.host.address, held)

\* own: none where they cannot be read.
Handle(c, r) ==
    \E held \in {own, {}} :
        /\ IF RefusedAtOnce(r, held) THEN Answer(c, {"serving"})
           ELSE IF r.host.address # None
           THEN Move(c, {"serving"}, "connecting") /\ Holds(c, r, held, {r.host.address})
           ELSE Move(c, {"serving"}, "resolving") /\ Holds(c, r, held, {})
        /\ UNCHANGED <<proxy, listed, own, upstream>>

\* vetted, once the lookup is back.  A name that resolves to nothing is unreachable
\* (502), one of which every address is denied is refused (403).
Resolved(c, resolved) ==
    LET passed == Vetted(resolved, seen[c]) IN
    /\ IF passed = {} THEN Answer(c, {"resolving"})
       ELSE Move(c, {"resolving"}, "connecting") /\ Holds(c, request[c], seen[c], passed)
    /\ UNCHANGED <<proxy, listed, own, upstream>>

\* connect: the addresses in turn, in whichever order they were resolved, each held to
\* CONNECT_BOUND; unreachable (502) with the last of them.
ConnectFails(c) ==
    /\ \E a \in left[c] :
         IF left[c] = {a} THEN Answer(c, {"connecting"})
         ELSE /\ Move(c, {"connecting"}, "connecting")
              /\ Holds(c, request[c], seen[c], left[c] \ {a})
    /\ UNCHANGED <<proxy, listed, own, upstream>>

\* The upstream is connected before the client hears 200.
Connects(c) ==
    /\ Move(c, {"connecting"}, "upgrading")
    /\ \E a \in left[c] : upstream' = [upstream EXCEPT ![c] = a]
    /\ Holds(c, request[c], seen[c], {})
    /\ UNCHANGED <<proxy, listed, own>>

\* Tunnel::carry: the upgrade resolves once the connection has been served.
Carry(c) ==
    /\ Move(c, {"upgrading"}, "carrying")
    /\ UNCHANGED <<proxy, listed, own, request, seen, left, upstream>>

Close(c, from) ==
    /\ Move(c, from, "ended")
    /\ upstream' = [upstream EXCEPT ![c] = None]
    /\ Holds(c, None, {}, {})
    /\ UNCHANGED <<proxy, listed, own>>

Open == {"serving", "resolving", "connecting", "upgrading", "carrying"}

\* The client leaves, the upgrade fails, or either end closes the tunnel.
Leaves(c) == Close(c, Open)

\* The connections are tasks of the server's set: they go down with it, each at
\* its next await.
Cancel(c) == proxy = "aborted" /\ Close(c, Open)

\* The host's interfaces change under the requests.
Interfaces ==
    /\ own' \in Held \ {own}
    /\ UNCHANGED <<proxy, listed, connVars>>

ConnStep(c) ==
    \/ Accept(c) \/ ConnectFails(c) \/ Connects(c) \/ Carry(c) \/ Leaves(c) \/ Cancel(c)
    \/ \E r \in Requests : Handle(c, r)
    \/ \E resolved \in Answers : Resolved(c, resolved)

-----------------------------------------------------------------------------
ProxyTypeOK ==
    /\ proxy \in {"unbound", "bound", "aborted"} /\ own \in Held
    /\ \A c \in Conns :
        /\ pc[c] \in Open \cup {"none", "ended"}
        /\ request[c] \in Requests \cup {None} /\ seen[c] \in Held \cup {{}}
        /\ left[c] \subseteq DOMAIN Ranges /\ upstream[c] \in DOMAIN Ranges \cup {None}

\* Where a packet sent to an address arrives: at it, or at what it carries.
Arrives(a) == {a, Carries[a]} \ {None}

\* A tunnel leads where the grant and the vetting of its own request let it: for a
\* name to no address of a denied range, nor one the host was seen to hold; for a
\* literal to the literal itself, of which loopback alone may be denied to a name.  Its client
\* heard 200 with the upstream there, and one that heard anything else, or left, has
\* no upstream.
TunnelsVetted ==
    \A c \in Conns :
        IF upstream[c] = None
        THEN pc[c] \notin {"upgrading", "carrying"}
        ELSE /\ pc[c] \in {"upgrading", "carrying"} /\ request[c].method = "CONNECT"
             /\ IF request[c].host.address # None
                THEN /\ upstream[c] = request[c].host.address
                     /\ \A a \in Arrives(upstream[c]) :
                            /\ Ranges[a] \subseteq {"loopback"}
                            /\ a \in seen[c] => Ranges[a] # {}
                ELSE \A a \in Arrives(upstream[c]) :
                        Ranges[a] = {} /\ a \notin seen[c]

=============================================================================
