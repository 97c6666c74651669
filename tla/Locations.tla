----------------------------- MODULE Locations -----------------------------
(***************************************************************************)
(* Locations entered by their address alone (src/src/lib.rs, `configured`, *)
(* `bind`, `listening`, `post`): a Receive Location listens at the         *)
(* address's authority, a Send Location posts to the URL, and whether they *)
(* meet is decided by two readings of an address that are written apart:   *)
(* Target and a default port here, net::Endpoint there.                    *)
(*                                                                         *)
(* External: net::Endpoint and net::Target, the settings' reader and the   *)
(* sockets, from their use here.                                           *)
(***************************************************************************)
EXTENDS Naturals

CONSTANTS
    Receives,  \* the Receive Locations
    Hosts,     \* the hosts addresses name, all of this machine
    Ports      \* the ports they name

VARIABLES
    entered,   \* entered[l]: the address a Receive Location was entered with
    opened,    \* opened[l]: the HttpTransport it was opened as, or NoLocation
    bound,     \* bound[l]: where it listens, or NoWhere
    post       \* the last post: its URL, who it reached, how it ended

vars == <<entered, opened, bound, post>>

NoPort == 0
ASSUME PortAssumption == Ports \subseteq Nat \ {NoPort}

\* An address as an operator enters it.
Addresses == [scheme : {"http", "https", "none"}, host : Hosts,
              port : Ports \cup {NoPort}]

NoLocation == [secure |-> FALSE]
NoWhere == [port |-> NoPort]
NoPost == [ended |-> "none"]

Init ==
    /\ entered \in [Receives -> Addresses]
    /\ opened = [l \in Receives |-> NoLocation]
    /\ bound = [l \in Receives |-> NoWhere]
    /\ post = NoPost

----------------------------------------------------------------------------
\* Reading an address.

\* Mutant of DefaultPort: the schemes' ports swapped.
DefaultPortSwapped(secure) == IF secure THEN 80 ELSE 443

\* configured: the scheme's port.
DefaultPort(secure) == IF secure THEN 443 ELSE 80

At(host, port) == [host |-> host, port |-> port]

\* HttpTransport::configured, its `bind`; an address of neither scheme is
\* taken as it is.
Bind(a) ==
    At(a.host, IF a.port = NoPort /\ a.scheme # "none"
               THEN DefaultPort(a.scheme = "https") ELSE a.port)

configured(a) == [bind |-> Bind(a), secure |-> a.scheme = "https"]

\* net::Endpoint::address.
Address(url) ==
    At(url.host, IF url.port # NoPort THEN url.port
                 ELSE IF url.scheme = "https" THEN 443 ELSE 80)

----------------------------------------------------------------------------
\* A Receive Location.

Open(l) ==
    /\ opened[l] = NoLocation
    /\ opened' = [opened EXCEPT ![l] = configured(entered[l])]
    /\ UNCHANGED <<entered, bound, post>>

\* Mutant of Binds: `https://` listens where it says.
BindsAnyway(l) == opened[l] # NoLocation /\ opened[l].bind.port # NoPort

\* HttpTransport::bind does not refuse: it is not to listen in TLS, and
\* names a port.
Binds(l) ==
    opened[l] # NoLocation /\ ~opened[l].secure /\ opened[l].bind.port # NoPort

\* `listening`, or the first receive: bound once and kept; an address taken
\* by another, or refused, leaves it unbound, for the next receive to try.
Listen(l) ==
    /\ bound[l] = NoWhere
    /\ Binds(l)
    /\ \A m \in Receives : bound[m] # opened[l].bind
    /\ bound' = [bound EXCEPT ![l] = opened[l].bind]
    /\ UNCHANGED <<entered, opened, post>>

\* Its process ends; it is opened again, as entered.
Restart(l) ==
    /\ opened[l] # NoLocation
    /\ opened' = [opened EXCEPT ![l] = NoLocation]
    /\ bound' = [bound EXCEPT ![l] = NoWhere]
    /\ UNCHANGED <<entered, post>>

----------------------------------------------------------------------------
\* A Send Location.

\* Who listens where a URL leads.
Reached(url) == {l \in Receives : bound[l] = Address(url)}

\* post: refused where the target is no URL; else it reaches who listens at
\* the endpoint - whose TLS handshake a Receive Location cannot answer - or
\* nobody.
Post(url) ==
    /\ post' = [url |-> url,
                to |-> IF url.scheme = "none" THEN {} ELSE Reached(url),
                ended |-> IF url.scheme = "none" THEN "refused"
                          ELSE IF url.scheme = "https" \/ Reached(url) = {}
                          THEN "failed" ELSE "taken"]
    /\ UNCHANGED <<entered, opened, bound>>

Next ==
    \/ \E l \in Receives : Open(l) \/ Listen(l) \/ Restart(l)
    \/ \E url \in Addresses : Post(url)

Spec == Init /\ [][Next]_vars

----------------------------------------------------------------------------
\* Properties.

\* The two readings of an address agree: what is posted to the very URL a
\* Receive Location was entered with, and listens by, is taken by it and by
\* no other, whatever the defaults either end fills in (README, "The
\* address alone").
AddressesMeet ==
    [][\A l \in Receives :
        post' # post /\ post'.url = entered[l] /\ bound[l] # NoWhere
            /\ entered[l].scheme # "none"
            => post'.ended = "taken" /\ post'.to = {l}]_vars

\* What is posted to an https:// URL never reaches the Location entered with
\* it listening in the clear, though another may have that port: it fails as
\* it connects or shakes hands, and nothing of it is taken (lib.rs:186).
NeverMetInTheClear ==
    [][\A l \in Receives :
        post' # post /\ post'.url = entered[l] /\ entered[l].scheme = "https"
            => l \notin post'.to]_vars
=============================================================================
