-------------------------- MODULE LocationsProofs --------------------------
(***************************************************************************)
(* Proofs about Locations, for any Receive Locations, hosts and ports: the *)
(* two readers of an address agree wherever a Location listens, and it     *)
(* listens nowhere in the clear for an https:// address.                   *)
(***************************************************************************)
EXTENDS Locations, TLAPS

\* A Location listens where it was entered, guarded by nothing, on a port,
\* and alone.
ListensAsEntered(l) ==
    /\ opened[l] # NoLocation => opened[l] = configured(entered[l])
    /\ bound[l] # NoWhere =>
        /\ entered[l].scheme # "https"
        /\ bound[l] = Bind(entered[l]) /\ bound[l].port # NoPort

IInv ==
    /\ entered \in [Receives -> Addresses]
    /\ opened = [l \in Receives |-> opened[l]]
    /\ bound = [l \in Receives |-> bound[l]]
    /\ \A l \in Receives : ListensAsEntered(l)
    /\ \A l, m \in Receives : bound[l] = bound[m] => l = m \/ bound[l] = NoWhere

USE PortAssumption

\* An address leads somewhere, and where it names a scheme there is where a
\* Location entered with it binds.
LEMMA Somewhere ==
  ASSUME NEW a \in Addresses
  PROVE  /\ Address(a) # NoWhere
         /\ a.scheme # "none" => Bind(a) = Address(a)
<1>1. a.port \in Ports \cup {NoPort} /\ a.scheme \in {"http", "https", "none"}
  BY DEF Addresses
<1>3. Address(a).port # NoPort
  BY <1>1 DEF Address, At, NoPort
<1>4. Address(a) # NoWhere
  BY <1>3 DEF NoWhere
<1>5. a.scheme # "none" => Bind(a) = Address(a)
  BY <1>1 DEF Bind, Address, DefaultPort, NoPort
<1>6. QED
  BY <1>4, <1>5

\* Locations keeps its inductive invariant: a Location binds only what it was
\* opened as, where nobody listens.
LEMMA Inductive == IInv /\ [Next]_vars => IInv'
<1> SUFFICES ASSUME IInv, [Next]_vars PROVE IInv'
  OBVIOUS
<1> USE DEF IInv
<1>1. ASSUME NEW l \in Receives, Open(l)
      PROVE  IInv'
  <2>1. /\ opened' = [opened EXCEPT ![l] = configured(entered[l])]
        /\ entered' = entered /\ bound' = bound
    BY <1>1 DEF Open
  <2>2. ASSUME NEW m \in Receives PROVE ListensAsEntered(m)'
    BY <2>1 DEF ListensAsEntered
  <2>3. QED
    BY <2>1, <2>2
<1>2. ASSUME NEW l \in Receives, Listen(l)
      PROVE  IInv'
  <2>1. /\ bound' = [bound EXCEPT ![l] = opened[l].bind]
        /\ entered' = entered /\ opened' = opened
        /\ opened[l] # NoLocation /\ ~opened[l].secure
        /\ opened[l].bind.port # NoPort
        /\ \A m \in Receives : bound[m] # opened[l].bind
    BY <1>2 DEF Listen, Binds
  <2>2. opened[l] = configured(entered[l])
    BY <2>1 DEF ListensAsEntered
  <2>3. opened[l].bind = Bind(entered[l]) /\ entered[l].scheme # "https"
    <3>1. opened[l].bind = Bind(entered[l])
      BY <2>2 DEF configured
    <3>2. ASSUME entered[l].scheme = "https" PROVE FALSE
      <4>1. (entered[l].scheme = "https") = TRUE
        BY <3>2
      <4>2. opened[l] = [bind |-> Bind(entered[l]), secure |-> TRUE]
        BY <2>2, <4>1, Zenon DEF configured
      <4>3. QED
        BY <2>1, <4>2
    <3>3. QED
      BY <2>1, <3>1, <3>2
  <2>4. ASSUME NEW m \in Receives PROVE ListensAsEntered(m)'
    BY <2>1, <2>2, <2>3 DEF ListensAsEntered
  <2>5. ASSUME NEW m \in Receives, NEW k \in Receives, bound'[m] = bound'[k]
        PROVE  m = k \/ bound'[m] = NoWhere
    BY <2>1, <2>5
  <2>6. QED
    BY <2>1, <2>4, <2>5
<1>3. ASSUME NEW l \in Receives, Restart(l)
      PROVE  IInv'
  <2>1. /\ opened' = [opened EXCEPT ![l] = NoLocation]
        /\ bound' = [bound EXCEPT ![l] = NoWhere] /\ entered' = entered
    BY <1>3 DEF Restart
  <2>2. ASSUME NEW m \in Receives PROVE ListensAsEntered(m)'
    BY <2>1 DEF ListensAsEntered
  <2>3. ASSUME NEW m \in Receives, NEW k \in Receives, bound'[m] = bound'[k]
        PROVE  m = k \/ bound'[m] = NoWhere
    BY <2>1, <2>3
  <2>4. QED
    BY <2>1, <2>2, <2>3
<1>4. ASSUME UNCHANGED <<entered, opened, bound>>
      PROVE  IInv'
  BY <1>4 DEF ListensAsEntered
<1>5. QED
  BY <1>1, <1>2, <1>3, <1>4 DEF Next, Post, vars

\* Where each Location listens, if it does.
THEOREM Invariant == Spec => []IInv
<1>1. Init => IInv
  BY DEF Init, IInv, ListensAsEntered
<1>2. QED
  BY <1>1, Inductive, PTL DEF Spec

----------------------------------------------------------------------------
\* Posting: one step that changes the post is one that posts to its URL.
LEMMA Posts ==
  ASSUME [Next]_vars, post' # post
  PROVE  /\ post'.url \in Addresses /\ Post(post'.url)
<1>1. \E url \in Addresses : Post(url)
  BY DEF Next, Open, Listen, Restart, vars
<1>2. QED
  BY <1>1 DEF Post

\* What is posted to the URL a Location listens by is taken by it and by no
\* other: `configured` and net::Endpoint read every such address alike.
THEOREM ReadersAgree == Spec => AddressesMeet
<1>1. IInv /\ [Next]_vars =>
        [\A l \in Receives :
            post' # post /\ post'.url = entered[l] /\ bound[l] # NoWhere
                /\ entered[l].scheme # "none"
                => post'.ended = "taken" /\ post'.to = {l}]_vars
  <2> SUFFICES ASSUME IInv, [Next]_vars, NEW l \in Receives, post' # post,
                      post'.url = entered[l], bound[l] # NoWhere,
                      entered[l].scheme # "none"
               PROVE  post'.ended = "taken" /\ post'.to = {l}
    OBVIOUS
  <2> DEFINE url == entered[l]
  <2>1. url \in Addresses /\ Post(url)
    BY Posts
  <2>2. url.scheme # "https" /\ bound[l] = Bind(url) /\ url.scheme # "none"
    BY DEF IInv, ListensAsEntered
  <2>3. bound[l] = Address(url)
    BY <2>1, <2>2, Somewhere
  <2>4. Reached(url) = {l}
    BY <2>3 DEF Reached, IInv
  <2>5. QED
    BY <2>1, <2>2, <2>4 DEF Post
<1>2. QED
  BY <1>1, Invariant, PTL DEF Spec, AddressesMeet

\* A Location entered https:// listens nowhere, so nothing that was to be
\* guarded meets it in the clear (HttpTransport::bind).
THEOREM MetGuardedOrNot == Spec => NeverMetInTheClear
<1>1. IInv /\ [Next]_vars =>
        [\A l \in Receives :
            post' # post /\ post'.url = entered[l] /\ entered[l].scheme = "https"
                => l \notin post'.to]_vars
  <2> SUFFICES ASSUME IInv, [Next]_vars, NEW l \in Receives, post' # post,
                      post'.url = entered[l], entered[l].scheme = "https"
               PROVE  l \notin post'.to
    OBVIOUS
  <2> DEFINE url == entered[l]
  <2>1. url \in Addresses /\ Post(url)
    BY Posts
  <2>2. bound[l] = NoWhere
    BY DEF IInv, ListensAsEntered
  <2>3. l \notin Reached(url)
    BY <2>1, <2>2, Somewhere DEF Reached
  <2>4. QED
    BY <2>1, <2>3 DEF Post
<1>2. QED
  BY <1>1, Invariant, PTL DEF Spec, NeverMetInTheClear
=============================================================================
