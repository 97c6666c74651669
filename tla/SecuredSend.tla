---------------------------- MODULE SecuredSend ----------------------------
(***************************************************************************)
(* A Send Location that names a secret (src/src/basic.rs,                  *)
(* HttpTransport::post): every request carries its Journey's deduplication *)
(* key (src/src/lib.rs, `idempotency_key`) and the password the vault      *)
(* holds as it is built, as HTTP Basic; the Receive Location's identity    *)
(* gate reads that off the arrival (server::Sender).  The vault is rotated *)
(* and emptied, and the far end admits and retires passwords, between any  *)
(* two steps of a send - while its request is on the way, resent on a new  *)
(* connection, or taken after it was given up.                             *)
(*                                                                         *)
(* External: the vault behind transport::Secured, the identity gate, and   *)
(* the runtime that sends again.                                           *)
(***************************************************************************)
EXTENDS Naturals, Status, Requests, IdempotencyKey

CONSTANTS
    Streams,    \* what is sent, each by a thread
    Passwords,  \* what the vault can hold
    User,       \* the user the Location's address names, "" where none
    Keys,       \* the deduplication keys, sequences of characters
    MaxSends    \* bound: how often a Stream is sent

ASSUME PasswordAssumption == Passwords \subseteq STRING
ASSUME KeyAssumption == Keys \subseteq Seq(STRING)
ASSUME BoundAssumption == MaxSends \in Nat

VARIABLES
    key,       \* key[j]: what the Journey of j is deduplicated by
    vault,     \* the password held, or Unset
    first,     \* what it held as the Location was opened (secured_by)
    admitted,  \* the passwords the far end takes from User
    asked, told, acted,  \* the wire, as Exchange has it
    posted,    \* posted[j][n]: the headers of the n-th request of j
    outcome,   \* of the last send: one of Outcomes
    cycle,     \* what arrived and is in the receive cycle
    said,      \* said[j]: the statuses answered to the send under way
    owed       \* owed[j]: what the vault held as the last send of j began,
               \* where the far end has admitted it ever since; or Unset

wireVars == <<asked, told, acted>>
vars == <<key, vault, first, admitted, wireVars, posted, outcome, cycle, said, owed>>

Unset == ""

Wire == INSTANCE Exchange WITH MaxAsks <- MaxSends, Senders <- Streams

Sends == Streams \X (1..MaxSends)

Init ==
    /\ key \in [Streams -> Keys]
    /\ vault \in Passwords
    /\ first = vault
    /\ admitted \in SUBSET Passwords
    /\ Wire!Init
    /\ posted = [j \in Streams |-> <<>>]
    /\ outcome = [j \in Streams |-> "unsent"]
    /\ cycle = {}
    /\ said = [j \in Streams |-> {}]
    /\ owed = [j \in Streams |-> Unset]

----------------------------------------------------------------------------
\* The sender (HttpTransport::post).

\* The user and the password, of whatever they hold.
Basic(password) == "Basic " \o User \o ":" \o password

\* Mutant of presented: the password is read as the Location is opened.
presentedFirst == Basic(first)

\* basic::basic.
presented == Basic(vault)

\* Mutant of Readable: a secret that is not set is read as empty.
ReadableAlways == TRUE

\* basic::basic: there is a password to read.
Readable == vault # Unset

Due(j) == outcome[j] \in {"unsent", "retry"}

\* post builds the request, and begins its exchange.
Send(j) ==
    /\ Due(j) /\ Readable
    /\ Wire!Ask(j)
    /\ posted' = [posted EXCEPT ![j] =
            Append(@, Header("Host", "a")
                        \o Header("Content-Type", "application/octet-stream")
                        \o <<<<"Idempotency-Key", idempotency_key(key[j])>>>>
                        \o Header("Authorization", presented))]
    /\ outcome' = [outcome EXCEPT ![j] = "sending"]
    /\ said' = [said EXCEPT ![j] = {}]
    /\ owed' = [owed EXCEPT ![j] = IF vault \in admitted THEN vault ELSE Unset]
    /\ UNCHANGED <<key, vault, first, admitted, cycle>>

\* There is no password to read: a failure, before anything is sent.
SendUnreadable(j) ==
    /\ Due(j) /\ ~Readable
    /\ \E how \in Failure : outcome' = [outcome EXCEPT ![j] = how]
    /\ owed' = [owed EXCEPT ![j] = Unset]
    /\ UNCHANGED <<key, vault, first, admitted, wireVars, posted, cycle, said>>

Ends(j, how) == outcome' = [outcome EXCEPT ![j] = how]

Judged(j) ==
    /\ Wire!Answer(j)
    /\ \E s \in said[j] : Ends(j, judge(s))
    /\ UNCHANGED <<key, vault, first, admitted, posted, cycle, said, owed>>

Missed(j) ==
    /\ Wire!Miss(j)
    /\ \E how \in IF told'[j] = "stray" THEN {judge(STRAY)} ELSE Failure :
            Ends(j, how)
    /\ UNCHANGED <<key, vault, first, admitted, posted, cycle, said, owed>>

----------------------------------------------------------------------------
\* The receiver (server::arrived, the identity gate, server::verdict).

\* A request is taken, in either version; what it says of its sender goes
\* with its body.
Arrives(j, n) ==
    /\ Wire!Act(j, n)
    /\ \E version \in {1, 2} :
        cycle' = cycle \cup
            {[of |-> <<j, n>>, time |-> acted'[j][n],
              headers |-> Came(posted[j][n], version)]}
    /\ UNCHANGED <<key, vault, first, admitted, posted, outcome, said, owed>>

\* The verdict: the gate's where the password is not admitted.
Verdict(a) ==
    IF \E w \in admitted : header_value(a.headers, "authorization") = Basic(w)
    THEN {"Accepted", "Failed"} ELSE {"Unidentified"}

\* It is answered, heard by a sender that still waits, or lost.
Conclude(a) ==
    LET j == a.of[1] IN
    /\ cycle' = cycle \ {a}
    /\ \/ UNCHANGED said
       \/ /\ a.of[2] = asked[j] /\ told[j] = "asking"
          /\ \E v \in Verdict(a) : said' = [said EXCEPT ![j] = @ \cup {status(v)}]
    /\ UNCHANGED <<key, vault, first, admitted, wireVars, posted, outcome, owed>>

----------------------------------------------------------------------------
\* The passwords, at either end.

\* The vault is set anew, or emptied; the sends under way know nothing of it.
Rotate(w) ==
    /\ w # vault
    /\ vault' = w
    /\ UNCHANGED <<key, first, admitted, wireVars, posted, outcome, cycle, said, owed>>

\* The far end admits other passwords; a send begun with one it retires is
\* owed nothing any more.
Admit(W) ==
    /\ W # admitted
    /\ admitted' = W
    /\ owed' = [j \in Streams |-> IF owed[j] \in W THEN owed[j] ELSE Unset]
    /\ UNCHANGED <<key, vault, first, wireVars, posted, outcome, cycle, said>>

Next ==
    \/ \E j \in Streams :
        \/ Send(j) \/ SendUnreadable(j) \/ Judged(j) \/ Missed(j)
        \/ \E n \in 1..MaxSends : Arrives(j, n)
    \/ \E a \in cycle : Conclude(a)
    \/ \E w \in Passwords \cup {Unset} : Rotate(w)
    \/ \E W \in SUBSET Passwords : Admit(W)

Spec == Init /\ [][Next]_vars

----------------------------------------------------------------------------
\* Properties.

\* No status gives a Stream up while the far end admits what the vault held
\* as its send began, however both were rotated before, and the vault since:
\* every send presents the password read for it (lib.rs:128, "read at each
\* request").
IdentifiedIfAdmitted ==
    \A j \in Streams : outcome[j] = "refused" => owed[j] = Unset

\* What a server that honors the key reads is the key of the Stream's
\* Journey, on every attempt and in either version, or nothing at all where
\* the key has a character no string is read of: it is never cut short or
\* taken for another (lib.rs:96-98).
KeyReadsBack ==
    \A a \in cycle :
        Reading(header_value(a.headers, "idempotency-key")) =
            IF AllPrintable(key[a.of[1]])
            THEN [at |-> "done", key |-> key[a.of[1]]] ELSE Malformed

\* Where a secret is named nothing arrives without one of its passwords: one
\* that is not set sends nothing, rather than nobody's name or an empty
\* password (basic.rs:13).
PresentsAPassword ==
    \A a \in cycle :
        header_value(a.headers, "authorization") \in {Basic(w) : w \in Passwords}
=============================================================================
