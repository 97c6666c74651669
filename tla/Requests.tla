------------------------------ MODULE Requests ------------------------------
(***************************************************************************)
(* A request's headers from the end that writes them to the end that reads *)
(* them, as net::http and net::http2 carry them: in order, and on HTTP/2   *)
(* under names in lower case.  The names are those this crate writes.      *)
(***************************************************************************)
EXTENDS Naturals, Sequences, FiniteSets

NoValue == "none"

LowerCase(name) ==
    CASE name = "Host" -> "host"
      [] name = "Content-Type" -> "content-type"
      [] name = "Authorization" -> "authorization"
      [] name = "Idempotency-Key" -> "idempotency-key"
      [] OTHER -> name

\* One header, or none where there is nothing to say.
Header(name, value) == IF value = NoValue THEN <<>> ELSE <<<<name, value>>>>

\* The places of the headers of a name, in any case.
Named(headers, name) ==
    {i \in DOMAIN headers : LowerCase(headers[i][1]) = LowerCase(name)}

\* The headers at the places `of`, in the order they came.
Chosen(headers, of) ==
    LET n == Cardinality(of)
        place == CHOOSE f \in [1..n -> of] :
                    \A i, j \in 1..n : i < j => f[i] < f[j]
    IN  [i \in 1..n |-> headers[place[i]]]

\* Request::header_value: the first header of that name.
header_value(headers, name) ==
    LET of == Named(headers, name)
    IN  IF of = {} THEN NoValue
        ELSE headers[CHOOSE i \in of : \A k \in of : i <= k][2]

\* The headers as the other end of a connection in `version` reads them.
Came(headers, version) ==
    IF version = 1 THEN headers
    ELSE [i \in DOMAIN headers |-> <<LowerCase(headers[i][1]), headers[i][2]>>]
=============================================================================
