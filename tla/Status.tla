------------------------------- MODULE Status -------------------------------
(***************************************************************************)
(* The status a verdict is answered with (src/src/server.rs) and what a    *)
(* sender makes of the status it is told (src/src/status.rs): what the two *)
(* ends of a send say to each other once the connections have done.        *)
(***************************************************************************)
EXTENDS Naturals

Refusals == {"Unidentified", "Forbidden", "Unacceptable"}
Verdicts == {"Accepted", "Failed"} \cup Refusals

\* server::ACCEPTED, server::FAILED, server::refused.
ACCEPTED == 202
FAILED == 503
refused(why) ==
    CASE why = "Unidentified" -> 401
      [] why = "Forbidden" -> 403
      [] why = "Unacceptable" -> 422

\* Mutant of status: what failed is answered as accepted.
statusFailedAccepted(verdict) ==
    IF verdict \in Refusals THEN refused(verdict) ELSE ACCEPTED

status(verdict) ==
    CASE verdict = "Accepted" -> ACCEPTED
      [] verdict \in Refusals -> refused(verdict)
      [] verdict = "Failed" -> FAILED

\* What a server says unasked as it closes an idle connection: 408 Request
\* Timeout, where it says anything.
STRAY == 408

\* Mutant of retryable: the two 4xx exceptions are left out.
retryableOnly5xx(s) == s >= 500

retryable(s) == s >= 500 \/ s = 408 \/ s = 429

\* status::judge, as the runtime takes it: neither caller here reads a code
\* of its own (`|_| false`).
judge(s) ==
    IF s \in 200..299 THEN "sent" ELSE IF retryable(s) THEN "retry" ELSE "refused"

\* Any other failure of a send is retryable or permanent as its error says:
\* the socket's, what came back and could not be read, a target that is no
\* URL, https without the tls feature.
Failure == {"retry", "failed"}

\* What becomes of a send: "refused" is given up for a status, "failed" for a
\* permanent failure that is none.
Outcomes == {"unsent", "sending", "retry", "sent", "refused", "failed"}

Statuses == {status(v) : v \in Verdicts} \cup {STRAY}
=============================================================================
