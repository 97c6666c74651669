--------------------------- MODULE IdempotencyKey ---------------------------
(***************************************************************************)
(* The value a deduplication key is sent under (src/src/lib.rs,            *)
(* `idempotency_key`): a Structured Field string, written character by     *)
(* character with `"` and `\` escaped and every other as it is.            *)
(*                                                                         *)
(* External: the reading of it by a server that honors the key, RFC 8941   *)
(* section 4.2.5.                                                          *)
(***************************************************************************)
EXTENDS Naturals, Sequences, SequencesExt

CONSTANT Printable  \* the characters %x20-7E, all a string is read of

Quote == "quote"
Backslash == "backslash"

ASSUME PrintableAssumption == {Quote, Backslash} \subseteq Printable

\* Mutant of Escaped: only the quote is escaped.
EscapedQuoteOnly(c) == c = Quote

\* Which characters are escaped.
Escaped(c) == c \in {Quote, Backslash}

Pushed(value, c) == value \o (IF Escaped(c) THEN <<Backslash, c>> ELSE <<c>>)

idempotency_key(key) == Append(FoldLeft(Pushed, <<Quote>>, key), Quote)

Malformed == [at |-> "malformed", key |-> <<>>]

\* A key of which every character may be written in a string.
AllPrintable(key) == \A i \in DOMAIN key : key[i] \in Printable

\* One more character of the value, inside or outside the string.
ReadOn(r, c) ==
    CASE r.at = "before" /\ c = Quote -> [r EXCEPT !.at = "string"]
      [] r.at = "string" /\ c = Quote -> [r EXCEPT !.at = "done"]
      [] r.at = "string" /\ c = Backslash -> [r EXCEPT !.at = "escape"]
      [] r.at = "string" /\ c \in Printable \ {Quote, Backslash} ->
            [r EXCEPT !.key = Append(@, c)]
      [] r.at = "escape" /\ c \in {Quote, Backslash} ->
            [at |-> "string", key |-> Append(r.key, c)]
      [] OTHER -> Malformed

\* The value as the server reads it, "done" where it is one string whole.
Reading(value) == FoldLeft(ReadOn, [at |-> "before", key |-> <<>>], value)
=============================================================================
