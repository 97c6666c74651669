--------------------------- MODULE MCSecuredSend ---------------------------
(* Small instances of SecuredSend for TLC. *)
EXTENDS SecuredSend

Two == {"w1", "w2"}

\* An empty key, two that differ in what is escaped alone, each with the two
\* escaped characters next to one another and at an end, and one with a
\* character no string is read of.
Awkward == {<<>>, <<Quote, Backslash, "a", Backslash>>,
            <<Backslash, Quote, "a", Quote>>, <<"a", "tab", "a">>}
Plain == {Quote, Backslash, "a"}
=============================================================================
