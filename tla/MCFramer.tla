------------------------------ MODULE MCFramer ------------------------------
(***************************************************************************)
(* Framer with bytes abstracted to "8", "|", "9", digits, "t" and "x": the *)
(* first field is 8|, the length tag 9, the trailer t.                     *)
(***************************************************************************)
EXTENDS Framer

MCFirstField == <<"8", "|">>
MCLengthTag == <<"9">>

Message0 == <<"8", "|", "9", "0", "|", "t">>
\* Its body looks like the start of a message.
Message2 == <<"8", "|", "9", "2", "|", "8", "|", "t">>
\* A header whose length runs into what follows, and headers that are wrong:
\* another tag, no number, no digits, a length that is too large.
Truncated == <<"8", "|", "9", "2", "|">>
Wrong == {<<"8", "|", "x">>, <<"8", "|", "9", "x", "|">>, <<"8", "|", "9", "|">>,
          <<"8", "|", "9", "1", "0", "|">>}
Garbage == {<<"8">>, <<"x">>}

Pieces == {Message0, Message2, Truncated} \cup Wrong \cup Garbage

\* Every two pieces, and every piece between two messages.
MCStreams == {p \o q : p, q \in Pieces} \cup {Message0 \o p \o Message0 : p \in Pieces}
=============================================================================
