------------------------------- MODULE Framer -------------------------------
(***************************************************************************)
(* Fix::Framer, driven by the read handler of Session: bytes arrive in     *)
(* reads of any size, append cuts them into messages, the handler takes    *)
(* every message there is and reads again.  When the connection is lost    *)
(* the framer is reset and another stream of bytes begins.                 *)
(*                                                                         *)
(* One turn of the loop in append is one step, a call of parse_buffer;     *)
(* each of its outcomes is an action.                                      *)
(***************************************************************************)
EXTENDS Naturals, Sequences, SequencesExt

CONSTANTS
    FirstField,      \* Fix_First_Field ("8=FIX.4.4|")
    LengthTag,       \* "9="
    Soh,             \* the byte 1
    TrailerSize,     \* length of "10=xxx|", 7
    MaxMessageSize,  \* MAX_MESSAGE_SIZE (1 MB)
    MaxCompleted,    \* capacity of completed_messages_ (1024)
    StartCapacity,   \* of the buffer, and of the read buffer of Session
    MinGrow,
    Junk,
    Streams          \* what a peer may send over one connection

ASSUME FramerAssumption ==
    /\ \A s \in Streams \cup {FirstField, LengthTag} : s \in Seq(ToSet(s))
    /\ FirstField # <<>> /\ LengthTag # <<>>
    /\ {TrailerSize, MaxMessageSize, MinGrow} \subseteq Nat
    /\ {MaxCompleted, StartCapacity} \subseteq Nat \ {0}

B == INSTANCE LinearBuffer

R == INSTANCE Ring WITH Capacity <- MaxCompleted, Nothing <- Junk

(***************************************************************************)
(* buffer_, current_context_, scan_abs_, completed_messages_; where the    *)
(* read handler is; whether append stopped because the ring was full; and  *)
(* as history the stream, how much of it was read, the messages taken.     *)
(***************************************************************************)
VARIABLES buf, ctx, scan, completed, phase, capped, stream, fed, taken

vars == <<buf, ctx, scan, completed, phase, capped, stream, fed, taken>>

NewContext == [begin |-> 0, end |-> 0, state |-> "FindingBegin"]

Init ==
    /\ buf = B!NewBuffer /\ ctx = NewContext /\ scan = 0
    /\ completed = R!NewRing
    /\ phase = "reading" /\ capped = FALSE
    /\ stream \in Streams /\ fed = 0 /\ taken = <<>>

(***************************************************************************)
(* The length field.  What does not fit 64 bits is refused by from_chars,  *)
(* here as a number above MaxMessageSize.                                  *)
(***************************************************************************)
Numerals == <<"0", "1", "2", "3", "4", "5", "6", "7", "8", "9">>

ASSUME SohAssumption == ~ Contains(Numerals, Soh)

IsNumber(ds) == ds # <<>> /\ \A i \in DOMAIN ds : Contains(Numerals, ds[i])

from_chars(ds) ==
    FoldLeft(LAMBDA n, c : 10 * n + (CHOOSE d \in 0..9 : Numerals[d + 1] = c), 0, ds)

(***************************************************************************)
(* The view parse_buffer works on.  Positions in it count from 0.          *)
(***************************************************************************)
View == B!readable(buf)

\* scan_abs_ after it is moved up to the first readable byte.
Scan == B!Max({scan, B!readable_rel_to_abs(buf, 0)})

RelScan == B!abs_to_readable_rel(buf, Scan)

Begins == {i \in RelScan..(Len(View) - 1) :
             i + Len(FirstField) <= Len(View) /\ SubSeq(View, i + 1, i + Len(FirstField)) = FirstField}

Begin == B!Min(Begins)

TagAt == Begin + Len(FirstField)

LengthAt == TagAt + Len(LengthTag)

Sohs == {j \in LengthAt..(Len(View) - 1) : View[j + 1] = Soh}

LengthEnd == B!Min(Sohs)

LengthField == SubSeq(View, LengthAt + 1, LengthEnd)

BeginAbs == B!readable_rel_to_abs(buf, Begin)

FrameEnd == LengthEnd + 1 + from_chars(LengthField) + TrailerSize

\* What the bytes from Begin on say: the header may be cut, wrong or sound.
Header ==
    CASE LengthAt > Len(View) -> "cut"
      [] LengthAt <= Len(View) /\ SubSeq(View, TagAt + 1, LengthAt) # LengthTag -> "wrong"
      [] LengthAt <= Len(View) /\ SubSeq(View, TagAt + 1, LengthAt) = LengthTag ->
           IF Sohs = {} THEN "cut"
           ELSE IF ~ IsNumber(LengthField) THEN "wrong"
           ELSE IF from_chars(LengthField) > MaxMessageSize THEN "wrong"
           ELSE "sound"

(***************************************************************************)
(* append, a read of n bytes, and the outcomes of parse_buffer.            *)
(***************************************************************************)
append(n) ==
    /\ phase = "reading" /\ fed + n <= Len(stream)
    /\ buf' = B!push(buf, SubSeq(stream, fed + 1, fed + n))
    /\ fed' = fed + n /\ phase' = "parsing"
    /\ UNCHANGED <<ctx, scan, completed, capped, stream, taken>>

\* The loop of append goes on while the ring has room.
Parsing == phase = "parsing" /\ ~ R!full(completed)

RingFull ==
    /\ phase = "parsing" /\ R!full(completed)
    /\ phase' = "taking" /\ capped' = TRUE
    /\ UNCHANGED <<buf, ctx, scan, completed, stream, fed, taken>>

\* The outcome NeedMoreData ends the loop.
NeedMoreData == phase' = "taking" /\ capped' = FALSE

NothingNew ==
    /\ Parsing /\ RelScan >= Len(View)
    /\ scan' = Scan /\ NeedMoreData
    /\ UNCHANGED <<buf, ctx, completed, stream, fed, taken>>

Finding == Parsing /\ RelScan < Len(View) /\ ctx.state = "FindingBegin"

\* Mutant: one byte too few is kept.
KeptShort == B!Min({Len(View), Len(FirstField) - 2})

\* The last bytes may be the start of a first field.
Kept == B!Min({Len(View), Len(FirstField) - 1})

\* Mutant: the bytes go although messages in front of them wait in the ring.
NoBeginAlwaysDrops ==
    /\ Finding /\ Begins = {}
    /\ buf' = B!discard_prefix(buf, Len(View) - Kept)
    /\ scan' = B!readable_rel_to_abs(buf', 0)
    /\ NeedMoreData
    /\ UNCHANGED <<ctx, completed, stream, fed, taken>>

\* Nothing goes while messages in front of the garbage are not taken yet.
NoBegin ==
    /\ Finding /\ Begins = {}
    /\ \/ /\ R!empty(completed)
          /\ buf' = B!discard_prefix(buf, Len(View) - Kept)
          /\ scan' = B!readable_rel_to_abs(buf', 0)
       \/ ~ R!empty(completed) /\ scan' = Scan /\ UNCHANGED buf
    /\ NeedMoreData
    /\ UNCHANGED <<ctx, completed, stream, fed, taken>>

HeaderCut ==
    /\ Finding /\ Begins # {} /\ Header = "cut"
    /\ ctx' = [ctx EXCEPT !.begin = BeginAbs] /\ scan' = BeginAbs
    /\ NeedMoreData
    /\ UNCHANGED <<buf, completed, stream, fed, taken>>

\* A wrong header: the search goes on one byte behind its start.
Resync ==
    /\ Finding /\ Begins # {} /\ Header = "wrong"
    /\ scan' = BeginAbs + 1 /\ ctx' = NewContext
    /\ UNCHANGED <<buf, completed, phase, capped, stream, fed, taken>>

BodyCut ==
    /\ Finding /\ Begins # {} /\ Header = "sound" /\ FrameEnd > Len(View)
    /\ ctx' = [begin |-> BeginAbs, end |-> B!readable_rel_to_abs(buf, FrameEnd),
               state |-> "ReadingBody"]
    /\ scan' = BeginAbs /\ NeedMoreData
    /\ UNCHANGED <<buf, completed, stream, fed, taken>>

\* The window [begin, end) is a message; parsing goes on behind it.
Queue(begin, end) ==
    /\ completed' = R!push(completed, [begin |-> begin, end |-> end])
    /\ scan' = end /\ ctx' = NewContext
    /\ UNCHANGED <<buf, phase, capped, stream, fed, taken>>

MessageFound ==
    /\ Finding /\ Begins # {} /\ Header = "sound" /\ FrameEnd <= Len(View)
    /\ Queue(BeginAbs, B!readable_rel_to_abs(buf, FrameEnd))

Reading == Parsing /\ RelScan < Len(View) /\ ctx.state = "ReadingBody"

BodyStillCut ==
    /\ Reading /\ ctx.end > B!readable_rel_to_abs(buf, Len(View))
    /\ scan' = Scan /\ NeedMoreData
    /\ UNCHANGED <<buf, ctx, completed, stream, fed, taken>>

BodyComplete ==
    /\ Reading /\ ctx.end <= B!readable_rel_to_abs(buf, Len(View))
    /\ Queue(ctx.begin, ctx.end)

parse_buffer ==
    \/ NothingNew \/ NoBegin \/ HeaderCut \/ Resync \/ BodyCut \/ MessageFound
    \/ BodyStillCut \/ BodyComplete

(***************************************************************************)
(* The loop of the read handler, and the reset with a new connection.      *)
(***************************************************************************)
Bytes(w) == SubSeq(View, B!abs_to_readable_rel(buf, w.begin) + 1,
                         B!abs_to_readable_rel(buf, w.end))

get_message == Bytes(R!front(completed))

consume_message ==
    /\ phase = "taking" /\ ~ R!empty(completed)
    /\ taken' = Append(taken, get_message)
    /\ buf' = B!discard_prefix(buf, B!abs_to_readable_rel(buf, R!front(completed).end))
    /\ completed' = R!pop_front(completed)
    /\ UNCHANGED <<ctx, scan, phase, capped, stream, fed>>

ReadAgain ==
    /\ phase = "taking" /\ R!empty(completed)
    /\ phase' = "reading"
    /\ UNCHANGED <<buf, ctx, scan, completed, capped, stream, fed, taken>>

\* Mutant: the context of a message cut by the loss survives the reset.
resetKeepsContext(s) ==
    /\ phase = "reading"
    /\ buf' = B!reset(buf) /\ completed' = R!NewRing
    /\ scan' = 0 /\ capped' = FALSE
    /\ stream' = s /\ fed' = 0 /\ taken' = <<>>
    /\ UNCHANGED <<ctx, phase>>

reset(s) ==
    /\ phase = "reading"
    /\ buf' = B!reset(buf) /\ completed' = R!NewRing
    /\ ctx' = NewContext /\ scan' = 0 /\ capped' = FALSE
    /\ stream' = s /\ fed' = 0 /\ taken' = <<>>
    /\ UNCHANGED phase

Next ==
    \/ \E n \in 1..StartCapacity : append(n)
    \/ RingFull \/ parse_buffer \/ consume_message \/ ReadAgain
    \/ \E s \in Streams : reset(s)

Spec == Init /\ [][Next]_vars

(***************************************************************************)
(* Reference: the messages of a sequence of bytes, without reads, buffer   *)
(* or scan position.  A header is the first field, a length field with a   *)
(* length that is allowed, and its end.                                    *)
(***************************************************************************)
LengthDigits(s, q, j) == SubSeq(s, q + Len(FirstField) + Len(LengthTag), j - 1)

HeaderEnds(s, q) ==
    {j \in q..Len(s) :
       LET ds == LengthDigits(s, q, j)
       IN  /\ SubSeq(s, q, j) = FirstField \o LengthTag \o ds \o <<Soh>>
           /\ IsNumber(ds) /\ from_chars(ds) <= MaxMessageSize}

HeadersFrom(s, p) == {q \in p..Len(s) : HeaderEnds(s, q) # {}}

MessageEnd(s, q) ==
    LET j == B!Min(HeaderEnds(s, q))
    IN  j + from_chars(LengthDigits(s, q, j)) + TrailerSize

\* From left to right: the first header at or behind p, its message, and the
\* messages behind that one.
MessagesFrom(s) ==
    LET M[p \in 1..(Len(s) + 1)] ==
          LET q == B!Min(HeadersFrom(s, p))
          IN  IF HeadersFrom(s, p) = {} THEN <<>>
              ELSE IF MessageEnd(s, q) > Len(s) THEN <<>>
              ELSE <<SubSeq(s, q, MessageEnd(s, q))>> \o M[MessageEnd(s, q) + 1]
    IN  M

Messages(s) == MessagesFrom(s)[1]

(***************************************************************************)
(* Properties.                                                             *)
(***************************************************************************)
\* Types, and that no byte is written outside the array (push).
TypeOK ==
    /\ DOMAIN buf.data = 0..(buf.cap - 1)
    /\ 0 <= buf.head /\ buf.head <= buf.tail /\ buf.tail <= buf.cap
    /\ scan \in Nat /\ buf.base \in Nat
    /\ ctx.state \in {"FindingBegin", "ReadingBody"}
    /\ completed.size \in 0..MaxCompleted
    /\ completed.head \in 0..(MaxCompleted - 1)
    /\ completed.tail = (completed.head + completed.size) % MaxCompleted
    /\ phase \in {"reading", "parsing", "taking"}

\* However often bytes were moved, the readable bytes are the part of the
\* stream that ends at the last byte read, at its absolute position
\* (LinearBuffer: base_abs_ follows compact, grow and discard_prefix).
BufferHoldsStream ==
    /\ buf.base + buf.tail = fed
    /\ B!readable(buf) = SubSeq(stream, buf.base + buf.head + 1, fed)

\* The asserts of get_message and abs_to_local: the messages in the ring lie
\* one behind the other in the readable bytes, and what is being scanned or
\* cut lies behind all of them.
WindowsInBuffer ==
    LET ws == R!Items(completed)
    IN  /\ \A k \in 1..Len(ws) :
             /\ buf.base + buf.head <= ws[k].begin /\ ws[k].begin < ws[k].end
             /\ ws[k].end <= buf.base + buf.tail /\ ws[k].end <= scan
             /\ k < Len(ws) => ws[k].end <= ws[k + 1].begin
        /\ ctx.state = "ReadingBody" =>
             buf.base + buf.head <= ctx.begin /\ ctx.begin < ctx.end

\* Whatever the reads were, the messages handed out and those waiting in the
\* ring are the first messages of the stream, whole and in order.
MessagesInOrder ==
    IsPrefix(taken \o [k \in 1..completed.size |-> Bytes(R!Items(completed)[k])],
             Messages(stream))

\* Before the next read the handler has every message that was received in
\* full, unless append stopped at a full ring: then the rest waits for more
\* bytes to come.
NothingHeldBack ==
    phase = "reading" /\ ~ capped => taken = Messages(SubSeq(stream, 1, fed))
=============================================================================
