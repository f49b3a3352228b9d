----------------------------- MODULE Validator ------------------------------
(***************************************************************************)
(* Fix::Validator: a parsed message against the schemas of the header, the *)
(* body of its type and the trailer, repeating groups included.  The       *)
(* object is used for every message of a session; results_ and tagscratch_ *)
(* outlive the call.                                                       *)
(*                                                                         *)
(* No schema of the Registry has a group inside a group and the tags of a  *)
(* group differ, so the nested call of validate_groups_ and has_occured    *)
(* are left out.                                                           *)
(***************************************************************************)
EXTENDS Integers, Sequences, SequencesExt

CONSTANTS
    HeaderSchema, TrailerSchema,  \* StandardHeaderSchema and TrailerSchema
    SortedTypes,                  \* message types of the Registry, sorted
    BodySchema,                   \* their bodies
    Rank,                         \* the order of message types as strings
    Version, Sender, Target,      \* BeginString, target_comp_id, sender_comp_id
    Digits, Plus, Minus,          \* values of digits, of '+' or '-' and digits
    NumberOf,                     \* the numbers these values are
    IntMax, SeqNumMax,            \* the largest int, the largest uint64_t
    Chars,                        \* values of one character
    WordBits,                     \* bits in a word of TagScratch (64)
    Messages                      \* what the parser hands over

FieldTypes == {"INT", "STRING", "BOOLEAN", "CHAR", "GROUP"}

\* FieldSchema, without a GroupSchema and with one.
GroupMembers == [tag : Nat, type : FieldTypes, required : BOOLEAN, fields : {<<>>}]

FieldSchemas == [tag : Nat, type : FieldTypes, required : BOOLEAN, fields : Seq(GroupMembers)]

Schema(type) == ToSet(HeaderSchema) \cup ToSet(BodySchema[type]) \cup ToSet(TrailerSchema)

FieldTags(f) == {f.fields[k].tag : k \in DOMAIN f.fields}

ASSUME ValidatorAssumption ==
    /\ WordBits \in Nat \ {0}
    /\ SortedTypes \in Seq(DOMAIN BodySchema \cap DOMAIN Rank) /\ Rank \in [DOMAIN Rank -> Nat]
    /\ \A i, j \in DOMAIN SortedTypes : i < j => Rank[SortedTypes[i]] < Rank[SortedTypes[j]]
    /\ NumberOf \in [Digits \cup Plus \cup Minus -> Int]
    /\ \A v \in Digits \cup Plus : NumberOf[v] >= 0
    /\ \A v \in Minus : NumberOf[v] <= 0
    /\ IntMax \in Nat /\ SeqNumMax \in Nat /\ IntMax <= SeqNumMax
    /\ Messages \subseteq Seq([tag : Nat, value : STRING])

\* The arrays of Header.hpp, Trailer.hpp and the messages: a field that a
\* group of the message has is no field of the message itself, and MsgSeqNum
\* is a field of the header.
ASSUME SchemaAssumption ==
    /\ HeaderSchema \in Seq(FieldSchemas) /\ TrailerSchema \in Seq(FieldSchemas)
    /\ BodySchema \in [DOMAIN BodySchema -> Seq(FieldSchemas)]
    /\ \A t \in DOMAIN BodySchema : \A f, g \in Schema(t) : g.tag \notin FieldTags(f)
    /\ \E f \in ToSet(HeaderSchema) : f.tag = 34

(***************************************************************************)
(* tagscratch_ (its words, and the positions whose bit is set), results_   *)
(* (errors and severity), the message and where the call is.               *)
(***************************************************************************)
VARIABLES words, bits, errors, severity, msg, phase

vars == <<words, bits, errors, severity, msg, phase>>

Init ==
    /\ words = 0 /\ bits = {} /\ errors = <<>> /\ severity = "Moderate"
    /\ msg = <<>> /\ phase = "idle"

(***************************************************************************)
(* Types of values (Field.hpp, utils.hpp).  The parser hands over no empty *)
(* value.  is_int_type takes a sign and any number of digits; from_chars   *)
(* takes no '+', a '-' only for a signed type, and no number out of the    *)
(* range of its type.                                                      *)
(***************************************************************************)
is_int_type(v) == v \in Digits \cup Plus \cup Minus

is_boolean_type(v) == v \in {"Y", "N"}

is_char_type(v) == v \in Chars

validate_type_(v, type) ==
    CASE type \in {"INT", "GROUP"} -> is_int_type(v)
      [] type = "BOOLEAN" -> is_boolean_type(v)
      [] type = "CHAR" -> is_char_type(v)
      [] type = "STRING" -> TRUE

\* from_chars into an int, and not below 0: "-0" is taken.
parse_int(v) == v \in Digits \cup Minus /\ NumberOf[v] \in 0..IntMax

\* from_chars into the uint64_t msg_seq_num.
parse_seq_num(v) == v \in Digits /\ NumberOf[v] <= SeqNumMax

(***************************************************************************)
(* make_valid_message_view: the value of a tag that is cached is the last. *)
(***************************************************************************)
Has(m, tag) == \E i \in DOMAIN m : m[i].tag = tag

Slot(m, tag) == m[SelectLastInSeq(m, LAMBDA f : f.tag = tag)].value

has_msg_seq_num(m) == \E i \in DOMAIN m : m[i].tag = 34 /\ parse_seq_num(m[i].value)

(***************************************************************************)
(* Registry::get, a binary search for the first type not below t.          *)
(***************************************************************************)
LowerBound(t) ==
    LET N == Len(SortedTypes)
        S[w \in (0..N) \X (0..N)] ==
          LET mid == w[1] + (w[2] - w[1]) \div 2
          IN  IF w[1] >= w[2] THEN w[1]
              ELSE IF Rank[SortedTypes[mid + 1]] < Rank[t] THEN S[<<mid + 1, w[2]>>]
              ELSE S[<<w[1], mid>>]
    IN  S[<<0, N>>]

registered(t) ==
    /\ LowerBound(t) < Len(SortedTypes)
    /\ SortedTypes[LowerBound(t) + 1] = t

(***************************************************************************)
(* A call in progress: r has the bits set so far, the errors, the severity *)
(* and whether the current loop has returned.                              *)
(***************************************************************************)
Error(r, tag, code) == [r EXCEPT !.errors = Append(@, [tag |-> tag, code |-> code]),
                                 !.returned = TRUE]

Fatal(r, tag, code) == [Error(r, tag, code) EXCEPT !.severity = "Fatal"]

\* One field f of a group's schema against the message at r.cur.
GroupField(m, r, f) ==
    IF r.returned THEN r
    ELSE IF r.cur > Len(m) THEN Error(r, f.tag, "IncorrectNumInGroupCount")
    ELSE IF m[r.cur].tag # f.tag
         THEN IF f.required THEN Error(r, f.tag, "RequiredTagMissing") ELSE r
    ELSE LET s == [r EXCEPT !.bits = @ \cup {r.cur - 1}]
         IN  IF validate_type_(m[r.cur].value, f.type)
             THEN [s EXCEPT !.cur = @ + 1, !.seen = TRUE]
             ELSE Error(s, f.tag, "IncorrectDataFormatForValue")

\* Mutant: an entry without a field is an entry.
GroupEntryMayBeEmpty(m, r, group) ==
    FoldLeft(LAMBDA s, f : GroupField(m, s, f), [r EXCEPT !.seen = FALSE], group.fields)

\* One entry: its fields in the order of the schema, at least one of them.
GroupEntry(m, r, group) ==
    LET s == FoldLeft(LAMBDA q, f : GroupField(m, q, f), [r EXCEPT !.seen = FALSE], group.fields)
    IN  IF r.returned THEN r
        ELSE IF ~ s.returned /\ ~ s.seen THEN Error(s, group.tag, "IncorrectNumInGroupCount")
        ELSE s

\* An error inside a group ends the group, not the loop over the fields.
validate_groups_(m, r, group, n) ==
    LET s == FoldLeft(LAMBDA q, i : GroupEntry(m, q, group), r, [i \in 1..n |-> i])
    IN  [s EXCEPT !.returned = FALSE]

Field(m, r, f) ==
    LET at == SelectInSeq(m, LAMBDA g : g.tag = f.tag)
        s  == [r EXCEPT !.bits = @ \cup {at - 1}]
    IN  IF r.returned THEN r
        ELSE IF at = 0 THEN IF f.required THEN Error(r, f.tag, "RequiredTagMissing") ELSE r
        ELSE IF f.type = "GROUP"
             THEN IF parse_int(m[at].value)
                  THEN validate_groups_(m, [s EXCEPT !.cur = at + 1], f, NumberOf[m[at].value])
                  ELSE Error(s, f.tag, "IncorrectNumInGroupCount")
        ELSE IF validate_type_(m[at].value, f.type) THEN s
        ELSE Error(s, f.tag, "IncorrectDataFormatForValue")

validate_fields_(m, r, schema) ==
    FoldLeft(LAMBDA s, f : Field(m, s, f), [r EXCEPT !.returned = FALSE], schema)

validate_header_(m, r, type) ==
    IF Len(m) < 3 THEN Fatal(r, 8, "RequiredTagMissing")
    ELSE IF m[1].value # Version THEN Fatal(r, 8, "Other")
    ELSE IF ~ validate_type_(m[2].value, "INT") THEN Error(r, 9, "IncorrectDataFormatForValue")
    ELSE IF m[3].value # type THEN Error(r, 35, "IncorrectDataFormatForValue")
    ELSE IF ~ (Has(m, 34) /\ validate_type_(Slot(m, 34), "INT"))
         THEN Fatal(r, 34, "IncorrectDataFormatForValue")
    ELSE IF ~ (Has(m, 49) /\ Slot(m, 49) = Sender) THEN Fatal(r, 49, "CompIDProblem")
    ELSE IF ~ (Has(m, 56) /\ Slot(m, 56) = Target) THEN Fatal(r, 56, "CompIDProblem")
    ELSE validate_fields_(m, r, HeaderSchema)

\* TagScratch::full(size), word by word: whole words and the rest.
Word(set, i) == {b \in 0..(WordBits - 1) : i * WordBits + b \in set}

\* Mutant: the last word, which is not whole, is not looked at.
fullWholeWords(set, size) ==
    \A i \in 0..(size \div WordBits - 1) : Word(set, i) = 0..(WordBits - 1)

full(set, size) ==
    LET q == size \div WordBits
        rest == size % WordBits
    IN  /\ \A i \in 0..(q - 1) : Word(set, i) = 0..(WordBits - 1)
        /\ rest # 0 => 0..(rest - 1) \subseteq Word(set, q)

(***************************************************************************)
(* validate_message: what it clears first, and the checks.                 *)
(***************************************************************************)
\* Mutant: one word too few.
ensure_bitsShort(size) == IF words < size \div WordBits THEN size \div WordBits ELSE words

ensure_bits(size) == IF words < size \div WordBits + 1 THEN size \div WordBits + 1 ELSE words

\* Mutant: results_ is not cleared.
BeginKeepsResults(m) ==
    /\ phase = "idle" /\ phase' = "checking" /\ msg' = m
    /\ words' = ensure_bits(Len(m)) /\ bits' = {}
    /\ UNCHANGED <<errors, severity>>

Begin(m) ==
    /\ phase = "idle" /\ phase' = "checking" /\ msg' = m
    /\ words' = ensure_bits(Len(m)) /\ bits' = {}
    /\ errors' = <<>> /\ severity' = "Moderate"

Fresh == [bits |-> bits, errors |-> errors, severity |-> severity,
          returned |-> FALSE, cur |-> 0, seen |-> FALSE]

\* After header, body and trailer.  A field nobody asked for is reported if
\* there is no other error.
Checked(m, type) ==
    LET h == validate_header_(m, Fresh, type)
        b == validate_fields_(m, h, BodySchema[type])
        t == validate_fields_(m, b, TrailerSchema)
    IN  IF t.errors = <<>> /\ ~ full(t.bits, Len(m))
        THEN Error(t, 0, "InvalidTagNumber") ELSE t

Finish(r) ==
    /\ bits' = r.bits /\ errors' = r.errors /\ severity' = r.severity
    /\ phase' = "done" /\ UNCHANGED <<words, msg>>

NoType == ~ Has(msg, 35) /\ Finish(Error(Fresh, 35, "RequiredTagMissing"))

UnknownType ==
    /\ Has(msg, 35) /\ ~ registered(Slot(msg, 35))
    /\ Finish(Error(Fresh, 0, "InvalidMsgType"))

KnownType ==
    /\ Has(msg, 35) /\ registered(Slot(msg, 35))
    /\ Finish(Checked(msg, Slot(msg, 35)))

validate_message == phase = "checking" /\ (NoType \/ UnknownType \/ KnownType)

\* What dispatch does with the results.
Outcome ==
    IF severity = "Fatal" THEN "logout"
    ELSE IF errors # <<>> THEN "reject"
    ELSE IF ~ (Has(msg, 35) /\ has_msg_seq_num(msg)) THEN "drop"
    ELSE "handle"

dispatch ==
    /\ phase = "done" /\ phase' = "idle"
    /\ UNCHANGED <<words, bits, errors, severity, msg>>

Next == (\E m \in Messages : Begin(m)) \/ validate_message \/ dispatch

Spec == Init /\ [][Next]_vars

(***************************************************************************)
(* Reference: a message that conforms, as a statement about positions.     *)
(***************************************************************************)
\* The positions behind i that hold fields of the group f, without a break.
Block(m, i, f) == {j \in DOMAIN m : j > i /\ \A k \in (i + 1)..j : m[k].tag \in FieldTags(f)}

Order(f, tag) == SelectInSeq(f.fields, LAMBDA g : g.tag = tag)

\* An entry begins where the order of the schema starts again.
Starts(m, i, f) ==
    {j \in Block(m, i, f) : j = i + 1 \/ Order(f, m[j].tag) <= Order(f, m[j - 1].tag)}

Entry(m, i, f, s) ==
    {j \in Block(m, i, f) : j >= s /\ \A t \in Starts(m, i, f) : t <= j => t <= s}

GroupConforms(m, i, f) ==
    /\ parse_int(m[i].value)
    /\ NumberOf[m[i].value] = Cardinality(Starts(m, i, f))
    /\ \A s \in Starts(m, i, f), k \in DOMAIN f.fields :
         f.fields[k].required => \E j \in Entry(m, i, f, s) : m[j].tag = f.fields[k].tag
    /\ \A j \in Block(m, i, f) :
         validate_type_(m[j].value, f.fields[Order(f, m[j].tag)].type)

Conforms(m) ==
    /\ Has(m, 35) /\ Slot(m, 35) \in ToSet(SortedTypes)
    /\ Len(m) >= 3 /\ m[1].value = Version /\ is_int_type(m[2].value)
    /\ m[3].value = Slot(m, 35)
    /\ Has(m, 49) /\ Slot(m, 49) = Sender /\ Has(m, 56) /\ Slot(m, 56) = Target
    /\ \A f \in Schema(Slot(m, 35)) : f.required => Has(m, f.tag)
    /\ \A i \in DOMAIN m :
         \/ \E f \in Schema(Slot(m, 35)) :
              /\ f.tag = m[i].tag /\ \A j \in DOMAIN m : m[j].tag = f.tag => j = i
              /\ IF f.type = "GROUP" THEN GroupConforms(m, i, f)
                 ELSE validate_type_(m[i].value, f.type)
         \/ \E c \in DOMAIN m, f \in Schema(Slot(m, 35)) :
              f.type = "GROUP" /\ f.tag = m[c].tag /\ i \in Block(m, c, f)

(***************************************************************************)
(* Properties.                                                             *)
(***************************************************************************)
\* Types, and that TagScratch::set and full stay inside its words.
TypeOK ==
    /\ words \in Nat /\ bits \subseteq 0..(words * WordBits - 1)
    /\ phase # "idle" => Len(msg) <= words * WordBits
    /\ severity \in {"Moderate", "Fatal"} /\ phase \in {"idle", "checking", "done"}

\* validate_message reports no error exactly for the messages that conform,
\* whatever was validated before.
VerdictExact == phase = "done" => (errors = <<>> <=> Conforms(msg))

\* The first error, which goes into the Reject, is true of the message: a
\* tag of the message level reported missing is missing, and a field nobody
\* asked for is reported only if no required field is missing.
FirstErrorTrue ==
    phase = "done" /\ errors # <<>> /\ severity # "Fatal" /\ Has(msg, 35) =>
      LET e == Head(errors)
      IN  /\ e.code = "RequiredTagMissing" /\ (\E f \in Schema(Slot(msg, 35)) : f.tag = e.tag)
               => ~ Has(msg, e.tag)
          /\ e.code = "InvalidTagNumber" =>
               \A f \in Schema(Slot(msg, 35)) : f.required => Has(msg, f.tag)

\* dispatch relies on the validator for the number it uses: a message that
\* passed has one MsgSeqNum, so the field that was checked is the one that
\* was read, and it is handled if from_chars takes that field.  Otherwise it
\* is dropped without an answer, though a comment in dispatch has it that
\* the validator would have caught it: the number has a sign or is too large.
PassedSeqNum ==
    phase = "done" /\ errors = <<>> =>
      \E i \in DOMAIN msg :
        /\ \A j \in DOMAIN msg : msg[j].tag = 34 <=> j = i
        /\ \/ Outcome = "handle" /\ msg[i].value \in Digits /\ NumberOf[msg[i].value] <= SeqNumMax
           \/ Outcome = "drop" /\ msg[i].value \in Plus \cup Minus
           \/ Outcome = "drop" /\ NumberOf[msg[i].value] > SeqNumMax
=============================================================================
