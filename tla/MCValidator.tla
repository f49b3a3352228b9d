---------------------------- MODULE MCValidator -----------------------------
(***************************************************************************)
(* Validator with a part of the header, Logon and Custom.  The messages    *)
(* are six that conform, and each of these with a field left out, two      *)
(* neighbours swapped, a field put in or a value changed.  CheckSum is     *)
(* always last: the parser puts it there.  2 is the largest int, 3 the     *)
(* largest uint64_t: a count of 3 and a MsgSeqNum of 4 are out of range.   *)
(***************************************************************************)
EXTENDS Validator

F(tag, type, required) == [tag |-> tag, type |-> type, required |-> required, fields |-> <<>>]

G(tag, fields) == [tag |-> tag, type |-> "GROUP", required |-> FALSE, fields |-> fields]

MCHeader == <<F(8, "STRING", TRUE), F(9, "INT", TRUE), F(35, "STRING", TRUE),
              F(49, "STRING", TRUE), F(56, "STRING", TRUE), F(34, "INT", TRUE),
              F(97, "BOOLEAN", FALSE),
              G(627, <<F(628, "STRING", FALSE), F(629, "STRING", FALSE), F(630, "INT", FALSE)>>)>>

MCTrailer == <<F(10, "INT", TRUE)>>

MCLogon == <<F(98, "INT", TRUE), F(108, "INT", TRUE), F(141, "BOOLEAN", FALSE),
             G(384, <<F(372, "STRING", TRUE), F(385, "CHAR", TRUE)>>)>>

MCCustom == <<F(9250, "STRING", TRUE)>>

MCTypes == <<"A", "cu">>
MCBody == [t \in {"A", "cu"} |-> IF t = "A" THEN MCLogon ELSE MCCustom]
MCNumber == ("0" :> 0) @@ ("1" :> 1) @@ ("2" :> 2) @@ ("3" :> 3) @@ ("4" :> 4)
              @@ ("+1" :> 1) @@ ("-0" :> 0) @@ ("-1" :> -1)
MCValues == {"FIX", "A", "cu", "D", "them", "me", "x", "S", "Y"} \cup DOMAIN MCNumber
MCRank == [v \in MCValues |-> CASE v = "A" -> 1 [] v = "D" -> 2 [] v = "cu" -> 3 [] OTHER -> 4]

V(tag, value) == [tag |-> tag, value |-> value]

Head8(type) == <<V(8, "FIX"), V(9, "1"), V(35, type), V(49, "them"), V(56, "me"), V(34, "1")>>
Hops == <<V(627, "2"), V(628, "x"), V(630, "1"), V(629, "x")>>
Types == <<V(384, "2"), V(372, "cu"), V(385, "S"), V(372, "D"), V(385, "S")>>
Plain == <<V(98, "0"), V(108, "2")>>

Conforming ==
    {Head8("cu") \o <<V(9250, "x")>>, Head8("cu") \o Hops \o <<V(9250, "x")>>,
     Head8("A") \o Plain, Head8("A") \o Plain \o Types, Head8("A") \o Hops \o Plain,
     Head8("A") \o <<V(97, "Y")>> \o Types \o Plain}

Extra == {V(99, "x"), V(372, "x"), V(385, "S"), V(385, "them"), V(628, "x"), V(630, "x"),
          V(627, "1"), V(384, "1"), V(384, "0"), V(384, "x"), V(384, "-0"), V(98, "0"), V(34, "2"), V(34, "+1"), V(34, "4"),
          V(34, "x"), V(49, "x"), V(9250, "x"), V(141, "x")}

LeftOut(m) == {RemoveAt(m, i) : i \in DOMAIN m}
Swapped(m) == {[m EXCEPT ![i] = m[i + 1], ![i + 1] = m[i]] : i \in 1..(Len(m) - 1)}
PutIn(m) == {InsertAt(m, i, f) : i \in 1..(Len(m) + 1), f \in Extra}
Changed(m) == {[m EXCEPT ![i].value = v] : i \in DOMAIN m, v \in MCValues}

Edited == UNION {LeftOut(m) \cup Swapped(m) \cup PutIn(m) \cup Changed(m) : m \in Conforming}

MCMessages == {Append(m, V(10, "1")) : m \in Conforming \cup Edited \cup {<<V(35, "A")>>}}
=============================================================================
