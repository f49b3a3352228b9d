------------------------- MODULE SessionPairProofs -------------------------
(***************************************************************************)
(* The theorems about SessionPair: Inv is inductive, and with it the       *)
(* safety properties hold for every value of the constants: any number of  *)
(* lost connections, timeouts and application messages, any recovery       *)
(* window, with or without the reset options.                              *)
(*                                                                         *)
(* The first part says what each handler of Session.tla guarantees, for    *)
(* every record it may be given.  Three contracts cover all of them.       *)
(* Quiet(s, t): from s to t the session only sends, or changes its own     *)
(* lifecycle.  Own(s, t): what it has stored and sent stays in order,      *)
(* whatever it received.  Takes(s, t, m, st): in addition it may have      *)
(* consumed m, and what it knows of the peer stays true if the peer's      *)
(* store st vouches for m.                                                 *)
(*                                                                         *)
(* The last part is about the recovery cache.  ParkInv, inductive with     *)
(* Inv, orders what is on its way between the sessions.  Its contracts are *)
(* Passive(s, t): nothing is received; Turn(s, t, m): m is ignored,        *)
(* consumed at its number or parked; Streams(t, u): the resend loop sends  *)
(* one message again; Both(a, p): ParkInv of the two records.              *)
(***************************************************************************)
EXTENDS SessionPair, InductionLemmas, TLAPS

Extends(a, b) == Len(a) <= Len(b) /\ \A i \in 1..Len(a) : b[i] = a[i]

Quiet(s, t) ==
    /\ t \in SessionRecords
    /\ t.fault = "none" =>
         /\ s.fault = "none"
         /\ Extends(s.store, t.store)
         /\ OutSound(s) => OutSound(t)
         /\ t.nextIn = s.nextIn
         /\ t.delivered = s.delivered
         /\ t.cache \subseteq s.cache

Num(s, t) == t.fault = "none" /\ NumbersMatch(s) => NumbersMatch(t)

Own(s, t) ==
    /\ t \in SessionRecords
    /\ t.fault = "none" =>
         /\ s.fault = "none"
         /\ Extends(s.store, t.store)
         /\ OutSound(s) => OutSound(t)
         /\ NumbersMatch(s) => NumbersMatch(t)

Vouches(st, m) == StoreSound(st) /\ Faithful(m, st)

Takes(s, t, m, st) ==
    /\ Own(s, t)
    /\ t.fault = "none" /\ Vouches(st, m) /\ InSound(s, st) =>
         InSound(t, st) /\ t.nextIn >= s.nextIn

-----------------------------------------------------------------------------
(* Records and messages *)

\* The fields of a session record have their types.
LEMMA Fields ==
    ASSUME NEW s \in SessionRecords
    PROVE  /\ s.store \in Seq(Messages) /\ s.out \in Seq(Messages)
           /\ s.nextOut \in Nat /\ s.nextIn \in Nat /\ s.delivered \in Seq(Nat)
           /\ s.hb \in Nat /\ s.base \in Nat /\ s.rsCur \in Nat /\ s.rsEnd \in Nat
           /\ s.armed \in SUBSET Timers /\ s.cache \in SUBSET Messages
           /\ s.state \in SessionStates /\ s.fault \in Faults
           /\ s.stopped \in BOOLEAN
  BY DEF SessionRecords

\* The fields of a message that the proofs read have their types.
LEMMA MessageFields ==
    ASSUME NEW m \in Messages
    PROVE  /\ m.seq \in Nat /\ m.newSeq \in Nat /\ m.begin \in Nat /\ m.end \in Nat
           /\ m.hb \in Nat /\ m.reset \in BOOLEAN /\ m.response \in BOOLEAN
           /\ m.type \in MsgTypes
  BY DEF Messages

\* MessageFactory builds messages that carry no number yet.
LEMMA PlainType ==
    ASSUME NEW y \in MsgTypes
    PROVE  /\ Plain(y) \in Messages
           /\ Plain(y).type = y /\ Plain(y).reset = FALSE
           /\ y = "Unregistered" => Plain(y).check = "invalid"
  BY DEF Plain, Messages, MsgTypes, AdminTypes, Checks

\* What send_message_ may be given unnumbered (a from_app, a reply, a Logon).
Sendable(s, m) ==
    /\ m \in Messages
    /\ m.type # "SequenceReset"
    /\ m.reset => s.nextOut = 1
    /\ m.type = "Unregistered" => m.check = "invalid"

\* A message without fields of its own may be sent at any time.
LEMMA PlainSendable ==
    ASSUME NEW s, NEW y \in MsgTypes \ {"SequenceReset"}
    PROVE  Sendable(s, Plain(y))
  BY PlainType DEF Sendable

\* A Logon may be sent; one with 141=Y only when next_out is 1.
LEMMA LogonSendable ==
    ASSUME NEW s, NEW reset \in BOOLEAN, NEW hb \in Nat, reset => s.nextOut = 1
    PROVE  Sendable(s, LogonMsg(reset, hb))
  <1>1. Plain("Logon") \in Messages  BY PlainType DEF MsgTypes, AdminTypes
  <1>2. LogonMsg(reset, hb) \in Messages  BY <1>1 DEF LogonMsg, Messages
  <1>3. LogonMsg(reset, hb).type = "Logon" /\ LogonMsg(reset, hb).reset = reset
    BY DEF LogonMsg, Plain
  <1> QED  BY <1>2, <1>3 DEF Sendable

\* A ResendRequest of any range may be sent.
LEMMA ResendRequestSendable ==
    ASSUME NEW s, NEW b \in Nat, NEW e \in Nat
    PROVE  Sendable(s, ResendRequestMsg(b, e))
  <1>1. Plain("ResendRequest") \in Messages  BY PlainType DEF MsgTypes, AdminTypes
  <1>2. ResendRequestMsg(b, e) \in Messages  BY <1>1 DEF ResendRequestMsg, Messages
  <1>3. ResendRequestMsg(b, e).type = "ResendRequest" /\ ResendRequestMsg(b, e).reset = FALSE
    BY DEF ResendRequestMsg, Plain
  <1> QED  BY <1>2, <1>3 DEF Sendable

\* A Custom request or response may be sent.
LEMMA CustomSendable ==
    ASSUME NEW s, NEW response \in BOOLEAN
    PROVE  Sendable(s, CustomMsg(response))
  <1>1. Plain("Custom") \in Messages  BY PlainType DEF MsgTypes
  <1>2. CustomMsg(response) \in Messages  BY <1>1 DEF CustomMsg, Messages
  <1>3. CustomMsg(response).type = "Custom" /\ CustomMsg(response).reset = FALSE
    BY DEF CustomMsg, Plain
  <1> QED  BY <1>2, <1>3 DEF Sendable

\* A gap fill is a message, with the numbers it is made from.
LEMMA GapFillType ==
    ASSUME NEW b \in Nat, NEW n \in Nat
    PROVE  /\ GapFillMsg(b, n) \in Messages
           /\ GapFillMsg(b, n).type = "SequenceReset" /\ GapFillMsg(b, n).gapFill
           /\ GapFillMsg(b, n).seq = b /\ GapFillMsg(b, n).newSeq = n
  <1>1. Plain("SequenceReset") \in Messages  BY PlainType DEF MsgTypes, AdminTypes
  <1>2. GapFillMsg(b, n) \in Messages  BY <1>1 DEF GapFillMsg, Messages
  <1> QED  BY <1>2 DEF GapFillMsg, Plain

-----------------------------------------------------------------------------
(* The contracts *)

\* A store that grew twice has grown.
LEMMA ExtendsTrans ==
    ASSUME NEW a \in Seq(Messages), NEW b \in Seq(Messages), NEW c \in Seq(Messages),
           Extends(a, b), Extends(b, c)
    PROVE  Extends(a, c)
  BY DEF Extends

\* What is true of a message and a store stays true as the store grows.
LEMMA FaithfulExtends ==
    ASSUME NEW a \in Seq(Messages), NEW b \in Seq(Messages), Extends(a, b),
           NEW m \in Messages, Faithful(m, a)
    PROVE  Faithful(m, b)
  <1>1. Len(a) \in Nat /\ Len(b) \in Nat /\ Len(a) <= Len(b)  BY DEF Extends
  <1>2. m.seq \in Nat /\ m.newSeq \in Nat  BY MessageFields
  <1>3. CASE Copies(m, a)
    BY <1>1, <1>2, <1>3 DEF Faithful, Copies, Extends
  <1>4. CASE Fills(m, a)
    <2>1. \A i \in m.seq..(m.newSeq - 1) : i \in 1..Len(a) /\ b[i] = a[i]
      BY <1>1, <1>2, <1>4 DEF Fills, Extends
    <2>2. Fills(m, b)  BY <1>1, <1>2, <1>4, <2>1 DEF Fills
    <2> QED  BY <2>2 DEF Faithful
  <1> QED  BY <1>3, <1>4 DEF Faithful

\* A session knows no less of a peer whose store has grown.
LEMMA InSoundExtends ==
    ASSUME NEW s \in SessionRecords, NEW a \in Seq(Messages), NEW b \in Seq(Messages),
           Extends(a, b), InSound(s, a)
    PROVE  InSound(s, b)
  <1>1. s.nextIn \in Nat /\ s.cache \subseteq Messages  BY Fields
  <1>2. Len(a) \in Nat /\ Len(b) \in Nat /\ Len(a) <= Len(b)  BY DEF Extends
  <1>3. s.nextIn \in 1..(Len(b) + 1)  BY <1>1, <1>2 DEF InSound
  <1>4. {i \in Customs(a) : i < s.nextIn} = {i \in Customs(b) : i < s.nextIn}
    <2>1. ASSUME NEW i \in 1..Len(b), i < s.nextIn  PROVE i \in 1..Len(a) /\ b[i] = a[i]
      BY <1>1, <1>2, <2>1 DEF InSound, Extends
    <2>2. ASSUME NEW i \in 1..Len(a) PROVE i \in 1..Len(b) /\ b[i] = a[i]
      BY <1>2, <2>2 DEF Extends
    <2> QED  BY <2>1, <2>2 DEF Customs
  <1>5. OnceInOrder(s, b)  BY <1>4 DEF InSound, OnceInOrder
  <1>6. \A m \in s.cache : Faithful(m, b)  BY <1>1, FaithfulExtends DEF InSound
  <1> QED  BY <1>3, <1>5, <1>6 DEF InSound

\* The contract Quiet composes.
LEMMA QuietTrans ==
    ASSUME NEW s \in SessionRecords, NEW t, NEW u, Quiet(s, t), Quiet(t, u)
    PROVE  Quiet(s, u)
  <1>1. t \in SessionRecords /\ u \in SessionRecords  BY DEF Quiet
  <1>2. s.store \in Seq(Messages) /\ t.store \in Seq(Messages) /\ u.store \in Seq(Messages)
    BY <1>1, Fields
  <1>3. Extends(s.store, t.store) /\ Extends(t.store, u.store) => Extends(s.store, u.store)
    BY <1>2, ExtendsTrans
  <1> QED  BY <1>1, <1>3 DEF Quiet

\* The contract Own composes.
LEMMA OwnTrans ==
    ASSUME NEW s \in SessionRecords, NEW t, NEW u, Own(s, t), Own(t, u)
    PROVE  Own(s, u)
  <1>1. t \in SessionRecords /\ u \in SessionRecords  BY DEF Own
  <1>2. s.store \in Seq(Messages) /\ t.store \in Seq(Messages) /\ u.store \in Seq(Messages)
    BY <1>1, Fields
  <1>3. Extends(s.store, t.store) /\ Extends(t.store, u.store) => Extends(s.store, u.store)
    BY <1>2, ExtendsTrans
  <1> QED  BY <1>1, <1>3 DEF Own

\* The contract Takes composes.
LEMMA TakesTrans ==
    ASSUME NEW s \in SessionRecords, NEW t, NEW u, NEW m, NEW st,
           Takes(s, t, m, st), Takes(t, u, m, st)
    PROVE  Takes(s, u, m, st)
  <1>1. t \in SessionRecords /\ u \in SessionRecords  BY DEF Takes, Own
  <1>2. s.nextIn \in Nat /\ t.nextIn \in Nat /\ u.nextIn \in Nat  BY <1>1, Fields
  <1>3. Own(s, u)  BY OwnTrans DEF Takes
  <1>4. u.fault = "none" => t.fault = "none"  BY DEF Takes, Own
  <1> QED  BY <1>2, <1>3, <1>4 DEF Takes

\* A handler that only sends keeps what is known of the peer.
LEMMA QuietTakes ==
    ASSUME NEW s \in SessionRecords, NEW t, NEW m, NEW st, Quiet(s, t), Num(s, t)
    PROVE  Takes(s, t, m, st)
  <1>1. ASSUME t.fault = "none", InSound(s, st) PROVE InSound(t, st) /\ t.nextIn >= s.nextIn
    <2>1. s.nextIn \in Nat /\ t.nextIn = s.nextIn  BY <1>1, Fields DEF Quiet
    <2> QED  BY <1>1, <2>1 DEF InSound, Quiet, OnceInOrder, Delivered
  <1> QED  BY <1>1 DEF Quiet, Num, Takes, Own

\* Changing only lifecycle fields is quiet.
LEMMA QuietSame ==
    ASSUME NEW s \in SessionRecords, NEW t \in SessionRecords,
           t.store = s.store, t.out = s.out, t.nextIn = s.nextIn,
           t.delivered = s.delivered, t.cache \subseteq s.cache, t.fault = s.fault
    PROVE  Quiet(s, t)
  <1>1. s.store \in Seq(Messages)  BY Fields
  <1>2. Extends(s.store, t.store)  BY <1>1 DEF Extends
  <1> QED  BY <1>2 DEF Quiet, OutSound

-----------------------------------------------------------------------------
(* Sending *)

\* Fault leaves a session record, with a fault.
LEMMA FaultType ==
    ASSUME NEW s \in SessionRecords, NEW f \in Faults \ {"none"}
    PROVE  Fault(s, f) \in SessionRecords /\ Fault(s, f).fault # "none"
  BY DEF Fault, SessionRecords

\* send_bytes_ appends to what is on the wire, or faults on a null conn_.
LEMMA SendBytes ==
    ASSUME NEW s \in SessionRecords, NEW m \in Messages
    PROVE  /\ send_bytes_(s, m) \in SessionRecords
           /\ send_bytes_(s, m).fault = "none" =>
                s.fault = "none" /\ send_bytes_(s, m) = [s EXCEPT !.out = Append(s.out, m)]
  <1>1. Append(s.out, m) \in Seq(Messages)  BY Fields
  <1>2. \A x \in Seq(Messages) : [s EXCEPT !.out = x] \in SessionRecords
    BY DEF SessionRecords
  <1>3. \A x : [s EXCEPT !.out = x].fault = s.fault  BY DEF SessionRecords
  <1> QED  BY <1>1, <1>2, <1>3, FaultType DEF send_bytes_, Faults

\* store_outbound_message appends a message that carries the next index,
\* or fails its assert.
LEMMA StoreOutbound ==
    ASSUME NEW s \in SessionRecords, NEW m \in Messages
    PROVE  /\ store_outbound_message(s, m) \in SessionRecords
           /\ store_outbound_message(s, m).fault = "none" =>
                /\ s.fault = "none" /\ m.seq = Len(s.store) + 1
                /\ store_outbound_message(s, m) = [s EXCEPT !.store = Append(s.store, m)]
  <1>1. Append(s.store, m) \in Seq(Messages)  BY Fields
  <1>2. \A x \in Seq(Messages) : [s EXCEPT !.store = x] \in SessionRecords
    BY DEF SessionRecords
  <1>3. \A x : [s EXCEPT !.store = x].fault = s.fault  BY DEF SessionRecords
  <1> QED  BY <1>1, <1>2, <1>3, FaultType DEF store_outbound_message, Faults

\* send_message_ writes, stores unless it resends, and changes nothing else
\* that the contracts speak of.
LEMMA SendMessage ==
    ASSUME NEW s \in SessionRecords, NEW m \in Messages, NEW is_resend \in BOOLEAN
    PROVE  LET t == send_message_(s, m, is_resend) IN
           /\ t \in SessionRecords
           /\ s.stopped => t = s
           /\ ~ s.stopped /\ t.fault = "none" =>
                /\ s.fault = "none"
                /\ t.out = Append(s.out, m)
                /\ t.store = IF is_resend THEN s.store ELSE Append(s.store, m)
                /\ ~ is_resend => m.seq = Len(s.store) + 1
                /\ t.nextIn = s.nextIn /\ t.delivered = s.delivered
                /\ t.cache = s.cache /\ t.nextOut = s.nextOut
  <1> DEFINE w == send_bytes_(s, m)
             k == IF is_resend THEN w ELSE store_outbound_message(w, m)
             t == [k EXCEPT !.armed = IF Live(s) THEN @ \cup {"heartbeat"} ELSE @]
  <1>1. w \in SessionRecords /\ k \in SessionRecords  BY SendBytes, StoreOutbound
  <1>2. t \in SessionRecords /\ t.fault = k.fault /\ t.out = k.out /\ t.store = k.store
        /\ t.nextIn = k.nextIn /\ t.delivered = k.delivered /\ t.cache = k.cache
        /\ t.nextOut = k.nextOut
    <2> HIDE DEF k
    <2> QED  BY <1>1 DEF SessionRecords, Timers
  <1>3. ASSUME k.fault = "none"
        PROVE  /\ s.fault = "none" /\ k.out = Append(s.out, m)
               /\ k.store = IF is_resend THEN s.store ELSE Append(s.store, m)
               /\ ~ is_resend => m.seq = Len(s.store) + 1
               /\ k.nextIn = s.nextIn /\ k.delivered = s.delivered
               /\ k.cache = s.cache /\ k.nextOut = s.nextOut
    <2>1. w.fault = "none"  BY <1>1, <1>3, StoreOutbound
    <2>2. s.fault = "none" /\ w = [s EXCEPT !.out = Append(s.out, m)]  BY <2>1, SendBytes
    <2>3. /\ w.out = Append(s.out, m) /\ w.store = s.store /\ w.nextIn = s.nextIn
          /\ w.delivered = s.delivered /\ w.cache = s.cache /\ w.nextOut = s.nextOut
      BY <2>2 DEF SessionRecords
    <2> HIDE DEF w
    <2>4. CASE is_resend  BY <2>2, <2>3, <2>4
    <2>5. CASE ~ is_resend
      <3>1. m.seq = Len(w.store) + 1 /\ k = [w EXCEPT !.store = Append(w.store, m)]
        BY <1>1, <1>3, <2>5, StoreOutbound
      <3>2. /\ k.store = Append(w.store, m) /\ k.out = w.out /\ k.nextIn = w.nextIn
            /\ k.delivered = w.delivered /\ k.cache = w.cache /\ k.nextOut = w.nextOut
        BY <1>1, <3>1 DEF SessionRecords
      <3> QED  BY <2>2, <2>3, <2>5, <3>1, <3>2
    <2> QED  BY <2>4, <2>5
  <1>4. send_message_(s, m, is_resend) = IF s.stopped THEN s ELSE t
    BY DEF send_message_
  <1> HIDE DEF t, k, w
  <1> QED  BY <1>2, <1>3, <1>4, Fields

\* Appending a message that carries the next number keeps a store sound.
LEMMA AppendSound ==
    ASSUME NEW st \in Seq(Messages), NEW m \in Messages, StoreSound(st),
           m.seq = Len(st) + 1, m.type # "SequenceReset", m.reset => m.seq = 1,
           m.type = "Unregistered" => m.check = "invalid"
    PROVE  StoreSound(Append(st, m))
  <1>1. Append(st, m) \in Seq(Messages) /\ Len(Append(st, m)) = Len(st) + 1  OBVIOUS
  <1>2. \A i \in 1..Len(st) : Append(st, m)[i] = st[i]  OBVIOUS
  <1>3. Append(st, m)[Len(st) + 1] = m  OBVIOUS
  <1>4. \A i \in 1..Len(Append(st, m)) : i \in 1..Len(st) \/ i = Len(st) + 1  BY <1>1
  <1> HIDE DEF StoreSound
  <1> QED  BY <1>1, <1>2, <1>3, <1>4 DEF StoreSound

\* What is written stays faithful when a faithful message is added to it.
LEMMA AppendOut ==
    ASSUME NEW o \in Seq(Messages), NEW st, NEW m \in Messages, Faithful(m, st),
           \A k \in 1..Len(o) : Faithful(o[k], st)
    PROVE  \A k \in 1..Len(Append(o, m)) : Faithful(Append(o, m)[k], st)
  <1>1. Len(Append(o, m)) = Len(o) + 1  OBVIOUS
  <1>2. \A k \in 1..Len(o) : Append(o, m)[k] = o[k]  OBVIOUS
  <1>3. Append(o, m)[Len(o) + 1] = m  OBVIOUS
  <1>4. \A k \in 1..Len(Append(o, m)) : k \in 1..Len(o) \/ k = Len(o) + 1  BY <1>1
  <1> QED  BY <1>2, <1>3, <1>4

\* Numbering and sending a message: the store grows by it, and afterwards the
\* numbers match whatever they were before (else the store's assert fails).
LEMMA SendQuiet ==
    ASSUME NEW s \in SessionRecords, NEW m, Sendable(s, m)
    PROVE  /\ Quiet(s, Send(s, m))
           /\ Send(s, m).fault = "none" => NumbersMatch(Send(s, m))
  <1> DEFINE a == [s EXCEPT !.nextOut = @ + 1]
             n == [m EXCEPT !.seq = s.nextOut]
             t == send_message_(a, n, FALSE)
  <1>1. s.nextOut \in Nat /\ s.nextOut + 1 \in Nat  BY Fields
  <1>2. /\ n \in Messages /\ n.seq = s.nextOut /\ n.type = m.type
        /\ n.reset = m.reset /\ n.check = m.check
    BY <1>1 DEF Messages, Sendable
  <1>3. a \in SessionRecords
    <2>1. \A x \in Nat : [s EXCEPT !.nextOut = x] \in SessionRecords  BY DEF SessionRecords
    <2> QED  BY <1>1, <2>1
  <1>4. /\ a.nextOut = s.nextOut + 1 /\ a.store = s.store /\ a.out = s.out
        /\ a.nextIn = s.nextIn /\ a.delivered = s.delivered /\ a.cache = s.cache
        /\ a.fault = s.fault /\ a.stopped = s.stopped
    BY DEF SessionRecords
  <1>5. Send(s, m) = t  BY DEF Send
  <1> HIDE DEF a, n
  <1>6. /\ t \in SessionRecords
        /\ a.stopped => t = a
        /\ ~ a.stopped /\ t.fault = "none" =>
             /\ a.fault = "none" /\ t.out = Append(a.out, n) /\ t.store = Append(a.store, n)
             /\ n.seq = Len(a.store) + 1 /\ t.nextIn = a.nextIn
             /\ t.delivered = a.delivered /\ t.cache = a.cache /\ t.nextOut = a.nextOut
    BY <1>2, <1>3, SendMessage
  <1> HIDE DEF t
  <1>7. CASE s.stopped
    <2>1. t = a  BY <1>4, <1>6, <1>7
    <2>2. Quiet(s, a)  BY <1>3, <1>4, QuietSame
    <2> QED  BY <1>4, <1>5, <1>7, <2>1, <2>2 DEF NumbersMatch
  <1>8. CASE ~ s.stopped /\ t.fault = "none"
    <2>1. /\ s.fault = "none" /\ t.out = Append(s.out, n) /\ t.store = Append(s.store, n)
          /\ n.seq = Len(s.store) + 1 /\ t.nextIn = s.nextIn /\ t.delivered = s.delivered
          /\ t.cache = s.cache /\ t.nextOut = s.nextOut + 1
      BY <1>4, <1>6, <1>8
    <2>2. s.store \in Seq(Messages) /\ s.out \in Seq(Messages)  BY Fields
    <2>3. Extends(s.store, t.store)  BY <1>2, <2>1, <2>2 DEF Extends
    <2>4. t.store \in Seq(Messages) /\ Len(t.store) = Len(s.store) + 1
          /\ t.store[Len(s.store) + 1] = n
      BY <1>2, <2>1, <2>2
    <2>5. Len(t.store) = t.nextOut - 1
      <3>1. Len(t.store) = s.nextOut /\ t.nextOut = s.nextOut + 1  BY <1>2, <2>1, <2>4
      <3> QED  BY <1>1, <3>1
    <2>6. ASSUME OutSound(s) PROVE OutSound(t)
      <3>1. StoreSound(s.store)  BY <2>6 DEF OutSound
      <3>2. n.reset => n.seq = 1  BY <1>2 DEF Sendable
      <3>3. n.type # "SequenceReset" /\ (n.type = "Unregistered" => n.check = "invalid")
        BY <1>2 DEF Sendable
      <3>4. StoreSound(t.store)  BY <1>2, <2>1, <2>2, <3>1, <3>2, <3>3, AppendSound
      <3>5. Faithful(n, t.store)  BY <2>1, <2>2, <2>4 DEF Faithful, Copies
      <3>6. \A k \in 1..Len(s.out) : Faithful(s.out[k], t.store)
        BY <2>2, <2>3, <2>4, <2>6, FaithfulExtends DEF OutSound
      <3>7. \A k \in 1..Len(t.out) : Faithful(t.out[k], t.store)
        BY <1>2, <2>1, <2>2, <3>5, <3>6, AppendOut
      <3> QED  BY <3>4, <3>7 DEF OutSound
    <2> QED  BY <1>5, <1>6, <2>1, <2>3, <2>5, <2>6 DEF Quiet, NumbersMatch
  <1>9. CASE t.fault # "none"  BY <1>5, <1>6, <1>9 DEF Quiet
  <1> QED  BY <1>7, <1>8, <1>9

\* Sending again what the store already vouches for.
LEMMA ResendQuiet ==
    ASSUME NEW s \in SessionRecords, NEW m \in Messages, Faithful(m, s.store)
    PROVE  /\ Quiet(s, send_message_(s, m, TRUE))
           /\ Num(s, send_message_(s, m, TRUE))
  <1> DEFINE t == send_message_(s, m, TRUE)
  <1>1. /\ t \in SessionRecords
        /\ s.stopped => t = s
        /\ ~ s.stopped /\ t.fault = "none" =>
             /\ s.fault = "none" /\ t.out = Append(s.out, m) /\ t.store = s.store
             /\ t.nextIn = s.nextIn /\ t.delivered = s.delivered
             /\ t.cache = s.cache /\ t.nextOut = s.nextOut
    BY SendMessage
  <1> SUFFICES Quiet(s, t) /\ Num(s, t)  OBVIOUS
  <1> HIDE DEF t
  <1>2. s.store \in Seq(Messages) /\ s.out \in Seq(Messages)  BY Fields
  <1>3. CASE s.stopped
    <2>1. t = s  BY <1>1, <1>3
    <2> QED  BY <2>1, QuietSame DEF Num
  <1>4. CASE ~ s.stopped /\ t.fault = "none"
    <2>1. /\ s.fault = "none" /\ t.out = Append(s.out, m) /\ t.store = s.store
          /\ t.nextIn = s.nextIn /\ t.delivered = s.delivered
          /\ t.cache = s.cache /\ t.nextOut = s.nextOut
      BY <1>1, <1>4
    <2>2. OutSound(s) => OutSound(t)  BY <1>2, <2>1, AppendOut DEF OutSound
    <2>3. Extends(s.store, t.store)  BY <1>2, <2>1 DEF Extends
    <2> QED  BY <1>1, <1>4, <2>1, <2>2, <2>3 DEF Quiet, Num, NumbersMatch
  <1>5. CASE t.fault # "none"  BY <1>1, <1>5 DEF Quiet, Num
  <1> QED  BY <1>3, <1>4, <1>5

-----------------------------------------------------------------------------
(* Lifecycle *)

\* Fields that neither contract reads may change freely.
LEMMA Tidy ==
    ASSUME NEW s \in SessionRecords, NEW t \in SessionRecords,
           t.store = s.store, t.out = s.out, t.nextIn = s.nextIn,
           t.delivered = s.delivered, t.cache \subseteq s.cache, t.fault = s.fault,
           t.nextOut = s.nextOut, s.stopped => t.stopped
    PROVE  Quiet(s, t) /\ Num(s, t)
  <1>1. Quiet(s, t)  BY QuietSame
  <1>2. Num(s, t)  BY DEF Num, NumbersMatch
  <1> QED  BY <1>1, <1>2

\* A Send followed by changes of lifecycle fields.
LEMMA SendTidy ==
    ASSUME NEW s \in SessionRecords, NEW m, Sendable(s, m), NEW t \in SessionRecords,
           LET u == Send(s, m) IN
             /\ t.store = u.store /\ t.out = u.out /\ t.nextIn = u.nextIn
             /\ t.delivered = u.delivered /\ t.cache \subseteq u.cache
             /\ t.fault = u.fault /\ t.nextOut = u.nextOut /\ (u.stopped => t.stopped)
    PROVE  Quiet(s, t) /\ (t.fault = "none" => NumbersMatch(t))
  <1> DEFINE u == Send(s, m)
  <1>1. Quiet(s, u) /\ (u.fault = "none" => NumbersMatch(u))  BY SendQuiet
  <1>2. u \in SessionRecords  BY <1>1 DEF Quiet
  <1>3. Quiet(u, t) /\ Num(u, t)  BY <1>2, Tidy
  <1>4. Quiet(s, t)  BY <1>1, <1>3, QuietTrans
  <1> QED  BY <1>1, <1>3, <1>4 DEF Num

\* stop_ only ends the session.
LEMMA StopQuiet ==
    ASSUME NEW s \in SessionRecords
    PROVE  Quiet(s, stop_(s)) /\ Num(s, stop_(s))
  <1> DEFINE t == stop_(s)
  <1>1. t \in SessionRecords
    <2> DEFINE x == [s EXCEPT !.stopped = TRUE, !.state = "DISCONNECTED"]
    <2>1. t \in {s, x, [x EXCEPT !.armed = {}, !.conn = "closed"]}  BY DEF stop_, SessionRecords
    <2>2. x \in SessionRecords  BY DEF SessionRecords, SessionStates
    <2> HIDE DEF x, t
    <2>3. [x EXCEPT !.armed = {}, !.conn = "closed"] \in SessionRecords
      BY <2>2 DEF SessionRecords
    <2> QED  BY <2>1, <2>2, <2>3
  <1>2. /\ t.store = s.store /\ t.out = s.out /\ t.nextIn = s.nextIn
        /\ t.delivered = s.delivered /\ t.cache = s.cache /\ t.fault = s.fault
        /\ t.nextOut = s.nextOut /\ (s.stopped => t.stopped)
    BY DEF stop_, SessionRecords
  <1> HIDE DEF t
  <1>3. Quiet(s, t) /\ Num(s, t)  BY <1>1, <1>2, Tidy
  <1> QED  BY <1>3 DEF t

\* stop_with_logout sends, and leaves the numbers in step.
LEMMA LogoutSent ==
    ASSUME NEW s \in SessionRecords
    PROVE  Quiet(s, stop_with_logout(s)) /\ Num(s, stop_with_logout(s))
  <1> DEFINE u == Send(s, Plain("Logout"))
             t == [u EXCEPT !.state = "AWAITING_LOGOUT", !.armed = @ \cup {"logout"}]
  <1>1. Sendable(s, Plain("Logout"))  BY PlainSendable DEF MsgTypes, AdminTypes
  <1>2. u \in SessionRecords  BY <1>1, SendQuiet DEF Quiet
  <1>3. /\ t \in SessionRecords /\ t.store = u.store /\ t.out = u.out
        /\ t.nextIn = u.nextIn /\ t.delivered = u.delivered /\ t.cache = u.cache
        /\ t.fault = u.fault /\ t.nextOut = u.nextOut /\ t.stopped = u.stopped
    <2> HIDE DEF u
    <2> QED  BY <1>2 DEF SessionRecords, SessionStates, Timers
  <1> HIDE DEF t
  <1>4. Quiet(s, t) /\ (t.fault = "none" => NumbersMatch(t))
    BY <1>1, <1>3, SendTidy
  <1>5. CASE s.stopped
    BY <1>5, Tidy DEF stop_with_logout
  <1>6. CASE ~ s.stopped
    BY <1>4, <1>6 DEF stop_with_logout, t, Num
  <1> QED  BY <1>5, <1>6

\* The handshake sends at most a Logon.
LEMMA HandshakeQuiet ==
    ASSUME NEW s \in SessionRecords, NEW reset \in BOOLEAN, reset => s.nextOut = 1
    PROVE  /\ Quiet(s, Handshake(s, reset)) /\ Num(s, Handshake(s, reset))
           /\ s.role = "INITIATOR" /\ Handshake(s, reset).fault = "none" =>
                NumbersMatch(Handshake(s, reset))
  <1>1. CASE s.role = "INITIATOR"
    <2> DEFINE u == Send(s, LogonMsg(reset, s.hb))
               t == [u EXCEPT !.state = "LOGON_SENT", !.armed = @ \cup {"logon"}]
    <2>1. Sendable(s, LogonMsg(reset, s.hb))  BY Fields, LogonSendable
    <2>2. u \in SessionRecords  BY <2>1, SendQuiet DEF Quiet
    <2>3. /\ t \in SessionRecords /\ t.store = u.store /\ t.out = u.out
          /\ t.nextIn = u.nextIn /\ t.delivered = u.delivered /\ t.cache = u.cache
          /\ t.fault = u.fault /\ t.nextOut = u.nextOut /\ t.stopped = u.stopped
      <3> HIDE DEF u
      <3> QED  BY <2>2 DEF SessionRecords, SessionStates, Timers
    <2>4. Handshake(s, reset) = t  BY <1>1 DEF Handshake
    <2> HIDE DEF t
    <2>5. Quiet(s, t) /\ (t.fault = "none" => NumbersMatch(t))
      BY <2>1, <2>3, SendTidy
    <2> QED  BY <2>4, <2>5 DEF Num
  <1>2. CASE s.role # "INITIATOR"
    <2> DEFINE t == [s EXCEPT !.state = "AWAITING_LOGON", !.armed = @ \cup {"logon"}]
    <2>1. /\ t \in SessionRecords /\ t.store = s.store /\ t.out = s.out
          /\ t.nextIn = s.nextIn /\ t.delivered = s.delivered /\ t.cache = s.cache
          /\ t.fault = s.fault /\ t.nextOut = s.nextOut /\ t.stopped = s.stopped
      BY DEF SessionRecords, SessionStates, Timers
    <2>2. Handshake(s, reset) = t  BY <1>2 DEF Handshake
    <2> HIDE DEF t
    <2>3. Quiet(s, t) /\ Num(s, t)  BY <2>1, Tidy
    <2> QED  BY <1>2, <2>2, <2>3
  <1> QED  BY <1>1, <1>2

\* A first start resets nothing that is not already at its start.
LEMMA StartNormalQuiet ==
    ASSUME NEW s \in SessionRecords, s.nextIn = 1
    PROVE  Quiet(s, start_normal_(s)) /\ Num(s, start_normal_(s))
  <1> USE SessionAssumption
  <1>1. CASE s.conn = "null"  BY <1>1, Tidy DEF start_normal_
  <1>2. CASE s.conn # "null" /\ s.role = "INITIATOR" /\ InitiatorReset
    <2> DEFINE a == [s EXCEPT !.nextIn = 1, !.nextOut = 1]
    <2>1. /\ a \in SessionRecords /\ a.nextIn = s.nextIn /\ a.nextOut = 1
          /\ a.store = s.store /\ a.out = s.out /\ a.delivered = s.delivered
          /\ a.cache = s.cache /\ a.fault = s.fault /\ a.role = s.role
      BY DEF SessionRecords
    <2>2. start_normal_(s) = Handshake(a, TRUE)  BY <1>2 DEF start_normal_
    <2> HIDE DEF a
    <2>3. Quiet(s, a)  BY <2>1, QuietSame
    <2>4. /\ Quiet(a, Handshake(a, TRUE))
          /\ Handshake(a, TRUE).fault = "none" => NumbersMatch(Handshake(a, TRUE))
      BY <1>2, <2>1, HandshakeQuiet
    <2>5. Quiet(s, Handshake(a, TRUE))  BY <2>3, <2>4, QuietTrans
    <2> QED  BY <2>2, <2>4, <2>5 DEF Num
  <1>3. CASE s.conn # "null" /\ ~ (s.role = "INITIATOR" /\ InitiatorReset)
    BY <1>3, HandshakeQuiet DEF start_normal_
  <1> QED  BY <1>1, <1>2, <1>3

\* start(RECONNECT) keeps both numbers and drops what was parked.
LEMMA StartAfterReconnectQuiet ==
    ASSUME NEW s \in SessionRecords
    PROVE  Quiet(s, start_after_reconnect_(s)) /\ Num(s, start_after_reconnect_(s))
  <1>1. CASE s.conn = "null" \/ s.stopped  BY <1>1, Tidy DEF start_after_reconnect_
  <1>2. CASE ~ (s.conn = "null" \/ s.stopped)
    <2> DEFINE a == [s EXCEPT !.awaitingTest = FALSE, !.reconnecting = FALSE,
                              !.cache = {}, !.base = 0]
    <2>1. /\ a \in SessionRecords /\ a.nextIn = s.nextIn /\ a.nextOut = s.nextOut
          /\ a.store = s.store /\ a.out = s.out /\ a.delivered = s.delivered
          /\ a.cache = {} /\ a.fault = s.fault /\ a.stopped = s.stopped
      BY DEF SessionRecords
    <2>2. start_after_reconnect_(s) = Handshake(a, FALSE)
      BY <1>2 DEF start_after_reconnect_
    <2> HIDE DEF a
    <2>3. Quiet(s, a) /\ Num(s, a)  BY <2>1, Tidy
    <2>4. Quiet(a, Handshake(a, FALSE)) /\ Num(a, Handshake(a, FALSE))
      BY <2>1, HandshakeQuiet
    <2>5. Quiet(s, Handshake(a, FALSE))  BY <2>3, <2>4, QuietTrans
    <2>6. Num(s, Handshake(a, FALSE))  BY <2>1, <2>3, <2>4 DEF Num, Quiet
    <2> QED  BY <2>2, <2>5, <2>6
  <1> QED  BY <1>1, <1>2

\* set_connection touches only conn_.
LEMMA SetConnectionQuiet ==
    ASSUME NEW s \in SessionRecords
    PROVE  Quiet(s, set_connection(s)) /\ Num(s, set_connection(s))
  <1> DEFINE t == set_connection(s)
  <1>1. /\ t \in SessionRecords /\ t.store = s.store /\ t.out = s.out
        /\ t.nextIn = s.nextIn /\ t.delivered = s.delivered /\ t.cache = s.cache
        /\ t.fault = s.fault /\ t.nextOut = s.nextOut /\ t.stopped = s.stopped
    BY DEF set_connection, SessionRecords
  <1> QED  BY <1>1, Tidy

\* on_transport_down_ keeps both numbers and drops what was parked.
LEMMA TransportDownQuiet ==
    ASSUME NEW s \in SessionRecords
    PROVE  Quiet(s, on_transport_down_(s)) /\ Num(s, on_transport_down_(s))
  <1> DEFINE t == on_transport_down_(s)
  <1>1. /\ t \in SessionRecords /\ t.store = s.store /\ t.out = s.out
        /\ t.nextIn = s.nextIn /\ t.delivered = s.delivered /\ t.cache \subseteq s.cache
        /\ t.fault = s.fault /\ t.nextOut = s.nextOut /\ t.stopped = s.stopped
    <2>1. CASE LosesTransport(s)
      <3>1. t = [s EXCEPT !.reconnecting = TRUE, !.conn = "null", !.armed = {},
                          !.state = "DISCONNECTED", !.cache = {}, !.base = 0]
        BY <2>1 DEF on_transport_down_
      <3> HIDE DEF t
      <3> QED  BY <3>1 DEF SessionRecords, SessionStates
    <2>2. CASE ~ LosesTransport(s)
      <3>1. t = s  BY <2>2 DEF on_transport_down_
      <3> HIDE DEF t
      <3> QED  BY <3>1
    <2> QED  BY <2>1, <2>2
  <1> HIDE DEF t
  <1>2. Quiet(s, t) /\ Num(s, t)  BY <1>1, Tidy
  <1> QED  BY <1>2 DEF t

-----------------------------------------------------------------------------
(* The recovery cache *)

\* Parking a message the peer's store vouches for.
LEMMA InsertTakes ==
    ASSUME NEW s \in SessionRecords, NEW m \in Messages, NEW st
    PROVE  Takes(s, insert(s, m), m, st)
  <1>1. CASE in_window(s, m.seq)
    <2> DEFINE t == [s EXCEPT !.cache = @ \cup {m}]
    <2>1. /\ t \in SessionRecords /\ t.store = s.store /\ t.out = s.out
          /\ t.nextIn = s.nextIn /\ t.delivered = s.delivered /\ t.fault = s.fault
          /\ t.nextOut = s.nextOut /\ t.stopped = s.stopped /\ t.cache = s.cache \cup {m}
      BY DEF SessionRecords
    <2>2. insert(s, m) = t  BY <1>1 DEF insert
    <2>3. s.store \in Seq(Messages)  BY Fields
    <2> HIDE DEF t
    <2>4. Extends(s.store, t.store)  BY <2>1, <2>3 DEF Extends
    <2>5. Vouches(st, m) /\ InSound(s, st) => InSound(t, st) /\ t.nextIn >= s.nextIn
      BY <2>1, Fields DEF Vouches, InSound, OnceInOrder, Delivered
    <2>6. OutSound(s) => OutSound(t)  BY <2>1 DEF OutSound
    <2>7. NumbersMatch(s) => NumbersMatch(t)  BY <2>1 DEF NumbersMatch
    <2> QED  BY <2>1, <2>2, <2>4, <2>5, <2>6, <2>7 DEF Takes, Own
  <1>2. CASE ~ in_window(s, m.seq)
    BY <1>2, FaultType DEF insert, Takes, Own, Faults
  <1> QED  BY <1>1, <1>2

\* Entering recovery sends a ResendRequest and parks the message.
LEMMA BeginRecoveryTakes ==
    ASSUME NEW s \in SessionRecords, NEW m \in Messages, NEW st, m.seq > s.nextIn
    PROVE  Takes(s, BeginRecovery(s, m), m, st)
  <1> DEFINE q == ResendRequestMsg(s.nextIn, m.seq - 1)
             u == Send(s, q)
             t == [u EXCEPT !.state = "RECOVERING_RESEND", !.cache = {}, !.base = s.nextIn]
  <1>1. s.nextIn \in Nat /\ m.seq - 1 \in Nat  BY Fields, MessageFields
  <1>2. Sendable(s, q)  BY <1>1, ResendRequestSendable
  <1> HIDE DEF q
  <1>3. u \in SessionRecords  BY <1>2, SendQuiet DEF Quiet
  <1>4. /\ t \in SessionRecords /\ t.store = u.store /\ t.out = u.out
        /\ t.nextIn = u.nextIn /\ t.delivered = u.delivered /\ t.cache = {}
        /\ t.fault = u.fault /\ t.nextOut = u.nextOut /\ t.stopped = u.stopped
    <2> HIDE DEF u
    <2> QED  BY <1>1, <1>3 DEF SessionRecords, SessionStates
  <1>5. BeginRecovery(s, m) = insert(t, m)  BY DEF BeginRecovery, q
  <1> HIDE DEF t
  <1>6. Quiet(s, t) /\ (t.fault = "none" => NumbersMatch(t))
    BY <1>2, <1>4, SendTidy
  <1>7. Takes(s, t, m, st)  BY <1>6, QuietTakes DEF Num
  <1>8. Takes(t, insert(t, m), m, st)  BY <1>4, InsertTakes
  <1> QED  BY <1>5, <1>7, <1>8, TakesTrans

\* A message ahead during recovery is parked, ignored, or ends the session.
LEMMA CacheAheadTakes ==
    ASSUME NEW s \in SessionRecords, NEW m \in Messages, NEW st
    PROVE  Takes(s, CacheAhead(s, m), m, st)
  <1>1. Takes(s, s, m, st)  BY Tidy, QuietTakes
  <1>2. Takes(s, stop_with_logout(s), m, st)  BY LogoutSent, QuietTakes
  <1> QED  BY <1>1, <1>2, InsertTakes DEF CacheAhead

-----------------------------------------------------------------------------
(* Resending *)

\* The run of administrative messages that ResendStream::next skips ends
\* inside the range, holds nothing else and is as long as it can be.
LEMMA RunEndsInRange ==
    ASSUME NEW st \in Seq(Messages), NEW b \in Nat, NEW e \in Nat,
           b <= e, no_resend(st[b])
    PROVE  /\ RunEnd(st, b, e) \in b..e
           /\ \A i \in b..RunEnd(st, b, e) : no_resend(st[i])
           /\ RunEnd(st, b, e) < e => ~ no_resend(st[RunEnd(st, b, e) + 1])
  <1> DEFINE T == {x \in b..e : x < e => ~ no_resend(st[x + 1])}
             Run1(x) == /\ \A i \in b..x : no_resend(st[i])
                        /\ x < e => ~ no_resend(st[x + 1])
  <1>1. T \in SUBSET Nat /\ T # {}
    <2>1. e \in T  OBVIOUS
    <2>2. \A x \in T : x \in Nat  OBVIOUS
    <2> HIDE DEF T
    <2> QED  BY <2>1, <2>2
  <1>2. PICK x \in T : \A y \in T : x <= y  BY <1>1, LeastNatural
  <1>3. ASSUME NEW i \in b..x PROVE no_resend(st[i])
    <2>1. CASE i = b  BY <2>1
    <2>2. CASE i > b
      <3>1. i - 1 \in b..e /\ i - 1 < e /\ i - 1 < x /\ (i - 1) + 1 = i  BY <1>2, <2>2
      <3>2. i - 1 \notin T
        <4>1. ~ (x <= i - 1)  BY <1>2, <3>1
        <4> HIDE DEF T
        <4> QED  BY <1>2, <4>1
      <3> QED  BY <3>1, <3>2
    <2> QED  BY <2>1, <2>2
  <1>4. x \in b..e /\ Run1(x)  BY <1>2, <1>3
  <1>5. RunEnd(st, b, e) = CHOOSE y \in b..e : Run1(y)  BY DEF RunEnd
  <1> HIDE DEF Run1
  <1>6. RunEnd(st, b, e) \in b..e /\ Run1(RunEnd(st, b, e))  BY <1>4, <1>5
  <1> QED  BY <1>6 DEF Run1

\* A turn of the resend loop sends a faithful copy or gap fill.
LEMMA ResendStepQuiet ==
    ASSUME NEW s \in SessionRecords, s.rsCur <= s.rsEnd, OutSound(s)
    PROVE  Quiet(s, ResendStep(s)) /\ Num(s, ResendStep(s))
  <1> DEFINE b == s.rsCur
             e == RunEnd(s.store, b, s.rsEnd)
  <1>1. s.store \in Seq(Messages) /\ b \in Nat /\ s.rsEnd \in Nat  BY Fields
  <1>2. CASE b = 0 \/ s.rsEnd > Len(s.store)
    BY <1>2, FaultType DEF ResendStep, Faults, Quiet, Num
  <1>3. CASE ~ (b = 0 \/ s.rsEnd > Len(s.store)) /\ no_resend(s.store[b])
    <2>1. e \in b..s.rsEnd /\ \A i \in b..e : no_resend(s.store[i])
      BY <1>1, <1>3, RunEndsInRange
    <2>2. ResendStep(s) = [send_message_(s, GapFillMsg(b, e + 1), TRUE) EXCEPT !.rsCur = e + 1]
      BY <1>3 DEF ResendStep
    <2> HIDE DEF e
    <2>3. b \in Nat /\ e + 1 \in Nat  BY <1>1, <2>1
    <2> DEFINE m == GapFillMsg(b, e + 1)
               u == send_message_(s, m, TRUE)
               t == [u EXCEPT !.rsCur = e + 1]
    <2>4. /\ m \in Messages /\ m.type = "SequenceReset" /\ m.gapFill
          /\ m.seq = b /\ m.newSeq = e + 1
      BY <2>3, GapFillType
    <2> HIDE DEF m
    <2>5. Fills(m, s.store)  BY <1>1, <1>3, <2>1, <2>3, <2>4 DEF Fills, no_resend
    <2>6. Quiet(s, u) /\ Num(s, u)  BY <2>4, <2>5, ResendQuiet DEF Faithful
    <2>7. u \in SessionRecords  BY <2>6 DEF Quiet
    <2>8. /\ t \in SessionRecords /\ t.store = u.store /\ t.out = u.out
          /\ t.nextIn = u.nextIn /\ t.delivered = u.delivered /\ t.cache = u.cache
          /\ t.fault = u.fault /\ t.nextOut = u.nextOut /\ t.stopped = u.stopped
      <3> HIDE DEF u
      <3> QED  BY <2>3, <2>7 DEF SessionRecords
    <2>9. ResendStep(s) = t  BY <2>2 DEF m
    <2> HIDE DEF t, u
    <2>10. Quiet(u, t) /\ Num(u, t)  BY <2>7, <2>8, Tidy
    <2>11. Quiet(s, t)  BY <2>6, <2>10, QuietTrans
    <2>12. Num(s, t)  BY <2>6, <2>8, <2>10 DEF Num
    <2> QED  BY <2>9, <2>11, <2>12
  <1>4. CASE ~ (b = 0 \/ s.rsEnd > Len(s.store)) /\ ~ no_resend(s.store[b])
    <2> DEFINE m == [s.store[b] EXCEPT !.dup = TRUE]
               u == send_message_(s, m, TRUE)
               t == [u EXCEPT !.rsCur = b + 1]
    <2>1. b \in 1..Len(s.store) /\ s.store[b] \in Messages  BY <1>1, <1>4
    <2>2. m \in Messages /\ m.seq = s.store[b].seq  BY <2>1 DEF Messages
    <2>3. m.seq = b  BY <2>1, <2>2 DEF OutSound, StoreSound
    <2>4. Copies(m, s.store)  BY <1>4, <2>1, <2>3 DEF Copies, no_resend
    <2>5. ResendStep(s) = t  BY <1>4 DEF ResendStep
    <2> HIDE DEF m
    <2>6. Quiet(s, u) /\ Num(s, u)  BY <2>2, <2>4, ResendQuiet DEF Faithful
    <2>7. u \in SessionRecords  BY <2>6 DEF Quiet
    <2>8. /\ t \in SessionRecords /\ t.store = u.store /\ t.out = u.out
          /\ t.nextIn = u.nextIn /\ t.delivered = u.delivered /\ t.cache = u.cache
          /\ t.fault = u.fault /\ t.nextOut = u.nextOut /\ t.stopped = u.stopped
      <3> HIDE DEF u
      <3>1. b + 1 \in Nat  BY <1>1
      <3> QED  BY <2>7, <3>1 DEF SessionRecords
    <2> HIDE DEF t, u
    <2>9. Quiet(u, t) /\ Num(u, t)  BY <2>7, <2>8, Tidy
    <2>10. Quiet(s, t)  BY <2>6, <2>9, QuietTrans
    <2>11. Num(s, t)  BY <2>6, <2>8, <2>9 DEF Num
    <2> QED  BY <2>5, <2>10, <2>11
  <1> QED  BY <1>2, <1>3, <1>4

-----------------------------------------------------------------------------
(* The handlers of messages in sequence *)

\* The number of a faithful message lies in the peer's store.
LEMMA FaithfulInStore ==
    ASSUME NEW st \in Seq(Messages), StoreSound(st), NEW m \in Messages, Faithful(m, st)
    PROVE  /\ m.seq \in 1..Len(st)
           /\ m.type # "SequenceReset" =>
                st[m.seq].type = m.type /\ m.reset = st[m.seq].reset
           /\ m.type = "SequenceReset" => Fills(m, st)
  <1>1. Len(st) \in Nat /\ m.seq \in Nat /\ m.newSeq \in Nat  BY MessageFields
  <1>2. CASE Copies(m, st)
    <2>1. m.seq \in 1..Len(st) /\ st[m.seq] \in Messages  BY <1>1, <1>2 DEF Copies
    <2>2. st[m.seq].type = m.type /\ m.reset = st[m.seq].reset
      BY <1>2, <2>1 DEF Copies, Messages
    <2> QED  BY <2>1, <2>2 DEF StoreSound
  <1>3. CASE Fills(m, st)  BY <1>1, <1>3 DEF Fills
  <1> QED  BY <1>2, <1>3 DEF Faithful

\* What the peer's number n takes next_in to, when the numbers from the old
\* next_in to n - 1 hold no Custom message.
LEMMA SkipInSound ==
    ASSUME NEW s \in SessionRecords, NEW t \in SessionRecords, NEW st \in Seq(Messages),
           NEW n \in Nat, InSound(s, st), t.nextIn = n,
           t.delivered = s.delivered, t.cache = s.cache,
           s.nextIn <= n, n <= Len(st) + 1,
           \A i \in s.nextIn..(n - 1) : st[i].type # "Custom"
    PROVE  InSound(t, st)
  <1>1. s.nextIn \in Nat /\ Len(st) \in Nat /\ s.nextIn >= 1  BY Fields DEF InSound
  <1>2. {i \in Customs(st) : i < s.nextIn} = {i \in Customs(st) : i < n}
    <2>1. ASSUME NEW i \in Customs(st), i < n PROVE i < s.nextIn
      <3>1. i \in 1..Len(st) /\ st[i].type = "Custom"  BY DEF Customs
      <3>2. i \notin s.nextIn..(n - 1)  BY <3>1
      <3> QED  BY <1>1, <2>1, <3>1, <3>2
    <2>2. ASSUME NEW i \in Customs(st), i < s.nextIn PROVE i < n
      BY <1>1, <2>2 DEF Customs
    <2> QED  BY <2>1, <2>2
  <1>3. OnceInOrder(t, st)  BY <1>2 DEF InSound, OnceInOrder, Delivered
  <1>4. t.nextIn \in 1..(Len(st) + 1)  BY <1>1
  <1> QED  BY <1>3, <1>4 DEF InSound

\* Raising an exclusive bound by one adds its old value.
LEMMA BelowNext ==
    ASSUME NEW C \in SUBSET Nat, NEW n \in C
    PROVE  {i \in C : i < n} \cup {n} = {i \in C : i < n + 1}
  <1>1. \A i \in C : i < n + 1 <=> i < n \/ i = n  OBVIOUS
  <1> QED  BY <1>1

\* Delivering the Custom message that is next keeps deliveries exact.
LEMMA DeliverInSound ==
    ASSUME NEW s \in SessionRecords, NEW t \in SessionRecords, NEW st \in Seq(Messages),
           NEW n \in 1..Len(st), InSound(s, st), s.nextIn = n, t.nextIn = n + 1,
           t.delivered = Append(s.delivered, n), t.cache = s.cache,
           st[n].type = "Custom"
    PROVE  InSound(t, st)
  <1> DEFINE d == s.delivered
             f == Append(d, n)
  <1>1. d \in Seq(Nat) /\ Len(d) \in Nat /\ Len(st) \in Nat  BY Fields
  <1>2. Len(f) = Len(d) + 1 /\ f[Len(d) + 1] = n /\ \A i \in 1..Len(d) : f[i] = d[i]
    BY <1>1
  <1>3. \A i \in 1..Len(f) : i \in 1..Len(d) \/ i = Len(d) + 1  BY <1>1, <1>2
  <1>4. \A i \in 1..Len(d) : d[i] \in Nat /\ d[i] < n
    <2>1. \A i \in 1..Len(d) : d[i] \in {j \in Customs(st) : j < n}
      BY DEF InSound, OnceInOrder, Delivered
    <2>2. \A j \in {j \in Customs(st) : j < n} : j \in Nat /\ j < n  BY <1>1 DEF Customs
    <2> HIDE DEF f, d
    <2> QED  BY <2>1, <2>2
  <1>5. Delivered(t) = Delivered(s) \cup {n}
    <2>1. Delivered(t) = {f[i] : i \in 1..Len(f)}  BY DEF Delivered
    <2>2. Delivered(s) = {d[i] : i \in 1..Len(d)}  BY DEF Delivered
    <2> HIDE DEF f, d
    <2>3. ASSUME NEW x \in Delivered(t) PROVE x \in Delivered(s) \cup {n}
      <3>1. PICK i \in 1..Len(f) : x = f[i]  BY <2>1
      <3> QED  BY <1>2, <1>3, <2>2, <3>1
    <2>4. ASSUME NEW x \in Delivered(s) PROVE x \in Delivered(t)
      <3>1. PICK i \in 1..Len(d) : x = d[i]  BY <2>2
      <3>2. i \in 1..Len(f)  BY <1>1, <1>2
      <3> QED  BY <1>2, <2>1, <3>1, <3>2
    <2>5. n \in Delivered(t)
      <3>1. Len(d) + 1 \in 1..Len(f)  BY <1>1, <1>2
      <3> QED  BY <1>2, <2>1, <3>1
    <2> QED  BY <2>3, <2>4, <2>5
  <1>6. {i \in Customs(st) : i < n} \cup {n} = {i \in Customs(st) : i < n + 1}
    <2>1. Customs(st) \in SUBSET Nat  BY <1>1 DEF Customs
    <2>2. n \in Customs(st)  BY DEF Customs
    <2> HIDE DEF f, d
    <2> QED  BY <2>1, <2>2, BelowNext
  <1>7. Delivered(t) = {i \in Customs(st) : i < t.nextIn}
    BY <1>5, <1>6 DEF InSound, OnceInOrder
  <1>8. ASSUME NEW i \in 1..Len(f), NEW j \in 1..Len(f), i < j PROVE f[i] < f[j]
    <2>1. i \in 1..Len(d)  BY <1>1, <1>2, <1>8
    <2>2. CASE j \in 1..Len(d)
      BY <1>2, <1>8, <2>1, <2>2 DEF InSound, OnceInOrder
    <2>3. CASE j = Len(d) + 1  BY <1>2, <1>4, <2>1, <2>3
    <2> QED  BY <1>3, <2>2, <2>3
  <1>9. OnceInOrder(t, st)  BY <1>7, <1>8 DEF OnceInOrder
  <1>10. t.nextIn \in 1..(Len(st) + 1)  BY <1>1
  <1> QED  BY <1>9, <1>10 DEF InSound

\* Becoming ACTIVE touches only state_ and the timers.
LEMMA ActivateQuiet ==
    ASSUME NEW s \in SessionRecords
    PROVE  Quiet(s, Activate(s)) /\ (NumbersMatch(s) => NumbersMatch(Activate(s)))
           /\ Activate(s).fault = s.fault
  <1> DEFINE t == Activate(s)
  <1>1. t \in SessionRecords
    <2>1. (s.armed \ {"logon"}) \cup {"heartbeat", "inbound"} \in SUBSET Timers
      BY Fields DEF Timers
    <2>2. \A x \in SUBSET Timers : [s EXCEPT !.state = "ACTIVE", !.armed = x] \in SessionRecords
      BY DEF SessionRecords, SessionStates
    <2> QED  BY <2>1, <2>2 DEF Activate
  <1>2. /\ t.store = s.store /\ t.out = s.out /\ t.nextIn = s.nextIn
        /\ t.delivered = s.delivered /\ t.cache = s.cache /\ t.fault = s.fault
        /\ t.nextOut = s.nextOut /\ t.stopped = s.stopped
    BY DEF Activate, SessionRecords
  <1> HIDE DEF t
  <1>3. Quiet(s, t) /\ (NumbersMatch(s) => NumbersMatch(t)) /\ t.fault = s.fault
    BY <1>1, <1>2, QuietSame DEF NumbersMatch
  <1> QED  BY <1>3 DEF t

\* The Logon handler.  When next_in is just past a Logon with 141=Y, the
\* values the reset writes are the ones the numbers already have.
LEMMA LogonHandled ==
    ASSUME NEW s \in SessionRecords, NEW m \in Messages
    PROVE  /\ Own(s, handle_logon(s, m))
           /\ (m.reset => s.nextIn = 2) =>
                Quiet(s, handle_logon(s, m)) /\ Num(s, handle_logon(s, m))
  <1> DEFINE h == [s EXCEPT !.hb = m.hb]
             g == [h EXCEPT !.state = "LOGON_RECEIVED"]
             z == IF m.reset THEN [g EXCEPT !.nextIn = 2, !.nextOut = 1] ELSE g
  <1>1. m.hb \in Nat /\ m.reset \in BOOLEAN  BY MessageFields
  <1>2. /\ h \in SessionRecords /\ h.store = s.store /\ h.out = s.out
        /\ h.nextIn = s.nextIn /\ h.delivered = s.delivered /\ h.cache = s.cache
        /\ h.fault = s.fault /\ h.nextOut = s.nextOut /\ h.stopped = s.stopped
    BY <1>1 DEF SessionRecords
  <1>3. /\ g \in SessionRecords /\ g.store = s.store /\ g.out = s.out
        /\ g.nextIn = s.nextIn /\ g.delivered = s.delivered /\ g.cache = s.cache
        /\ g.fault = s.fault /\ g.nextOut = s.nextOut /\ g.stopped = s.stopped
    BY <1>1 DEF SessionRecords, SessionStates
  <1>4. /\ z \in SessionRecords /\ z.store = s.store /\ z.out = s.out
        /\ (m.reset => s.nextIn = 2) => z.nextIn = s.nextIn
        /\ z.delivered = s.delivered /\ z.cache = s.cache
        /\ z.fault = s.fault /\ (m.reset => z.nextOut = 1)
    <2> HIDE DEF g
    <2> QED  BY <1>1, <1>3 DEF SessionRecords
  <1> DEFINE u == Send(z, LogonMsg(m.reset, m.hb))
             v == Activate(u)
  <1>5. handle_logon(s, m) \in {stop_with_logout(s), stop_with_logout(g), v,
                                stop_with_logout(h), Activate(h)}
    BY DEF handle_logon
  <1> HIDE DEF h, g, z
  <1>6. ASSUME NEW x \in {s, g, h}
        PROVE  Quiet(s, stop_with_logout(x)) /\ Num(s, stop_with_logout(x))
    <2>1. x \in SessionRecords  BY <1>2, <1>3
    <2>2. Quiet(s, x) /\ Num(s, x)  BY <1>2, <1>3, Tidy
    <2>3. Quiet(x, stop_with_logout(x)) /\ Num(x, stop_with_logout(x))  BY <2>1, LogoutSent
    <2>4. Quiet(s, stop_with_logout(x))  BY <2>2, <2>3, QuietTrans
    <2> QED  BY <2>2, <2>3, <2>4 DEF Num, Quiet
  <1>7. Own(s, v) /\ ((m.reset => s.nextIn = 2) => Quiet(s, v) /\ Num(s, v))
    <2>1. (m.reset => s.nextIn = 2) => Quiet(s, z)  BY <1>4, QuietSame
    <2>2. Sendable(z, LogonMsg(m.reset, m.hb))  BY <1>1, <1>4, LogonSendable
    <2>3. Quiet(z, u) /\ (u.fault = "none" => NumbersMatch(u))  BY <1>4, <2>2, SendQuiet
    <2>4. u \in SessionRecords  BY <2>3 DEF Quiet
    <2> HIDE DEF u
    <2>5. Quiet(u, v) /\ (NumbersMatch(u) => NumbersMatch(v)) /\ v.fault = u.fault
      BY <2>4, ActivateQuiet
    <2> HIDE DEF v
    <2>6. (m.reset => s.nextIn = 2) => Quiet(s, v)  BY <1>4, <2>1, <2>3, <2>5, QuietTrans
    <2>7. Quiet(z, v)  BY <1>4, <2>3, <2>5, QuietTrans
    <2>8. OutSound(s) => OutSound(z)  BY <1>4 DEF OutSound
    <2>9. Own(s, v)  BY <1>4, <2>3, <2>5, <2>7, <2>8 DEF Own, Quiet
    <2> QED  BY <2>3, <2>5, <2>6, <2>9 DEF Num
  <1>8. Quiet(s, Activate(h)) /\ Num(s, Activate(h))
    <2>1. Quiet(s, h) /\ Num(s, h)  BY <1>2, Tidy
    <2>2. Quiet(h, Activate(h)) /\ (NumbersMatch(h) => NumbersMatch(Activate(h)))
          /\ Activate(h).fault = h.fault
      BY <1>2, ActivateQuiet
    <2>3. Quiet(s, Activate(h))  BY <2>1, <2>2, QuietTrans
    <2> QED  BY <2>1, <2>2, <2>3 DEF Num
  <1> HIDE DEF v
  <1>9. \A x : Quiet(s, x) /\ Num(s, x) => Own(s, x)  BY DEF Quiet, Num, Own
  <1> QED  BY <1>5, <1>6, <1>7, <1>8, <1>9

\* The Logout handler sends at most the answer, then stops.
LEMMA LogoutQuiet ==
    ASSUME NEW s \in SessionRecords
    PROVE  Quiet(s, handle_logout(s)) /\ Num(s, handle_logout(s))
  <1>1. CASE s.state = "AWAITING_LOGOUT"
    <2> DEFINE a == [s EXCEPT !.armed = @ \ {"logout"}]
    <2>1. /\ a \in SessionRecords /\ a.store = s.store /\ a.out = s.out
          /\ a.nextIn = s.nextIn /\ a.delivered = s.delivered /\ a.cache = s.cache
          /\ a.fault = s.fault /\ a.nextOut = s.nextOut /\ a.stopped = s.stopped
      BY DEF SessionRecords
    <2>2. handle_logout(s) = stop_(a)  BY <1>1 DEF handle_logout
    <2> HIDE DEF a
    <2>3. Quiet(s, a) /\ Num(s, a)  BY <2>1, Tidy
    <2>4. Quiet(a, stop_(a)) /\ Num(a, stop_(a))  BY <2>1, StopQuiet
    <2>5. Quiet(s, stop_(a))  BY <2>3, <2>4, QuietTrans
    <2> QED  BY <2>2, <2>3, <2>4, <2>5 DEF Num, Quiet
  <1>2. CASE s.state # "AWAITING_LOGOUT"
    <2> DEFINE a == Send(s, Plain("Logout"))
    <2>1. Sendable(s, Plain("Logout"))  BY PlainSendable DEF MsgTypes, AdminTypes
    <2>2. Quiet(s, a) /\ (a.fault = "none" => NumbersMatch(a))  BY <2>1, SendQuiet
    <2>3. a \in SessionRecords  BY <2>2 DEF Quiet
    <2>4. handle_logout(s) = stop_(a)  BY <1>2 DEF handle_logout
    <2> HIDE DEF a
    <2>5. Quiet(a, stop_(a)) /\ Num(a, stop_(a))  BY <2>3, StopQuiet
    <2>6. Quiet(s, stop_(a))  BY <2>2, <2>5, QuietTrans
    <2> QED  BY <2>2, <2>4, <2>5, <2>6 DEF Num, Quiet
  <1> QED  BY <1>1, <1>2

\* The Heartbeat handler sends nothing.
LEMMA HeartbeatQuiet ==
    ASSUME NEW s \in SessionRecords
    PROVE  Quiet(s, handle_heartbeat(s)) /\ Num(s, handle_heartbeat(s))
  <1> DEFINE t == handle_heartbeat(s)
  <1>1. /\ t \in SessionRecords /\ t.store = s.store /\ t.out = s.out
        /\ t.nextIn = s.nextIn /\ t.delivered = s.delivered /\ t.cache = s.cache
        /\ t.fault = s.fault /\ t.nextOut = s.nextOut /\ t.stopped = s.stopped
    BY DEF handle_heartbeat, SessionRecords
  <1> HIDE DEF t
  <1>2. Quiet(s, t) /\ Num(s, t)  BY <1>1, Tidy
  <1> QED  BY <1>2 DEF t

\* The TestRequest handler sends a Heartbeat.
LEMMA TestRequestQuiet ==
    ASSUME NEW s \in SessionRecords
    PROVE  Quiet(s, handle_test_request(s)) /\ Num(s, handle_test_request(s))
  <1>1. Sendable(s, Plain("Heartbeat"))  BY PlainSendable DEF MsgTypes, AdminTypes
  <1> QED  BY <1>1, SendQuiet DEF handle_test_request, Num

\* The ResendRequest handler only opens the ResendStream.
LEMMA ResendRequestQuiet ==
    ASSUME NEW s \in SessionRecords, NEW m \in Messages, s.nextOut >= 1
    PROVE  Quiet(s, handle_resend_request(s, m)) /\ Num(s, handle_resend_request(s, m))
  <1> DEFINE e == IF m.end = 0 \/ m.end >= s.nextOut THEN s.nextOut - 1 ELSE m.end
             t == [s EXCEPT !.rsCur = m.begin, !.rsEnd = e]
  <1>1. m.begin \in Nat /\ e \in Nat  BY Fields, MessageFields
  <1>2. handle_resend_request(s, m) = t  BY DEF handle_resend_request
  <1> HIDE DEF e
  <1>3. /\ t \in SessionRecords /\ t.store = s.store /\ t.out = s.out
        /\ t.nextIn = s.nextIn /\ t.delivered = s.delivered /\ t.cache = s.cache
        /\ t.fault = s.fault /\ t.nextOut = s.nextOut /\ t.stopped = s.stopped
    BY <1>1 DEF SessionRecords
  <1> HIDE DEF t
  <1>4. Quiet(s, t) /\ Num(s, t)  BY <1>3, Tidy
  <1> QED  BY <1>2, <1>4

\* A message in sequence is consumed and handled.
LEMMA HandleTakes ==
    ASSUME NEW s \in SessionRecords, ~ s.stopped, NumbersMatch(s),
           NEW st \in Seq(Messages), NEW m \in Messages, m.seq = s.nextIn
    PROVE  Takes(s, Handle([s EXCEPT !.nextIn = m.seq + 1], m), m, st)
  <1> DEFINE a == [s EXCEPT !.nextIn = m.seq + 1]
             t == Handle(a, m)
  <1>1. m.seq \in Nat /\ m.seq + 1 \in Nat /\ m.newSeq \in Nat /\ Len(st) \in Nat
    BY MessageFields
  <1>2. /\ a \in SessionRecords /\ a.store = s.store /\ a.out = s.out
        /\ a.nextIn = m.seq + 1 /\ a.delivered = s.delivered /\ a.cache = s.cache
        /\ a.fault = s.fault /\ a.nextOut = s.nextOut /\ a.stopped = s.stopped
    <2>1. \A x \in Nat : [s EXCEPT !.nextIn = x] \in SessionRecords  BY DEF SessionRecords
    <2> QED  BY <1>1, <2>1 DEF SessionRecords
  <1> HIDE DEF a
  <1>3. Vouches(st, m) =>
          /\ m.seq \in 1..Len(st)
          /\ m.type # "SequenceReset" =>
               st[m.seq].type = m.type /\ (m.reset => m.seq = 1)
          /\ m.type = "SequenceReset" => Fills(m, st)
    <2>1. ASSUME Vouches(st, m)
          PROVE  /\ m.seq \in 1..Len(st)
                 /\ m.type # "SequenceReset" =>
                      st[m.seq].type = m.type /\ m.reset = st[m.seq].reset
                 /\ m.type = "SequenceReset" => Fills(m, st)
      BY <2>1, FaithfulInStore DEF Vouches
    <2> QED  BY <2>1 DEF Vouches, StoreSound
  <1>4. s.store \in Seq(Messages) /\ s.nextOut \in Nat /\ a.nextOut >= 1
    <2>1. s.store \in Seq(Messages) /\ s.nextOut \in Nat /\ Len(s.store) = s.nextOut - 1
      BY Fields DEF NumbersMatch
    <2> QED  BY <1>2, <2>1
  <1>5. Own(s, a)
    <2>1. Extends(s.store, s.store)  BY <1>4 DEF Extends
    <2> QED  BY <1>2, <2>1 DEF Own, OutSound, NumbersMatch
  <1>6. CASE m.type \notin {"Custom", "SequenceReset"}
    <2>1. Takes(s, a, m, st)
      <3>1. \A i \in s.nextIn..((m.seq + 1) - 1) : i = m.seq  BY <1>1
      <3>2. ASSUME Vouches(st, m), InSound(s, st)
            PROVE  InSound(a, st)
        BY <1>1, <1>2, <1>3, <1>6, <3>1, <3>2, SkipInSound
      <3> QED  BY <1>1, <1>2, <1>5, <3>2 DEF Takes
    <2>2. CASE m.reset => a.nextIn = 2
      <3>1. t \in {handle_logon(a, m), handle_logout(a), handle_heartbeat(a),
                   handle_test_request(a), handle_resend_request(a, m), a}
        BY <1>6 DEF Handle
      <3>2. Quiet(a, a) /\ Num(a, a)  BY <1>2, Tidy
      <3> HIDE DEF t
      <3>3. Quiet(a, t) /\ Num(a, t)
        BY <1>2, <1>4, <2>2, <3>1, <3>2, LogonHandled, LogoutQuiet, HeartbeatQuiet,
           TestRequestQuiet, ResendRequestQuiet
      <3>4. Takes(a, t, m, st)  BY <1>2, <3>3, QuietTakes
      <3>5. Takes(s, t, m, st)  BY <2>1, <3>4, TakesTrans
      <3> QED  BY <3>5 DEF a, t
    <2>3. CASE ~ (m.reset => a.nextIn = 2)
      <3>1. ~ Vouches(st, m)  BY <1>1, <1>2, <1>3, <1>6, <2>3
      <3>2. t \in {handle_logon(a, m), handle_logout(a), handle_heartbeat(a),
                   handle_test_request(a), handle_resend_request(a, m), a}
        BY <1>6 DEF Handle
      <3>3. Quiet(a, a) /\ Num(a, a)  BY <1>2, Tidy
      <3> HIDE DEF t
      <3>4. Own(a, t)
        <4>1. CASE t = handle_logon(a, m)  BY <1>2, <4>1, LogonHandled
        <4>2. CASE t # handle_logon(a, m)
          <5>1. Quiet(a, t) /\ Num(a, t)
            BY <1>2, <1>4, <3>2, <3>3, <4>2, LogoutQuiet, HeartbeatQuiet,
               TestRequestQuiet, ResendRequestQuiet
          <5> QED  BY <5>1 DEF Quiet, Num, Own
        <4> QED  BY <4>1, <4>2
      <3>5. Own(s, t)  BY <1>5, <3>4, OwnTrans
      <3>6. Takes(s, t, m, st)  BY <3>1, <3>5 DEF Takes
      <3> QED  BY <3>6 DEF a, t
    <2> QED  BY <2>2, <2>3
  <1>7. CASE m.type = "SequenceReset"
    <2>1. t = IF m.newSeq < a.nextIn /\ ~ m.gapFill THEN stop_with_logout(a)
                                                    ELSE [a EXCEPT !.nextIn = m.newSeq]
      BY <1>7 DEF Handle, handle_sequence_reset
    <2> DEFINE v == [a EXCEPT !.nextIn = m.newSeq]
    <2>2. /\ v \in SessionRecords /\ v.store = s.store /\ v.out = s.out
          /\ v.nextIn = m.newSeq /\ v.delivered = s.delivered /\ v.cache = s.cache
          /\ v.fault = s.fault /\ v.nextOut = s.nextOut /\ v.stopped = s.stopped
      <3>1. \A x \in Nat : [a EXCEPT !.nextIn = x] \in SessionRecords  BY <1>2 DEF SessionRecords
      <3> QED  BY <1>1, <1>2, <3>1 DEF SessionRecords
    <2> HIDE DEF t, v
    <2>3. CASE t = v
      <3>1. ASSUME Vouches(st, m), InSound(s, st) PROVE InSound(v, st) /\ v.nextIn >= s.nextIn
        <4>1. Fills(m, st)  BY <1>3, <1>7, <3>1
        <4>2. \A i \in s.nextIn..(m.newSeq - 1) : st[i].type # "Custom"
          BY <4>1 DEF Fills, AdminTypes
        <4>3. s.nextIn <= m.newSeq /\ m.newSeq <= Len(st) + 1  BY <1>1, <4>1 DEF Fills
        <4>4. InSound(v, st)  BY <1>1, <2>2, <3>1, <4>2, <4>3, SkipInSound
        <4> QED  BY <1>1, <2>2, <4>3, <4>4
      <3>2. Own(s, v)  BY <1>2, <1>5, <2>2 DEF Own, OutSound, NumbersMatch
      <3>3. Takes(s, t, m, st)  BY <2>3, <3>1, <3>2 DEF Takes
      <3> QED  BY <3>3 DEF t, a
    <2>4. CASE t # v
      <3>1. t = stop_with_logout(a) /\ ~ m.gapFill  BY <2>1, <2>4 DEF v
      <3>2. ~ Vouches(st, m)  BY <1>3, <1>7, <3>1 DEF Fills
      <3>3. Own(a, t)  BY <1>2, <3>1, LogoutSent DEF Quiet, Num, Own
      <3>4. Own(s, t)  BY <1>5, <3>3, OwnTrans
      <3>5. Takes(s, t, m, st)  BY <3>2, <3>4 DEF Takes
      <3> QED  BY <3>5 DEF t, a
    <2> QED  BY <2>3, <2>4
  <1>8. CASE m.type = "Custom"
    <2> DEFINE d == [a EXCEPT !.delivered = Append(@, m.seq)]
    <2>1. /\ d \in SessionRecords /\ d.store = s.store /\ d.out = s.out
          /\ d.nextIn = m.seq + 1 /\ d.delivered = Append(s.delivered, m.seq)
          /\ d.cache = s.cache /\ d.fault = s.fault /\ d.nextOut = s.nextOut
          /\ d.stopped = s.stopped
      <3>1. Append(a.delivered, m.seq) \in Seq(Nat)  BY <1>1, <1>2, Fields
      <3>2. \A x \in Seq(Nat) : [a EXCEPT !.delivered = x] \in SessionRecords
        BY <1>2 DEF SessionRecords
      <3> QED  BY <1>2, <3>1, <3>2 DEF SessionRecords
    <2>2. t = IF m.response THEN d ELSE Send(d, CustomMsg(TRUE))
      BY <1>8 DEF Handle, handle_custom
    <2> HIDE DEF d, t
    <2>3. Takes(s, d, m, st)
      <3>1. ASSUME Vouches(st, m), InSound(s, st) PROVE InSound(d, st)
        BY <1>3, <1>8, <2>1, <3>1, DeliverInSound
      <3>2. Own(s, d)  BY <1>2, <1>5, <2>1 DEF Own, OutSound, NumbersMatch
      <3> QED  BY <1>1, <2>1, <3>1, <3>2 DEF Takes
    <2>4. Sendable(d, CustomMsg(TRUE))  BY CustomSendable
    <2>5. Takes(d, Send(d, CustomMsg(TRUE)), m, st)
      BY <2>1, <2>4, SendQuiet, QuietTakes DEF Num
    <2>6. Takes(s, t, m, st)  BY <2>2, <2>3, <2>5, TakesTrans
    <2> QED  BY <2>6 DEF t, a
  <1> QED  BY <1>6, <1>7, <1>8

-----------------------------------------------------------------------------
(* Dispatch *)

\* The sequence ladder keeps the contract on each of its branches.
LEMMA SequenceTakes ==
    ASSUME NEW s \in SessionRecords, ~ s.stopped, NumbersMatch(s),
           NEW st \in Seq(Messages), NEW m \in Messages
    PROVE  Takes(s, Sequence(s, m), m, st)
  <1>1. Takes(s, s, m, st)  BY Tidy, QuietTakes
  <1>2. Takes(s, stop_with_logout(s), m, st)  BY LogoutSent, QuietTakes
  <1>3. CASE m.seq = s.nextIn  BY <1>3, HandleTakes DEF Sequence
  <1>4. CASE m.seq > s.nextIn
    <2>1. m.seq # s.nextIn  BY <1>4, Fields, MessageFields
    <2> QED  BY <1>4, <2>1, CacheAheadTakes, BeginRecoveryTakes DEF Sequence
  <1>5. CASE ~ (m.seq = s.nextIn \/ m.seq > s.nextIn)
    BY <1>1, <1>2, <1>5 DEF Sequence
  <1> QED  BY <1>3, <1>4, <1>5

\* dispatch keeps the contract, early returns included.
LEMMA DispatchTakes ==
    ASSUME NEW s \in SessionRecords, NumbersMatch(s),
           NEW st \in Seq(Messages), NEW m \in Messages
    PROVE  Takes(s, dispatch(s, m), m, st)
  <1> DEFINE a == IF Live(s) THEN [s EXCEPT !.armed = @ \cup {"inbound"}] ELSE s
  <1>1. /\ a \in SessionRecords /\ a.store = s.store /\ a.out = s.out
        /\ a.nextIn = s.nextIn /\ a.delivered = s.delivered /\ a.cache = s.cache
        /\ a.fault = s.fault /\ a.nextOut = s.nextOut /\ a.stopped = s.stopped
    BY DEF SessionRecords, Timers
  <1>2. dispatch(s, m) \in {s, stop_with_logout(s), Send(s, Plain("Reject"))}
        \/ (~ s.stopped /\ dispatch(s, m) = Sequence(a, m))
    BY DEF dispatch
  <1> HIDE DEF a
  <1>3. Takes(s, s, m, st)  BY Tidy, QuietTakes
  <1>4. Takes(s, stop_with_logout(s), m, st)  BY LogoutSent, QuietTakes
  <1>5. Takes(s, Send(s, Plain("Reject")), m, st)
    <2>1. Sendable(s, Plain("Reject"))  BY PlainSendable DEF MsgTypes, AdminTypes
    <2> QED  BY <2>1, SendQuiet, QuietTakes DEF Num
  <1>6. ASSUME ~ s.stopped PROVE Takes(s, Sequence(a, m), m, st)
    <2>1. Takes(s, a, m, st)  BY <1>1, Tidy, QuietTakes
    <2>2. NumbersMatch(a) /\ ~ a.stopped  BY <1>1, <1>6 DEF NumbersMatch
    <2>3. Takes(a, Sequence(a, m), m, st)  BY <1>1, <2>2, SequenceTakes
    <2> QED  BY <2>1, <2>3, TakesTrans
  <1> QED  BY <1>2, <1>3, <1>4, <1>5, <1>6

\* process_wire_message_ keeps the contract for every frame read.
LEMMA ProcessTakes ==
    ASSUME NEW s \in SessionRecords, NumbersMatch(s),
           NEW st \in Seq(Messages), NEW m \in Messages
    PROVE  Takes(s, process_wire_message_(s, m), m, st)
  <1> DEFINE u == IF m.check = "garbled" THEN stop_with_logout(s) ELSE dispatch(s, m)
             b == u.cache # {} /\ u.state = "RECOVERING_RESEND"
             t == [u EXCEPT !.draining = b]
  <1>1. Takes(s, u, m, st)  BY DispatchTakes, LogoutSent, QuietTakes
  <1>2. u \in SessionRecords  BY <1>1 DEF Takes, Own
  <1>3. process_wire_message_(s, m) = t  BY DEF process_wire_message_
  <1> HIDE DEF u
  <1>4. b \in BOOLEAN  OBVIOUS
  <1> HIDE DEF b
  <1>5. /\ t \in SessionRecords /\ t.store = u.store /\ t.out = u.out
        /\ t.nextIn = u.nextIn /\ t.delivered = u.delivered /\ t.cache = u.cache
        /\ t.fault = u.fault /\ t.nextOut = u.nextOut /\ t.stopped = u.stopped
    BY <1>2, <1>4 DEF SessionRecords
  <1> HIDE DEF t
  <1>6. Takes(u, t, m, st)  BY <1>2, <1>5, Tidy, QuietTakes
  <1> QED  BY <1>1, <1>3, <1>6, TakesTrans

\* A turn of drain_recovery_cache_ consumes a parked message, or none.
LEMMA DrainTakes ==
    ASSUME NEW s \in SessionRecords, NumbersMatch(s), NEW st \in Seq(Messages)
    PROVE  /\ Own(s, DrainStep(s))
           /\ DrainStep(s).fault = "none" /\ StoreSound(st) /\ InSound(s, st) =>
                InSound(DrainStep(s), st) /\ DrainStep(s).nextIn >= s.nextIn
  <1>1. CASE contains(s, s.nextIn)
    <2> DEFINE m == CHOOSE c \in Cached(s, s.nextIn) : TRUE
               u == dispatch(s, m)
               t == [u EXCEPT !.cache = @ \ {m}]
    <2>1. m \in s.cache /\ m \in Messages  BY <1>1, Fields DEF contains, Cached
    <2>2. DrainStep(s) = t  BY <1>1 DEF DrainStep
    <2> HIDE DEF m
    <2>3. Takes(s, u, m, st)  BY <2>1, DispatchTakes
    <2>4. u \in SessionRecords  BY <2>3 DEF Takes, Own
    <2> HIDE DEF u
    <2>5. /\ t \in SessionRecords /\ t.store = u.store /\ t.out = u.out
          /\ t.nextIn = u.nextIn /\ t.delivered = u.delivered /\ t.cache \subseteq u.cache
          /\ t.fault = u.fault /\ t.nextOut = u.nextOut /\ t.stopped = u.stopped
      BY <2>4 DEF SessionRecords
    <2> HIDE DEF t
    <2>6. Takes(u, t, m, st)  BY <2>4, <2>5, Tidy, QuietTakes
    <2>7. Takes(s, t, m, st)  BY <2>3, <2>6, TakesTrans
    <2>8. StoreSound(st) /\ InSound(s, st) => Vouches(st, m)  BY <2>1 DEF InSound, Vouches
    <2> QED  BY <2>2, <2>7, <2>8 DEF Takes
  <1>2. CASE ~ contains(s, s.nextIn)
    <2> DEFINE t == [s EXCEPT !.draining = FALSE,
                              !.state = IF s.cache = {} THEN "ACTIVE" ELSE @]
    <2>1. /\ t \in SessionRecords /\ t.store = s.store /\ t.out = s.out
          /\ t.nextIn = s.nextIn /\ t.delivered = s.delivered /\ t.cache = s.cache
          /\ t.fault = s.fault /\ t.nextOut = s.nextOut /\ t.stopped = s.stopped
      BY DEF SessionRecords, SessionStates
    <2>2. DrainStep(s) = t  BY <1>2 DEF DrainStep
    <2> HIDE DEF t
    <2>3. Own(s, t)  BY <2>1, Tidy DEF Quiet, Num, Own
    <2>4. InSound(s, st) => InSound(t, st) /\ t.nextIn >= s.nextIn
      BY <2>1, Fields DEF InSound, OnceInOrder, Delivered
    <2> QED  BY <2>2, <2>3, <2>4
  <1> QED  BY <1>1, <1>2

\* With nothing parked, a turn of the drain loop only ends it.
LEMMA DrainEmptyQuiet ==
    ASSUME NEW s \in SessionRecords, s.cache = {}
    PROVE  DrainStep(s).nextIn = s.nextIn /\ DrainStep(s).cache = {}
  <1>1. ~ contains(s, s.nextIn)  BY DEF contains, Cached
  <1> QED  BY <1>1 DEF DrainStep, SessionRecords

-----------------------------------------------------------------------------
(* Timers and the application *)

\* The heartbeat timer only sends.
LEMMA HeartbeatExpiredQuiet ==
    ASSUME NEW s \in SessionRecords
    PROVE  Quiet(s, HeartbeatExpired(s)) /\ Num(s, HeartbeatExpired(s))
  <1> DEFINE u == Send(s, Plain("Heartbeat"))
             t == [u EXCEPT !.armed = @ \cup {"heartbeat"}]
  <1>1. Sendable(s, Plain("Heartbeat"))  BY PlainSendable DEF MsgTypes, AdminTypes
  <1>2. u \in SessionRecords  BY <1>1, SendQuiet DEF Quiet
  <1>3. /\ t \in SessionRecords /\ t.store = u.store /\ t.out = u.out
        /\ t.nextIn = u.nextIn /\ t.delivered = u.delivered /\ t.cache = u.cache
        /\ t.fault = u.fault /\ t.nextOut = u.nextOut /\ t.stopped = u.stopped
    <2> HIDE DEF u
    <2> QED  BY <1>2 DEF SessionRecords, Timers
  <1>4. HeartbeatExpired(s) = t  BY DEF HeartbeatExpired
  <1> HIDE DEF t
  <1>5. Quiet(s, t) /\ (t.fault = "none" => NumbersMatch(t))  BY <1>1, <1>3, SendTidy
  <1> QED  BY <1>4, <1>5 DEF Num

\* The inbound timer sends a TestRequest or a Logout.
LEMMA InboundExpiredQuiet ==
    ASSUME NEW s \in SessionRecords
    PROVE  Quiet(s, InboundExpired(s)) /\ Num(s, InboundExpired(s))
  <1>1. CASE s.awaitingTest  BY <1>1, LogoutSent DEF InboundExpired
  <1>2. CASE ~ s.awaitingTest
    <2> DEFINE a == [s EXCEPT !.awaitingTest = TRUE]
               u == Send(a, Plain("TestRequest"))
               t == [u EXCEPT !.armed = @ \cup {"inbound"}]
    <2>1. /\ a \in SessionRecords /\ a.store = s.store /\ a.out = s.out
          /\ a.nextIn = s.nextIn /\ a.delivered = s.delivered /\ a.cache = s.cache
          /\ a.fault = s.fault /\ a.nextOut = s.nextOut /\ a.stopped = s.stopped
      BY DEF SessionRecords
    <2>2. InboundExpired(s) = t  BY <1>2 DEF InboundExpired
    <2> HIDE DEF a
    <2>3. Sendable(a, Plain("TestRequest"))  BY PlainSendable DEF MsgTypes, AdminTypes
    <2>4. u \in SessionRecords  BY <2>1, <2>3, SendQuiet DEF Quiet
    <2>5. /\ t \in SessionRecords /\ t.store = u.store /\ t.out = u.out
          /\ t.nextIn = u.nextIn /\ t.delivered = u.delivered /\ t.cache = u.cache
          /\ t.fault = u.fault /\ t.nextOut = u.nextOut /\ t.stopped = u.stopped
      <3> HIDE DEF u
      <3> QED  BY <2>4 DEF SessionRecords, Timers
    <2> HIDE DEF t
    <2>6. Quiet(a, t) /\ (t.fault = "none" => NumbersMatch(t))
      BY <2>1, <2>3, <2>5, SendTidy
    <2>7. Quiet(s, a)  BY <2>1, Tidy
    <2>8. Quiet(s, t)  BY <2>6, <2>7, QuietTrans
    <2> QED  BY <2>2, <2>6, <2>8 DEF Num
  <1> QED  BY <1>1, <1>2

\* No timer handler consumes anything from the peer.
LEMMA TimerQuiet ==
    ASSUME NEW s \in SessionRecords, NEW x \in Timers
    PROVE  Quiet(s, TimerExpired(s, x)) /\ Num(s, TimerExpired(s, x))
  <1> DEFINE f == [s EXCEPT !.armed = @ \ {x}]
             t == TimerExpired(s, x)
  <1>1. /\ f \in SessionRecords /\ f.store = s.store /\ f.out = s.out
        /\ f.nextIn = s.nextIn /\ f.delivered = s.delivered /\ f.cache = s.cache
        /\ f.fault = s.fault /\ f.nextOut = s.nextOut /\ f.stopped = s.stopped
    BY DEF SessionRecords
  <1>2. t \in {f, stop_(f), HeartbeatExpired(f), InboundExpired(f)}
    BY DEF TimerExpired, LogonExpired, Timers
  <1> HIDE DEF f, t
  <1>3. Quiet(s, f) /\ Num(s, f)  BY <1>1, Tidy
  <1>4. Quiet(f, f) /\ Num(f, f)  BY <1>1, Tidy
  <1>5. Quiet(f, t) /\ Num(f, t)
    BY <1>1, <1>2, <1>4, StopQuiet, HeartbeatExpiredQuiet, InboundExpiredQuiet
  <1>6. Quiet(s, t)  BY <1>3, <1>5, QuietTrans
  <1>7. Num(s, t)  BY <1>3, <1>5 DEF Num, Quiet
  <1> QED  BY <1>6, <1>7 DEF t

\* Neither does a message from the application.
LEMMA AppQuiet ==
    ASSUME NEW s \in SessionRecords, NEW kind \in AppKinds
    PROVE  /\ Quiet(s, send_from_app(s, AppMessage(kind)))
           /\ Num(s, send_from_app(s, AppMessage(kind)))
  <1>1. Sendable(s, AppMessage(kind))
    <2>1. kind \in {"request", "response", "unregistered"}  BY PairAssumption
    <2>2. AppMessage(kind) \in {CustomMsg(FALSE), CustomMsg(TRUE), Plain("Unregistered")}
      BY <2>1 DEF AppMessage
    <2> QED  BY <2>2, CustomSendable, PlainSendable DEF MsgTypes, AdminTypes
  <1>2. Quiet(s, Send(s, AppMessage(kind))) /\ Num(s, Send(s, AppMessage(kind)))
    BY <1>1, SendQuiet DEF Num
  <1>3. Quiet(s, s) /\ Num(s, s)  BY Tidy
  <1> QED  BY <1>2, <1>3 DEF send_from_app

-----------------------------------------------------------------------------
(* The two ends *)

\* Each role has the other as its peer.
LEMMA PeerFacts ==
    ASSUME NEW r \in Roles
    PROVE  /\ Peer(r) \in Roles /\ Peer(r) # r /\ Peer(Peer(r)) = r
           /\ \A x \in Roles : x = r \/ x = Peer(r)
  BY DEF Peer, Roles

\* Dropping messages from the wire leaves a record that is as sound.
LEMMA ReadSome ==
    ASSUME NEW s \in SessionRecords, NEW o, o = <<>> \/ o = s.out \/ (s.out # <<>> /\ o = Tail(s.out))
    PROVE  /\ [s EXCEPT !.out = o] \in SessionRecords
           /\ OutSound(s) => OutSound([s EXCEPT !.out = o])
           /\ NumbersMatch(s) => NumbersMatch([s EXCEPT !.out = o])
  <1> DEFINE t == [s EXCEPT !.out = o]
  <1>1. s.out \in Seq(Messages)  BY Fields
  <1>2. o \in Seq(Messages) /\ \A k \in 1..Len(o) : \E j \in 1..Len(s.out) : o[k] = s.out[j]
    <2>1. CASE o = <<>>  BY <2>1
    <2>2. CASE o = s.out  BY <1>1, <2>2
    <2>3. CASE s.out # <<>> /\ o = Tail(s.out)
      <3>1. o \in Seq(Messages) /\ Len(o) = Len(s.out) - 1 /\ Len(s.out) \in Nat  BY <1>1, <2>3
      <3>2. \A k \in 1..Len(o) : o[k] = s.out[k + 1] /\ k + 1 \in 1..Len(s.out)
        BY <1>1, <2>3, <3>1
      <3> QED  BY <3>1, <3>2
    <2> QED  BY <2>1, <2>2, <2>3
  <1>3. /\ t \in SessionRecords /\ t.store = s.store /\ t.out = o
        /\ t.nextOut = s.nextOut /\ t.stopped = s.stopped
    BY <1>2 DEF SessionRecords
  <1> HIDE DEF t
  <1>4. OutSound(s) => OutSound(t)  BY <1>2, <1>3 DEF OutSound
  <1>5. NumbersMatch(s) => NumbersMatch(t)  BY <1>3 DEF NumbersMatch
  <1> QED  BY <1>3, <1>4, <1>5 DEF t

\* What Commit makes of the two records.
LEMMA CommitRecords ==
    ASSUME sess \in [Roles -> SessionRecords], NEW r \in Roles, NEW t, NEW rest,
           Commit(r, t, rest)
    PROVE  /\ sess' = [x \in Roles |-> sess'[x]]
           /\ sess'[r] = t \/ sess'[r] = [t EXCEPT !.out = sess[r].out]
           /\ sess'[Peer(r)] = [sess[Peer(r)] EXCEPT !.out = <<>>]
              \/ sess'[Peer(r)] = [sess[Peer(r)] EXCEPT !.out = rest]
           /\ broken' \in BOOLEAN
  <1> DEFINE a == IF broken THEN [t EXCEPT !.out = sess[r].out] ELSE t
             o == IF Ends(r, t) THEN <<>> ELSE rest
  <1>1. sess' = [sess EXCEPT ![r] = a, ![Peer(r)].out = o]  BY DEF Commit
  <1>2. a = t \/ a = [t EXCEPT !.out = sess[r].out]  OBVIOUS
  <1>3. o = <<>> \/ o = rest  OBVIOUS
  <1>4. broken' = (broken \/ Ends(r, t))  BY DEF Commit
  <1> HIDE DEF a, o
  <1>5. sess'[r] = a /\ sess'[Peer(r)] = [sess[Peer(r)] EXCEPT !.out = o]
        /\ sess' = [x \in Roles |-> sess'[x]]
    BY <1>1, PeerFacts
  <1> QED  BY <1>2, <1>3, <1>4, <1>5

(***************************************************************************)
(* A handler of r that keeps its contract keeps the invariant of both      *)
(* records, whether or not the connection is broken or ends with it.       *)
(***************************************************************************)
LEMMA CommitSound ==
    ASSUME Inv, NEW r \in Roles, sess[r].fault = "none", NEW t,
           NEW rest,
           rest = sess[Peer(r)].out
             \/ (sess[Peer(r)].out # <<>> /\ rest = Tail(sess[Peer(r)].out)),
           Own(sess[r], t),
           NoFault /\ t.fault = "none" => InSound(t, sess[Peer(r)].store),
           Commit(r, t, rest)
    PROVE  /\ sess' \in [Roles -> SessionRecords]
           /\ broken' \in BOOLEAN
           /\ \A x \in Roles : sess'[x].fault = "none" =>
                 NumbersMatch(sess'[x]) /\ OutSound(sess'[x])
           /\ NoFault' => NoFault /\ \A x \in Roles : InSound(sess'[x], sess'[Peer(x)].store)
           /\ sess'[r].nextIn = t.nextIn /\ sess'[r].cache = t.cache
           /\ sess'[r].fault = t.fault
           /\ sess'[Peer(r)].nextIn = sess[Peer(r)].nextIn
           /\ sess'[Peer(r)].cache = sess[Peer(r)].cache
           /\ sess'[Peer(r)].fault = sess[Peer(r)].fault
  <1> DEFINE p == Peer(r)
             s == sess[r]
             q == sess[p]
             a == sess'[r]
             b == sess'[p]
  <1>1. p \in Roles /\ p # r /\ Peer(p) = r /\ \A x \in Roles : x = r \/ x = p
    BY PeerFacts
  <1>2. sess \in [Roles -> SessionRecords]  BY DEF Inv, TypeOK
  <1>3. s \in SessionRecords /\ q \in SessionRecords  BY <1>1, <1>2
  <1>4. t \in SessionRecords  BY DEF Own
  <1>5. /\ sess' = [x \in Roles |-> sess'[x]]
        /\ a = t \/ a = [t EXCEPT !.out = s.out]
        /\ b = [q EXCEPT !.out = <<>>] \/ b = [q EXCEPT !.out = rest]
        /\ broken' \in BOOLEAN
    BY <1>2, CommitRecords
  <1>6. NumbersMatch(s) /\ OutSound(s)  BY DEF Inv
  <1>7. q.fault = "none" => NumbersMatch(q) /\ OutSound(q)  BY <1>1 DEF Inv
  <1>8. NoFault => InSound(s, q.store) /\ InSound(q, s.store)  BY <1>1 DEF Inv
  <1>9. NoFault <=> s.fault = "none" /\ q.fault = "none"  BY <1>1 DEF NoFault
  <1>10. NoFault' <=> a.fault = "none" /\ b.fault = "none"  BY <1>1 DEF NoFault
  <1>11. NoFault /\ t.fault = "none" => InSound(t, q.store)  OBVIOUS
  <1>12. rest = q.out \/ (q.out # <<>> /\ rest = Tail(q.out))  OBVIOUS
  <1> HIDE DEF p, s, q, a, b
  <1>13. /\ a \in SessionRecords /\ a.store = t.store /\ a.nextIn = t.nextIn
         /\ a.cache = t.cache /\ a.fault = t.fault /\ a.delivered = t.delivered
         /\ a.nextOut = t.nextOut /\ a.stopped = t.stopped
         /\ (a.out = t.out \/ a.out = s.out)
    <2>1. s.out \in Seq(Messages)  BY <1>3, Fields
    <2>2. \A o \in Seq(Messages) : [t EXCEPT !.out = o] \in SessionRecords
      BY <1>4 DEF SessionRecords
    <2>3. CASE a = t  BY <1>4, <2>3
    <2>4. CASE a = [t EXCEPT !.out = s.out]
      <3>1. a \in SessionRecords  BY <2>1, <2>2, <2>4
      <3> QED  BY <1>4, <2>4, <3>1 DEF SessionRecords
    <2> QED  BY <1>5, <2>3, <2>4
  <1>14. /\ b \in SessionRecords /\ b.store = q.store /\ b.nextIn = q.nextIn
         /\ b.cache = q.cache /\ b.fault = q.fault /\ b.delivered = q.delivered
         /\ (OutSound(q) => OutSound(b)) /\ (NumbersMatch(q) => NumbersMatch(b))
    <2>1. /\ b \in SessionRecords
          /\ (OutSound(q) => OutSound(b)) /\ (NumbersMatch(q) => NumbersMatch(b))
      <3>1. PICK o : (o = <<>> \/ o = rest) /\ b = [q EXCEPT !.out = o]  BY <1>5
      <3>2. o = <<>> \/ o = q.out \/ (q.out # <<>> /\ o = Tail(q.out))  BY <1>12, <3>1
      <3> QED  BY <1>3, <3>1, <3>2, ReadSome
    <2> QED  BY <1>3, <1>5, <2>1 DEF SessionRecords
  <1>15. Own(s, t)  BY DEF s
  <1>16. t.store \in Seq(Messages) /\ s.store \in Seq(Messages) /\ q.store \in Seq(Messages)
    BY <1>3, <1>4, Fields
  <1>17. a.fault = "none" => NumbersMatch(a) /\ OutSound(a)
    <2>1. SUFFICES ASSUME t.fault = "none" PROVE NumbersMatch(a) /\ OutSound(a)
      BY <1>13
    <2>2. NumbersMatch(t) /\ OutSound(t) /\ Extends(s.store, t.store)
      BY <1>6, <1>15, <2>1 DEF Own
    <2>3. NumbersMatch(a)  BY <1>13, <2>2 DEF NumbersMatch
    <2>4. \A k \in 1..Len(s.out) : s.out[k] \in Messages  BY <1>3, Fields
    <2>5. \A k \in 1..Len(s.out) : Faithful(s.out[k], t.store)
      BY <1>6, <1>16, <2>2, <2>4, FaithfulExtends DEF OutSound
    <2>6. OutSound(a)  BY <1>13, <2>2, <2>5 DEF OutSound
    <2> QED  BY <2>3, <2>6
  <1>18. b.fault = "none" => NumbersMatch(b) /\ OutSound(b)  BY <1>7, <1>14
  <1>19. NoFault' => NoFault /\ InSound(a, b.store) /\ InSound(b, a.store)
    <2>1. SUFFICES ASSUME NoFault' PROVE NoFault /\ InSound(a, b.store) /\ InSound(b, a.store)
      OBVIOUS
    <2>2. t.fault = "none" /\ q.fault = "none" /\ NoFault
      BY <1>9, <1>10, <1>13, <1>14, <2>1 DEF s
    <2>3. InSound(t, q.store)  BY <1>11, <2>2
    <2>4. InSound(a, b.store)  BY <1>13, <1>14, <2>3 DEF InSound, OnceInOrder, Delivered
    <2>5. Extends(s.store, t.store) /\ InSound(q, s.store)
      BY <1>8, <1>15, <2>2 DEF Own
    <2>6. InSound(q, t.store)  BY <1>3, <1>16, <2>5, InSoundExtends
    <2>7. InSound(b, a.store)  BY <1>13, <1>14, <2>6 DEF InSound, OnceInOrder, Delivered
    <2> QED  BY <2>2, <2>4, <2>7
  <1>20. sess' \in [Roles -> SessionRecords]
    <2>1. \A x \in Roles : sess'[x] \in SessionRecords  BY <1>1, <1>13, <1>14 DEF a, b
    <2> QED  BY <1>5, <2>1
  <1>21. \A x \in Roles : sess'[x].fault = "none" =>
            NumbersMatch(sess'[x]) /\ OutSound(sess'[x])
    BY <1>1, <1>17, <1>18 DEF a, b
  <1>22. NoFault' => NoFault /\ \A x \in Roles : InSound(sess'[x], sess'[Peer(x)].store)
    BY <1>1, <1>19 DEF a, b, p
  <1> QED  BY <1>5, <1>13, <1>14, <1>20, <1>21, <1>22 DEF a, b, p, q
-----------------------------------------------------------------------------
(* Steps *)

\* What a step of r that turns its record into t must guarantee.
Keeps(r, t) ==
    /\ Own(sess[r], t)
    /\ NoFault /\ t.fault = "none" =>
         InSound(t, sess[Peer(r)].store) /\ t.nextIn >= sess[r].nextIn

\* t does not move a session that has not been started.
Unmoved(r, t) ==
    t.fault = "none" => t.nextIn = sess[r].nextIn /\ t.cache \subseteq sess[r].cache

Advances == NoFault' => \A r \in Roles : sess'[r].nextIn >= sess[r].nextIn

\* The records of a state that satisfies Inv.
LEMMA InvRecords ==
    ASSUME Inv, NEW r \in Roles
    PROVE  /\ sess[r] \in SessionRecords
           /\ Peer(r) \in Roles /\ sess[Peer(r)] \in SessionRecords
           /\ sess[Peer(r)].store \in Seq(Messages)
           /\ sess[r].fault = "none" => NumbersMatch(sess[r]) /\ OutSound(sess[r])
           /\ NoFault => InSound(sess[r], sess[Peer(r)].store) /\ StoreSound(sess[Peer(r)].store)
  <1>1. Peer(r) \in Roles  BY PeerFacts
  <1>2. sess[r] \in SessionRecords /\ sess[Peer(r)] \in SessionRecords
    BY <1>1 DEF Inv, TypeOK
  <1>3. sess[Peer(r)].store \in Seq(Messages)  BY <1>2, Fields
  <1>4. NoFault => StoreSound(sess[Peer(r)].store)  BY <1>1 DEF Inv, NoFault, OutSound
  <1> QED  BY <1>1, <1>2, <1>3, <1>4 DEF Inv

\* A quiet handler guarantees it.
LEMMA QuietKeeps ==
    ASSUME Inv, NEW r \in Roles, NEW t, Quiet(sess[r], t), Num(sess[r], t)
    PROVE  Keeps(r, t) /\ Unmoved(r, t)
  <1>1. sess[r] \in SessionRecords /\ sess[r].nextIn \in Nat  BY InvRecords, Fields
  <1>2. Own(sess[r], t)  BY DEF Quiet, Num, Own
  <1>3. ASSUME NoFault, t.fault = "none"
        PROVE  InSound(t, sess[Peer(r)].store) /\ t.nextIn >= sess[r].nextIn
    <2>1. InSound(sess[r], sess[Peer(r)].store)  BY <1>3, InvRecords
    <2>2. /\ t.nextIn = sess[r].nextIn /\ t.delivered = sess[r].delivered
          /\ t.cache \subseteq sess[r].cache
      BY <1>3 DEF Quiet
    <2> QED  BY <1>1, <2>1, <2>2 DEF InSound, OnceInOrder, Delivered
  <1>4. Unmoved(r, t)  BY DEF Quiet, Unmoved
  <1> QED  BY <1>2, <1>3, <1>4 DEF Keeps

\* A committed step that guarantees it preserves Inv.
LEMMA StepInv ==
    ASSUME Inv, NEW r \in Roles, sess[r].fault = "none", NEW t,
           NEW rest,
           rest = sess[Peer(r)].out
             \/ (sess[Peer(r)].out # <<>> /\ rest = Tail(sess[Peer(r)].out)),
           Keeps(r, t), Commit(r, t, rest),
           pend' \in [Roles -> {"none", "normal", "reconnect"}],
           chan' \in [Roles -> {"none", "offered", "set", "used"}],
           budget' \in Budgets,
           \A x \in Roles : pend'[x] = "normal" => pend[x] = "normal" /\ chan'[x] # "used",
           pend'[r] = "normal" => Unmoved(r, t)
    PROVE  Inv' /\ Advances
  <1>1. Peer(r) \in Roles /\ Peer(r) # r /\ \A x \in Roles : x = r \/ x = Peer(r)
    BY PeerFacts
  <1>2. /\ sess' \in [Roles -> SessionRecords]
        /\ broken' \in BOOLEAN
        /\ \A x \in Roles : sess'[x].fault = "none" =>
              NumbersMatch(sess'[x]) /\ OutSound(sess'[x])
        /\ NoFault' => NoFault /\ \A x \in Roles : InSound(sess'[x], sess'[Peer(x)].store)
        /\ sess'[r].nextIn = t.nextIn /\ sess'[r].cache = t.cache
        /\ sess'[r].fault = t.fault
        /\ sess'[Peer(r)].nextIn = sess[Peer(r)].nextIn
        /\ sess'[Peer(r)].cache = sess[Peer(r)].cache
        /\ sess'[Peer(r)].fault = sess[Peer(r)].fault
    BY CommitSound DEF Keeps
  <1>3. TypeOK'  BY <1>2 DEF TypeOK
  <1>4. ASSUME NEW x \in Roles, sess'[x].fault = "none", pend'[x] = "normal"
        PROVE  Fresh(sess'[x])
    <2>1. pend[x] = "normal"  BY <1>4
    <2>2. CASE x = r
      <3>1. Fresh(sess[r])  BY <2>1, <2>2 DEF Inv
      <3>2. t.nextIn = sess[r].nextIn /\ t.cache \subseteq sess[r].cache
        BY <1>2, <1>4, <2>2 DEF Unmoved
      <3> QED  BY <1>2, <2>2, <3>1, <3>2 DEF Fresh
    <2>3. CASE x = Peer(r)
      <3>1. Fresh(sess[x])  BY <1>2, <1>4, <2>1, <2>3 DEF Inv
      <3> QED  BY <1>2, <2>3, <3>1 DEF Fresh
    <2> QED  BY <1>1, <2>2, <2>3
  <1>5. ASSUME NoFault', NEW x \in Roles PROVE sess'[x].nextIn >= sess[x].nextIn
    <2>1. NoFault /\ t.fault = "none"  BY <1>2, <1>5 DEF NoFault
    <2>2. CASE x = r  BY <1>2, <2>1, <2>2 DEF Keeps
    <2>3. CASE x = Peer(r)
      <3>1. sess[x].nextIn \in Nat  BY InvRecords, Fields
      <3> QED  BY <1>2, <2>3, <3>1
    <2> QED  BY <1>1, <2>2, <2>3
  <1>6. Inv'  BY <1>2, <1>3, <1>4 DEF Inv
  <1> QED  BY <1>5, <1>6 DEF Advances
\* A step that changes neither what the sessions sent nor what they know of
\* each other, other than to lose what is on the wire.
LEMMA AsideInv ==
    ASSUME Inv, TypeOK',
           \A x \in Roles :
              /\ sess'[x].store = sess[x].store /\ sess'[x].nextIn = sess[x].nextIn
              /\ sess'[x].cache = sess[x].cache /\ sess'[x].fault = sess[x].fault
              /\ sess'[x].delivered = sess[x].delivered
              /\ sess'[x].nextOut = sess[x].nextOut /\ sess'[x].stopped = sess[x].stopped
              /\ sess'[x].out = sess[x].out \/ sess'[x].out = <<>>
              /\ pend'[x] = "normal" => pend[x] = "normal" /\ chan'[x] # "used"
    PROVE  Inv' /\ Advances
  <1>1. ASSUME NEW x \in Roles, sess'[x].fault = "none"
        PROVE  /\ NumbersMatch(sess'[x]) /\ OutSound(sess'[x])
               /\ pend'[x] = "normal" => Fresh(sess'[x])
    <2>1. /\ NumbersMatch(sess[x]) /\ OutSound(sess[x])
          /\ pend[x] = "normal" => Fresh(sess[x])
      BY <1>1 DEF Inv
    <2>2. NumbersMatch(sess'[x])  BY <2>1 DEF NumbersMatch
    <2>3. OutSound(sess'[x])  BY <2>1 DEF OutSound
    <2> QED  BY <2>1, <2>2, <2>3 DEF Fresh
  <1>2. ASSUME NoFault', NEW x \in Roles PROVE InSound(sess'[x], sess'[Peer(x)].store)
    <2>1. Peer(x) \in Roles /\ NoFault  BY <1>2, PeerFacts DEF NoFault
    <2>2. InSound(sess[x], sess[Peer(x)].store)  BY <2>1 DEF Inv
    <2> QED  BY <2>1, <2>2 DEF InSound, OnceInOrder, Delivered
  <1>3. \A x \in Roles : sess[x].nextIn \in Nat  BY InvRecords, Fields
  <1>4. Inv'  BY <1>1, <1>2 DEF Inv
  <1> QED  BY <1>3, <1>4 DEF Advances

\* The first state satisfies Inv: nothing stored, nothing known.
THEOREM InitInv ==
    Init => Inv
  <1> SUFFICES ASSUME Init PROVE Inv  OBVIOUS
  <1>1. ASSUME NEW r \in Roles
        PROVE  /\ sess[r] = NewSession(r, HeartBtInt[r])
               /\ sess[r] \in SessionRecords
               /\ sess[r].store = <<>> /\ sess[r].out = <<>> /\ sess[r].delivered = <<>>
               /\ sess[r].nextIn = 1 /\ sess[r].nextOut = 1 /\ sess[r].cache = {}
    <2>1. sess[r] = NewSession(r, HeartBtInt[r])  BY DEF Init
    <2>2. HeartBtInt[r] \in Nat  BY PairAssumption
    <2>3. NewSession(r, HeartBtInt[r]) \in SessionRecords
      BY <2>2 DEF NewSession, SessionRecords, SessionStates, Faults
    <2> QED  BY <2>1, <2>3 DEF NewSession
  <1>2. TypeOK
    <2>1. sess \in [Roles -> SessionRecords]  BY <1>1 DEF Init
    <2>2. budget \in Budgets  BY PairAssumption DEF Init, Budgets
    <2> QED  BY <2>1, <2>2 DEF Init, TypeOK
  <1>3. ASSUME NEW r \in Roles
        PROVE  NumbersMatch(sess[r]) /\ OutSound(sess[r]) /\ Fresh(sess[r])
    BY <1>1 DEF NumbersMatch, OutSound, StoreSound, Fresh
  <1>4. ASSUME NEW r \in Roles PROVE InSound(sess[r], sess[Peer(r)].store)
    <2>1. sess[Peer(r)].store = <<>>  BY <1>1, PeerFacts
    <2>2. Customs(sess[Peer(r)].store) = {}  BY <2>1 DEF Customs
    <2>3. Delivered(sess[r]) = {}  BY <1>1 DEF Delivered
    <2>4. OnceInOrder(sess[r], sess[Peer(r)].store)  BY <1>1, <2>2, <2>3 DEF OnceInOrder
    <2> QED  BY <1>1, <2>1, <2>4 DEF InSound
  <1>5. \A r \in Roles : chan[r] # "used"  BY DEF Init
  <1> QED  BY <1>2, <1>3, <1>4, <1>5 DEF Inv
\* Run, with a quiet handler or any other that keeps its contract.
LEMMA RunInv ==
    ASSUME Inv, NEW r \in Roles, sess[r].fault = "none", NEW t, Keeps(r, t), Run(r, t),
           budget' \in Budgets,
           pend' = pend \/ pend' = [pend EXCEPT ![r] = "reconnect"],
           pend[r] = "normal" => Unmoved(r, t)
    PROVE  Inv' /\ Advances
  <1>1. /\ pend \in [Roles -> {"none", "normal", "reconnect"}]
        /\ chan \in [Roles -> {"none", "offered", "set", "used"}]
    BY DEF Inv, TypeOK
  <1>2. Commit(r, t, sess[Peer(r)].out)  BY DEF Run
  <1>3. chan' = [chan EXCEPT ![r] = "none"] \/ chan' = chan
    <2>1. chan' = [chan EXCEPT ![r] = IF @ = "used" /\ Ends(r, t) THEN "none" ELSE @]
      BY DEF Run
    <2> QED  BY <1>1, <2>1
  <1>4. pend' \in [Roles -> {"none", "normal", "reconnect"}]  BY <1>1
  <1>5. chan' \in [Roles -> {"none", "offered", "set", "used"}]  BY <1>1, <1>3
  <1>6. \A x \in Roles : pend'[x] = "normal" => pend[x] = "normal" /\ chan'[x] # "used"
    BY <1>1, <1>3 DEF Inv
  <1>7. pend'[r] = "normal" => Unmoved(r, t)  BY <1>6
  <1> QED  BY <1>2, <1>4, <1>5, <1>6, <1>7, StepInv

\* A budget that is spent stays a budget.
LEMMA BudgetSpent ==
    ASSUME budget \in Budgets
    PROVE  /\ budget.app > 0 => [budget EXCEPT !.app = @ - 1] \in Budgets
           /\ budget.tick > 0 => [budget EXCEPT !.tick = @ - 1] \in Budgets
           /\ budget.fail > 0 => [budget EXCEPT !.fail = @ - 1] \in Budgets
           /\ budget.stop > 0 => [budget EXCEPT !.stop = @ - 1] \in Budgets
  BY DEF Budgets

\* Every step preserves Inv and takes no next_in back.
THEOREM NextInv ==
    Inv /\ [Next]_vars => Inv' /\ Advances
  <1> SUFFICES ASSUME Inv, [Next]_vars PROVE Inv' /\ Advances  OBVIOUS
  <1>1. TypeOK /\ budget \in Budgets /\ sess \in [Roles -> SessionRecords]
        /\ pend \in [Roles -> {"none", "normal", "reconnect"}]
        /\ chan \in [Roles -> {"none", "offered", "set", "used"}]
    BY DEF Inv, TypeOK
  <1>2. \A r \in Roles : pend[r] = "normal" => chan[r] # "used"  BY DEF Inv
  <1>3. CASE Establish
    <2>1. /\ sess' = [r \in Roles |-> [sess[r] EXCEPT !.out = <<>>]]
          /\ pend' = pend /\ budget' = budget /\ broken' = FALSE
          /\ chan' = [r \in Roles |-> "offered"]
      BY <1>3 DEF Establish
    <2>2. ASSUME NEW x \in Roles
          PROVE  /\ sess'[x] \in SessionRecords
                 /\ sess'[x].store = sess[x].store /\ sess'[x].nextIn = sess[x].nextIn
                 /\ sess'[x].cache = sess[x].cache /\ sess'[x].fault = sess[x].fault
                 /\ sess'[x].delivered = sess[x].delivered
                 /\ sess'[x].nextOut = sess[x].nextOut /\ sess'[x].stopped = sess[x].stopped
                 /\ sess'[x].out = <<>>
      <3>1. sess[x] \in SessionRecords  BY <1>1
      <3>2. sess'[x] = [sess[x] EXCEPT !.out = <<>>]  BY <2>1
      <3>3. [sess[x] EXCEPT !.out = <<>>] \in SessionRecords  BY <3>1, ReadSome
      <3> QED  BY <3>1, <3>2, <3>3 DEF SessionRecords
    <2>3. sess' \in [Roles -> SessionRecords]  BY <2>1, <2>2
    <2>4. TypeOK'  BY <1>1, <2>1, <2>3 DEF TypeOK
    <2>5. \A x \in Roles : pend'[x] = "normal" => pend[x] = "normal" /\ chan'[x] # "used"
      BY <2>1
    <2> QED  BY <2>2, <2>4, <2>5, AsideInv
  <1>4. CASE Fail
    <2>1. sess' = sess /\ pend' = pend /\ chan' = chan /\ broken' = TRUE /\ budget' \in Budgets
      BY <1>1, <1>4, BudgetSpent DEF Fail
    <2>2. TypeOK'  BY <1>1, <2>1 DEF TypeOK
    <2> QED  BY <1>2, <2>1, <2>2, AsideInv
  <1>5. ASSUME NEW r \in Roles, GiveUp(r) PROVE Inv' /\ Advances
    <2>1. sess' = sess /\ chan' = chan /\ broken' = broken /\ budget' = budget
          /\ pend' = [pend EXCEPT ![r] = "none"]
      BY <1>5 DEF GiveUp
    <2>2. TypeOK'  BY <1>1, <2>1 DEF TypeOK
    <2>3. \A x \in Roles : pend'[x] = "normal" => pend[x] = "normal" /\ chan'[x] # "used"
      BY <1>1, <1>2, <2>1
    <2> QED  BY <2>1, <2>2, <2>3, AsideInv
  <1>6. ASSUME NEW r \in Roles, SetConnection(r) PROVE Inv' /\ Advances
    <2>1. /\ sess' = [sess EXCEPT ![r] = set_connection(sess[r])]
          /\ chan' = [chan EXCEPT ![r] = "set"]
          /\ pend' = pend /\ broken' = broken /\ budget' = budget
      BY <1>6 DEF SetConnection
    <2>2. ASSUME NEW x \in Roles
          PROVE  /\ sess'[x] \in SessionRecords
                 /\ sess'[x].store = sess[x].store /\ sess'[x].nextIn = sess[x].nextIn
                 /\ sess'[x].cache = sess[x].cache /\ sess'[x].fault = sess[x].fault
                 /\ sess'[x].delivered = sess[x].delivered
                 /\ sess'[x].nextOut = sess[x].nextOut /\ sess'[x].stopped = sess[x].stopped
                 /\ sess'[x].out = sess[x].out
      <3>1. sess[x] \in SessionRecords  BY <1>1
      <3>2. sess'[x] \in {sess[x], set_connection(sess[x])}  BY <1>1, <2>1
      <3>3. CASE sess'[x] = sess[x]  BY <3>1, <3>3
      <3>4. CASE sess'[x] = set_connection(sess[x])
        BY <3>1, <3>4 DEF set_connection, SessionRecords
      <3> QED  BY <3>2, <3>3, <3>4
    <2>3. sess' \in [Roles -> SessionRecords]  BY <1>1, <2>1, <2>2
    <2>4. TypeOK'  BY <1>1, <2>1, <2>3 DEF TypeOK
    <2>5. \A x \in Roles : pend'[x] = "normal" => pend[x] = "normal" /\ chan'[x] # "used"
      BY <1>1, <1>2, <2>1
    <2> QED  BY <2>2, <2>4, <2>5, AsideInv
  <1>7. ASSUME NEW r \in Roles, start(r) PROVE Inv' /\ Advances
    <2> DEFINE t == IF pend[r] = "normal" THEN start_normal_(sess[r])
                                          ELSE start_after_reconnect_(sess[r])
    <2>1. sess[r].fault = "none"  BY <1>7 DEF start, Idle
    <2>2. sess[r] \in SessionRecords  BY <1>1
    <2>3. pend[r] = "normal" => sess[r].nextIn = 1  BY <2>1 DEF Inv, Fresh
    <2>4. Quiet(sess[r], t) /\ Num(sess[r], t)
      BY <2>2, <2>3, StartNormalQuiet, StartAfterReconnectQuiet
    <2>5. /\ Commit(r, t, sess[Peer(r)].out)
          /\ chan' = [chan EXCEPT ![r] = IF Ends(r, t) THEN "none" ELSE "used"]
          /\ pend' = [pend EXCEPT ![r] = "none"] /\ budget' = budget
      BY <1>7 DEF start
    <2> HIDE DEF t
    <2>6. Keeps(r, t) /\ Unmoved(r, t)  BY <2>4, QuietKeeps
    <2>7. pend' \in [Roles -> {"none", "normal", "reconnect"}] /\ budget' \in Budgets
      BY <1>1, <2>5
    <2>8. chan' \in [Roles -> {"none", "offered", "set", "used"}]  BY <1>1, <2>5
    <2>9. \A x \in Roles : pend'[x] = "normal" => pend[x] = "normal" /\ chan'[x] # "used"
      BY <1>1, <1>2, <2>5
    <2> QED  BY <2>1, <2>5, <2>6, <2>7, <2>8, <2>9, StepInv
  <1>8. ASSUME NEW r \in Roles, TransportDown(r) PROVE Inv' /\ Advances
    <2>1. sess[r].fault = "none"  BY <1>8 DEF TransportDown, Reading, Idle
    <2>2. Quiet(sess[r], on_transport_down_(sess[r])) /\ Num(sess[r], on_transport_down_(sess[r]))
      BY <1>1, TransportDownQuiet
    <2>3. Run(r, on_transport_down_(sess[r])) /\ budget' = budget
      BY <1>8 DEF TransportDown
    <2>4. pend' = pend \/ pend' = [pend EXCEPT ![r] = "reconnect"]
      <3>1. pend' = [pend EXCEPT ![r] = IF LosesTransport(sess[r]) THEN "reconnect" ELSE @]
        BY <1>8 DEF TransportDown
      <3> QED  BY <1>1, <3>1
    <2> QED  BY <1>1, <2>1, <2>2, <2>3, <2>4, QuietKeeps, RunInv
  <1>9. ASSUME NEW r \in Roles, Receive(r) PROVE Inv' /\ Advances
    <2> DEFINE m == Head(sess[Peer(r)].out)
               t == process_wire_message_(sess[r], m)
    <2>1. sess[r].fault = "none" /\ chan[r] = "used" /\ sess[Peer(r)].out # <<>>
      BY <1>9 DEF Receive, Reading, Idle
    <2>2. /\ Commit(r, t, Tail(sess[Peer(r)].out))
          /\ chan' = [chan EXCEPT ![r] = IF Ends(r, t) THEN "none" ELSE @]
          /\ pend' = pend /\ budget' = budget
      BY <1>9 DEF Receive
    <2>3. sess[Peer(r)] \in SessionRecords /\ sess[Peer(r)].out \in Seq(Messages)
      BY InvRecords, Fields
    <2>4. m \in Messages /\ 1 \in 1..Len(sess[Peer(r)].out) /\ m = sess[Peer(r)].out[1]
      BY <2>1, <2>3
    <2>5. Takes(sess[r], t, m, sess[Peer(r)].store)
      BY <2>1, <2>4, InvRecords, ProcessTakes
    <2>6. NoFault => Vouches(sess[Peer(r)].store, m) /\ InSound(sess[r], sess[Peer(r)].store)
      <3>1. NoFault => OutSound(sess[Peer(r)])  BY PeerFacts DEF Inv, NoFault
      <3> QED  BY <2>4, <3>1, InvRecords DEF OutSound, Vouches
    <2> HIDE DEF m, t
    <2>7. Keeps(r, t)  BY <2>5, <2>6 DEF Takes, Keeps
    <2>8. pend' \in [Roles -> {"none", "normal", "reconnect"}] /\ budget' \in Budgets
      BY <1>1, <2>2
    <2>9. chan' \in [Roles -> {"none", "offered", "set", "used"}]  BY <1>1, <2>2
    <2>10. \A x \in Roles : pend'[x] = "normal" => pend[x] = "normal" /\ chan'[x] # "used"
      BY <1>1, <1>2, <2>2
    <2>11. pend'[r] # "normal"  BY <1>2, <2>1, <2>2
    <2> QED  BY <2>1, <2>2, <2>7, <2>8, <2>9, <2>10, <2>11, StepInv
  <1>10. ASSUME NEW r \in Roles, Resend(r) PROVE Inv' /\ Advances
    <2>1. sess[r].fault = "none" /\ sess[r].rsCur <= sess[r].rsEnd
          /\ Run(r, ResendStep(sess[r])) /\ pend' = pend /\ budget' = budget
      BY <1>10 DEF Resend
    <2>2. Quiet(sess[r], ResendStep(sess[r])) /\ Num(sess[r], ResendStep(sess[r]))
      BY <1>1, <2>1, InvRecords, ResendStepQuiet
    <2> QED  BY <1>1, <2>1, <2>2, QuietKeeps, RunInv
  <1>11. ASSUME NEW r \in Roles, Drain(r) PROVE Inv' /\ Advances
    <2> DEFINE t == DrainStep(sess[r])
               st == sess[Peer(r)].store
    <2>1. sess[r].fault = "none" /\ Run(r, t) /\ pend' = pend /\ budget' = budget
      BY <1>11 DEF Drain
    <2>2. /\ sess[r] \in SessionRecords /\ NumbersMatch(sess[r]) /\ st \in Seq(Messages)
          /\ NoFault => StoreSound(st) /\ InSound(sess[r], st)
      BY <2>1, InvRecords
    <2>3. /\ Own(sess[r], t)
          /\ t.fault = "none" /\ StoreSound(st) /\ InSound(sess[r], st) =>
               InSound(t, st) /\ t.nextIn >= sess[r].nextIn
      BY <2>2, DrainTakes
    <2>4. Keeps(r, t)
      <3> HIDE DEF t
      <3> QED  BY <2>2, <2>3 DEF Keeps
    <2>5. pend[r] = "normal" => Unmoved(r, t)
      <3>1. ASSUME pend[r] = "normal" PROVE sess[r].cache = {}  BY <2>1, <3>1 DEF Inv, Fresh
      <3> QED  BY <2>2, <3>1, DrainEmptyQuiet DEF Unmoved
    <2> HIDE DEF t
    <2> QED  BY <1>1, <2>1, <2>4, <2>5, RunInv
  <1>12. ASSUME NEW r \in Roles, Stop(r) PROVE Inv' /\ Advances
    <2>1. sess[r].fault = "none" /\ Run(r, stop_(sess[r])) /\ pend' = pend /\ budget' \in Budgets
      BY <1>1, <1>12, BudgetSpent DEF Stop, Idle
    <2>2. Quiet(sess[r], stop_(sess[r])) /\ Num(sess[r], stop_(sess[r]))  BY <1>1, StopQuiet
    <2> QED  BY <2>1, <2>2, QuietKeeps, RunInv
  <1>13. ASSUME NEW r \in Roles, NEW x \in Timers, Expire(r, x) PROVE Inv' /\ Advances
    <2>1. sess[r].fault = "none" /\ Run(r, TimerExpired(sess[r], x)) /\ pend' = pend
      BY <1>13 DEF Expire, Idle
    <2>2. budget' \in Budgets  BY <1>1, <1>13, BudgetSpent DEF Expire
    <2>3. Quiet(sess[r], TimerExpired(sess[r], x)) /\ Num(sess[r], TimerExpired(sess[r], x))
      BY <1>1, TimerQuiet
    <2> QED  BY <2>1, <2>2, <2>3, QuietKeeps, RunInv
  <1>14. ASSUME NEW r \in Roles, NEW kind \in AppKinds, AppSend(r, kind) PROVE Inv' /\ Advances
    <2> DEFINE t == send_from_app(sess[r], AppMessage(kind))
    <2>1. sess[r].fault = "none" /\ Run(r, t) /\ pend' = pend /\ budget' \in Budgets
      BY <1>1, <1>14, BudgetSpent DEF AppSend, Idle
    <2>2. Quiet(sess[r], t) /\ Num(sess[r], t)  BY <1>1, AppQuiet
    <2> HIDE DEF t
    <2> QED  BY <2>1, <2>2, QuietKeeps, RunInv
  <1>15. CASE UNCHANGED vars
    <2>1. sess' = sess /\ pend' = pend /\ chan' = chan /\ broken' = broken /\ budget' = budget
      BY <1>15 DEF vars
    <2>2. TypeOK'  BY <1>1, <2>1 DEF TypeOK
    <2> QED  BY <1>2, <2>1, <2>2, AsideInv
  <1> QED
    BY <1>3, <1>4, <1>5, <1>6, <1>7, <1>8, <1>9, <1>10, <1>11, <1>12, <1>13, <1>14, <1>15
       DEF Next

(***************************************************************************)
(* Inv holds of every behaviour, for every value of the constants.         *)
(***************************************************************************)
THEOREM Invariance ==
    Spec => []Inv
  <1>1. Inv /\ [Next]_vars => Inv'  BY NextInv
  <1> QED  BY <1>1, InitInv, PTL DEF Spec

\* The records keep their types in every behaviour.
THEOREM TypeCorrect ==
    Spec => []TypeOK
  <1>1. Inv => TypeOK  BY DEF Inv
  <1> QED  BY <1>1, Invariance, PTL

(***************************************************************************)
(* Whatever connections are lost, however gaps, resends, gap fills and     *)
(* duplicates interleave, handle_custom takes every Custom message of the  *)
(* peer once and in order.                                                 *)
(***************************************************************************)
THEOREM ExactlyOnce ==
    Spec => []ExactlyOnceInOrder
  <1>1. Inv => ExactlyOnceInOrder  BY DEF Inv, InSound, ExactlyOnceInOrder
  <1> QED  BY <1>1, Invariance, PTL

\* While it may send, a session's store and its numbers agree.
THEOREM StoreMatches ==
    Spec => []StoreMatchesSeq
  <1>1. Inv => StoreMatchesSeq  BY DEF Inv, OutSound, StoreSound, StoreMatchesSeq
  <1> QED  BY <1>1, Invariance, PTL

\* What is on the wire or parked agrees with the sender's store.
THEOREM Faithfulness ==
    Spec => []WireFaithful
  <1>1. Inv => WireFaithful
    <2>1. ASSUME Inv, NoFault, NEW r \in Roles
          PROVE  /\ \A k \in 1..Len(sess[r].out) : Faithful(sess[r].out[k], sess[r].store)
                 /\ \A m \in sess[r].cache : Faithful(m, sess[Peer(r)].store)
      <3>1. OutSound(sess[r]) /\ InSound(sess[r], sess[Peer(r)].store)
        BY <2>1 DEF Inv, NoFault
      <3> QED  BY <3>1 DEF OutSound, InSound
    <2> QED  BY <2>1 DEF WireFaithful
  <1> QED  BY <1>1, Invariance, PTL

\* No reset, reconnect, gap fill or duplicate takes next_in back.
THEOREM NoRegress ==
    Spec => NextInNeverRegresses
  <1>1. Inv /\ [Next]_vars => Advances  BY NextInv
  <1>2. Advances => [NoFault' => \A r \in Roles : sess'[r].nextIn >= sess[r].nextIn]_vars
    BY DEF Advances
  <1>3. Inv /\ [Next]_vars => [NoFault' => \A r \in Roles : sess'[r].nextIn >= sess[r].nextIn]_vars
    BY <1>1, <1>2
  <1> QED  BY <1>3, Invariance, PTL DEF Spec, NextInNeverRegresses

-----------------------------------------------------------------------------
(* What is on its way *)

\* The messages of a sequence on the wire.
Wired(q) == {q[k] : k \in 1..Len(q)}

\* What has still to be consumed by s of what t sent: read, or parked.
OnWay(s, t) == Wired(t.out) \cup s.cache

\* m is sent for the first time, and is not the Logon that may restart the
\* numbers.
InOrder(m) == ~ m.dup /\ m.seq > 1

\* next_in after m is consumed at its number.
Top(m) == IF m.type = "SequenceReset" THEN m.newSeq ELSE m.seq + 1

\* m agrees with the store st, or is a restarting Logon that it refused.
Known(m, st) == Faithful(m, st) \/ (m.type = "Logon" /\ m.seq = 1 /\ ~ m.dup)

\* A run of administrative messages that starts at n, if it is ahead of k,
\* starts behind an application message.
AppBefore(n, k, st) == n <= k \/ st[n - 1].type \notin AdminTypes

\* No stored message is marked PossDup.
Undup(st) == \A i \in 1..Len(st) : ~ st[i].dup

\* What the proofs below need to know of a store.
StoreOK(st) == StoreSound(st) /\ Undup(st)

\* First sendings are on the wire in the order of their numbers.
Rising(q) ==
    \A j, k \in 1..Len(q) : j < k /\ InOrder(q[j]) /\ InOrder(q[k]) => q[j].seq < q[k].seq

\* The messages W, on their way to a session whose next_in is n: gap fills
\* start behind an application message, and whatever is sent again is below
\* every first sending that is still on its way.
Wire(n, st, W) ==
    /\ \A m \in W : /\ Known(m, st)
                    /\ m.type = "SequenceReset" => m.dup /\ AppBefore(m.seq, n, st)
    /\ \A d, f \in W : d.dup /\ InOrder(f) => Top(d) <= f.seq

\* The ResendRequests in R ask for a range that is stored, that starts at or
\* below n and that ends before every first sending on its way.
Asked(n, st, R, W) ==
    \A q \in R : q.type = "ResendRequest" =>
        /\ 1 <= q.begin /\ q.begin <= n /\ q.begin <= q.end /\ q.end <= Len(st)
        /\ \A f \in W : InOrder(f) => q.end < f.seq

\* So does what a resend loop has left to send, b to e.
Answering(b, e, n, st, W) ==
    b <= e => /\ 1 <= b /\ e <= Len(st)
              /\ no_resend(st[b]) => AppBefore(b, n, st)
              /\ \A f \in W : InOrder(f) => e < f.seq

\* The recovery cache of s: one message per number, inside the window, none
\* below next_in, and at next_in only while the drain loop runs.
Parks(s) ==
    /\ s.nextIn >= 1
    /\ \A m, n \in s.cache : m.seq = n.seq => m = n
    /\ \A m \in s.cache : in_window(s, m.seq) /\ m.seq > 1
    /\ s.state = "RECOVERING_RESEND" =>
         \A m \in s.cache : m.seq >= s.nextIn /\ (~ s.draining => m.seq > s.nextIn)

\* What is on its way from t to s, and what s has asked t for.
Traffic(s, t) ==
    /\ Wire(s.nextIn, t.store, OnWay(s, t))
    /\ Rising(t.out)
    /\ t.fault = "none" =>
         /\ Asked(s.nextIn, t.store, Wired(s.out) \cup t.cache, OnWay(s, t))
         /\ Answering(t.rsCur, t.rsEnd, s.nextIn, t.store, OnWay(s, t))

(***************************************************************************)
(* The invariant behind ParkedIsAhead, inductive together with Inv.  Two   *)
(* things keep a gap fill from passing over a parked message.  What is     *)
(* sent again stays below every first sending on its way, because requests *)
(* and resend loops end before those.  And a gap fill covers a maximal run *)
(* of administrative messages: one that starts ahead of next_in starts     *)
(* behind an application message, so it is never inside another's run.     *)
(***************************************************************************)
ParkInv ==
    \A r \in Roles :
        /\ StoreOK(sess[r].store)
        /\ sess[r].fault = "none" => Parks(sess[r]) /\ Traffic(sess[r], sess[Peer(r)])

-----------------------------------------------------------------------------
\* What is known of a message that agrees with the store.
LEMMA KnownFacts ==
    ASSUME NEW st \in Seq(Messages), StoreOK(st), NEW m \in Messages, Known(m, st)
    PROVE  /\ m.seq \in Nat /\ m.newSeq \in Nat /\ Len(st) \in Nat /\ m.seq >= 1
           /\ m.type = "SequenceReset" => Fills(m, st)
           /\ m.type = "Logon" /\ m.reset => m.seq = 1
           /\ m.seq < Top(m) /\ Top(m) \in Nat
           /\ InOrder(m) \/ m.dup => m.seq <= Len(st) /\ Top(m) <= Len(st) + 1
           /\ m.dup /\ m.type # "SequenceReset" =>
                m.seq \in 1..Len(st) /\ st[m.seq].type \notin AdminTypes
  <1>1. Len(st) \in Nat /\ m.seq \in Nat /\ m.newSeq \in Nat  BY MessageFields
  <1>2. StoreSound(st) /\ Undup(st)  BY DEF StoreOK
  <1>3. CASE m.type = "Logon" /\ m.seq = 1 /\ ~ m.dup
    BY <1>1, <1>3 DEF Top, InOrder
  <1>4. CASE Faithful(m, st)
    <2>1. /\ m.seq \in 1..Len(st)
          /\ m.type # "SequenceReset" =>
                st[m.seq].type = m.type /\ m.reset = st[m.seq].reset
          /\ m.type = "SequenceReset" => Fills(m, st)
      BY <1>2, <1>4, FaithfulInStore
    <2>2. m.type = "Logon" /\ m.reset => m.seq = 1  BY <1>2, <2>1 DEF StoreSound
    <2>3. m.type = "SequenceReset" => m.seq < m.newSeq /\ m.newSeq <= Len(st) + 1
      BY <2>1 DEF Fills
    <2>4. m.seq < Top(m) /\ Top(m) \in Nat /\ Top(m) <= Len(st) + 1
      BY <1>1, <2>1, <2>3 DEF Top
    <2>5. m.dup /\ m.type # "SequenceReset" => st[m.seq].type \notin AdminTypes
      <3>1. m.type # "SequenceReset" => Copies(m, st)  BY <1>4 DEF Faithful, Fills
      <3>2. ~ st[m.seq].dup  BY <1>2, <2>1 DEF Undup
      <3> QED  BY <3>1, <3>2 DEF Copies
    <2> QED  BY <1>1, <2>1, <2>2, <2>4, <2>5
  <1> QED  BY <1>3, <1>4 DEF Known

\* A message agrees with a store that has grown.
LEMMA KnownExtends ==
    ASSUME NEW a \in Seq(Messages), NEW b \in Seq(Messages), Extends(a, b),
           NEW m \in Messages, Known(m, a)
    PROVE  Known(m, b)
  BY FaithfulExtends DEF Known

\* What precedes a number stays as it was when the store grows.
LEMMA AppBeforeExtends ==
    ASSUME NEW a \in Seq(Messages), NEW b \in Seq(Messages), Extends(a, b),
           NEW i \in Nat, i - 1 <= Len(a), 1 <= i, NEW n \in Nat, n >= 1, AppBefore(i, n, a)
    PROVE  AppBefore(i, n, b)
  <1>1. CASE i <= n  BY <1>1 DEF AppBefore
  <1>2. CASE ~ (i <= n)
    <2>1. i - 1 \in 1..Len(a)  BY <1>2
    <2> QED  BY <1>2, <2>1 DEF AppBefore, Extends
  <1> QED  BY <1>1, <1>2

\* The order is kept when messages are consumed or lost.
LEMMA WireShrinks ==
    ASSUME NEW st \in Seq(Messages), NEW n \in Nat, NEW k \in Nat, n <= k,
           NEW W \in SUBSET Messages, NEW V \in SUBSET W, Wire(n, st, W)
    PROVE  Wire(k, st, V)
  <1>1. \A m \in V : m \in W /\ m.seq \in Nat  BY MessageFields
  <1>2. \A m \in V : AppBefore(m.seq, n, st) => AppBefore(m.seq, k, st)
    BY <1>1 DEF AppBefore
  <1> QED  BY <1>1, <1>2 DEF Wire

\* The new message n is stored.
LEMMA WireStores ==
    ASSUME NEW st \in Seq(Messages), StoreOK(st), NEW i \in Nat, i >= 1,
           NEW W \in SUBSET Messages, Wire(i, st, W),
           NEW n \in Messages, ~ n.dup, n.type # "SequenceReset", n.seq = Len(st) + 1,
           NEW V \in SUBSET (W \cup {n})
    PROVE  Wire(i, Append(st, n), V)
  <1> DEFINE sn == Append(st, n)
  <1>1. /\ sn \in Seq(Messages) /\ Len(sn) = Len(st) + 1 /\ sn[Len(st) + 1] = n
        /\ Len(st) \in Nat /\ Extends(st, sn)
    BY DEF Extends
  <1> HIDE DEF sn
  <1>2. ASSUME NEW m \in W
        PROVE  /\ Known(m, sn)
               /\ m.type = "SequenceReset" => m.dup /\ AppBefore(m.seq, i, sn)
    <2>1. /\ Known(m, st) /\ m \in Messages
          /\ m.type = "SequenceReset" => m.dup /\ AppBefore(m.seq, i, st)
      BY DEF Wire
    <2>2. Known(m, sn)  BY <1>1, <2>1, KnownExtends
    <2>3. ASSUME m.type = "SequenceReset" PROVE AppBefore(m.seq, i, sn)
      <3>1. m.seq \in Nat /\ m.seq >= 1 /\ m.seq <= Len(st)  BY <2>1, <2>3, KnownFacts
      <3> QED  BY <1>1, <2>1, <2>3, <3>1, AppBeforeExtends
    <2> QED  BY <2>1, <2>2, <2>3
  <1>3. Known(n, sn)  BY <1>1 DEF Known, Faithful, Copies
  <1>4. ASSUME NEW d \in W, d.dup PROVE Top(d) <= n.seq
    BY <1>1, <1>4, KnownFacts DEF Wire
  <1>5. Wire(i, sn, V)  BY <1>2, <1>3, <1>4 DEF Wire
  <1> QED  BY <1>5 DEF sn

\* A Logon with number 1 that the store refused.
LEMMA WireLogon ==
    ASSUME NEW st, NEW i, NEW W, Wire(i, st, W),
           NEW n, ~ n.dup, n.type = "Logon", n.seq = 1, NEW V \in SUBSET (W \cup {n})
    PROVE  Wire(i, st, V)
  <1>1. Known(n, st)  BY DEF Known
  <1>2. ~ InOrder(n)  BY DEF InOrder
  <1> QED  BY <1>1, <1>2 DEF Wire

\* The copy or gap fill n is sent again.
LEMMA WireResends ==
    ASSUME NEW st, NEW i, NEW W, Wire(i, st, W), NEW n, Faithful(n, st), n.dup,
           n.type = "SequenceReset" => AppBefore(n.seq, i, st),
           \A f \in W : InOrder(f) => Top(n) <= f.seq,
           NEW V \in SUBSET (W \cup {n})
    PROVE  Wire(i, st, V)
  <1>1. Known(n, st)  BY DEF Known
  <1>2. ~ InOrder(n)  BY DEF InOrder
  <1> QED  BY <1>1, <1>2 DEF Wire

\* What a message at next_in leaves behind: whatever else is parked ahead of
\* next_in is not passed over.
LEMMA PassesNothing ==
    ASSUME NEW st \in Seq(Messages), StoreOK(st), NEW i \in Nat,
           NEW W \in SUBSET Messages, Wire(i, st, W),
           NEW m \in W, NEW c \in W, m.seq = i, c.seq > i
    PROVE  Top(m) <= c.seq
  <1>1. /\ m \in Messages /\ c \in Messages /\ Known(m, st) /\ Known(c, st)
    BY DEF Wire
  <1>2. /\ c.seq \in Nat /\ m.seq \in Nat /\ m.newSeq \in Nat /\ m.seq >= 1
        /\ m.type = "SequenceReset" => Fills(m, st)
        /\ c.type = "SequenceReset" => Fills(c, st)
        /\ c.dup /\ c.type # "SequenceReset" =>
                c.seq \in 1..Len(st) /\ st[c.seq].type \notin AdminTypes
    BY <1>1, KnownFacts
  <1>3. CASE m.type # "SequenceReset"  BY <1>2, <1>3 DEF Top
  <1>4. CASE m.type = "SequenceReset"
    <2>1. m.dup  BY <1>4 DEF Wire
    <2>2. CASE ~ c.dup
      <3>1. InOrder(c)  BY <1>2, <2>2 DEF InOrder
      <3> QED  BY <2>1, <3>1 DEF Wire
    <2>3. CASE c.dup
      <3> SUFFICES ASSUME ~ (m.newSeq <= c.seq) PROVE FALSE  BY <1>4 DEF Top
      <3>1. \A j \in m.seq..(m.newSeq - 1) : st[j].type \in AdminTypes
        BY <1>2, <1>4 DEF Fills
      <3>2. c.seq \in m.seq..(m.newSeq - 1) /\ c.seq - 1 \in m.seq..(m.newSeq - 1)
        BY <1>2
      <3>3. c.type = "SequenceReset"  BY <1>2, <2>3, <3>1, <3>2
      <3>4. AppBefore(c.seq, i, st)  BY <3>3 DEF Wire
      <3> QED  BY <1>2, <3>1, <3>2, <3>4 DEF AppBefore
    <2> QED  BY <2>2, <2>3
  <1> QED  BY <1>3, <1>4

-----------------------------------------------------------------------------
(* Sequences on the wire *)

\* A message appended to the wire is on the wire.
LEMMA WiredAppend ==
    ASSUME NEW q \in Seq(Messages), NEW m \in Messages
    PROVE  Wired(Append(q, m)) = Wired(q) \cup {m}
  <1> DEFINE f == Append(q, m)
  <1>1. Len(q) \in Nat /\ Len(f) = Len(q) + 1 /\ f[Len(q) + 1] = m
        /\ \A i \in 1..Len(q) : f[i] = q[i]
    OBVIOUS
  <1>2. \A i \in 1..Len(f) : i \in 1..Len(q) \/ i = Len(q) + 1  BY <1>1
  <1>3. \A i \in 1..Len(q) : i \in 1..Len(f)  BY <1>1
  <1>4. Len(q) + 1 \in 1..Len(f)  BY <1>1
  <1> HIDE DEF f
  <1>5. Wired(f) = Wired(q) \cup {m}  BY <1>1, <1>2, <1>3, <1>4 DEF Wired
  <1> QED  BY <1>5 DEF f

\* What is on the wire are messages.
LEMMA WiredType ==
    ASSUME NEW q \in Seq(Messages)
    PROVE  Wired(q) \in SUBSET Messages
  <1>1. \A k \in 1..Len(q) : q[k] \in Messages  OBVIOUS
  <1> QED  BY <1>1 DEF Wired

\* Appending a number above the others keeps the order.
LEMMA RisingAppend ==
    ASSUME NEW q \in Seq(Messages), NEW m \in Messages, Rising(q),
           InOrder(m) => \A f \in Wired(q) : InOrder(f) => f.seq < m.seq
    PROVE  Rising(Append(q, m))
  <1> DEFINE a == Append(q, m)
  <1>1. Len(q) \in Nat /\ Len(a) = Len(q) + 1 /\ a[Len(q) + 1] = m
        /\ \A i \in 1..Len(q) : a[i] = q[i]
    OBVIOUS
  <1> HIDE DEF a
  <1>2. ASSUME NEW j \in 1..Len(a), NEW k \in 1..Len(a), j < k, InOrder(a[j]), InOrder(a[k])
        PROVE  a[j].seq < a[k].seq
    <2>1. j \in 1..Len(q) /\ a[j] = q[j]  BY <1>1, <1>2
    <2>2. CASE k \in 1..Len(q)
      <3>1. a[k] = q[k]  BY <1>1, <2>2
      <3> QED  BY <1>2, <2>1, <2>2, <3>1 DEF Rising
    <2>3. CASE k = Len(q) + 1
      <3>1. a[k] = m /\ q[j] \in Wired(q)  BY <1>1, <2>1, <2>3 DEF Wired
      <3> QED  BY <1>2, <2>1, <3>1
    <2> QED  BY <1>1, <2>2, <2>3
  <1>3. Rising(a)  BY <1>2 DEF Rising
  <1> QED  BY <1>3 DEF a

\* The head of what is on the wire is the first of it, the rest follows.
LEMMA HeadTail ==
    ASSUME NEW q \in Seq(Messages), q # <<>>
    PROVE  /\ Head(q) \in Messages /\ Head(q) \in Wired(q)
           /\ Tail(q) \in Seq(Messages) /\ Wired(Tail(q)) \subseteq Wired(q)
           /\ Rising(q) => /\ Rising(Tail(q))
                           /\ \A f \in Wired(Tail(q)) :
                                InOrder(Head(q)) /\ InOrder(f) => Head(q).seq < f.seq
  <1> DEFINE a == Tail(q)
             h == Head(q)
  <1>1. /\ Len(q) \in Nat /\ Len(q) >= 1 /\ h = q[1] /\ h \in Messages
        /\ a \in Seq(Messages) /\ Len(a) = Len(q) - 1
        /\ \A i \in 1..Len(a) : a[i] = q[i + 1]
    OBVIOUS
  <1> HIDE DEF a, h
  <1>2. \A i \in 1..Len(a) : i + 1 \in 1..Len(q)  BY <1>1
  <1>3. h \in Wired(q)
    <2>1. 1 \in 1..Len(q)  BY <1>1
    <2> QED  BY <1>1, <2>1 DEF Wired
  <1>4. Wired(a) \subseteq Wired(q)  BY <1>1, <1>2 DEF Wired
  <1>5. ASSUME Rising(q), NEW j \in 1..Len(a), NEW k \in 1..Len(a), j < k,
               InOrder(a[j]), InOrder(a[k])
        PROVE  a[j].seq < a[k].seq
    <2>1. a[j] = q[j + 1] /\ a[k] = q[k + 1]  BY <1>1
    <2>2. j + 1 < k + 1  BY <1>5
    <2> QED  BY <1>2, <1>5, <2>1, <2>2 DEF Rising
  <1>6. ASSUME Rising(q), NEW f \in Wired(a), InOrder(h), InOrder(f) PROVE h.seq < f.seq
    <2>1. PICK k \in 1..Len(a) : f = a[k]  BY DEF Wired
    <2>2. f = q[k + 1] /\ k + 1 \in 1..Len(q) /\ 1 \in 1..Len(q) /\ 1 < k + 1
      BY <1>1, <1>2, <2>1
    <2> QED  BY <1>1, <1>6, <2>2 DEF Rising
  <1>7. Rising(q) => Rising(a)  BY <1>5 DEF Rising
  <1> QED  BY <1>1, <1>3, <1>4, <1>6, <1>7 DEF a, h

-----------------------------------------------------------------------------
(* What one session does to the traffic towards the other *)

\* From s to t nothing is stored or sent.
Same(s, t) == t.out = s.out /\ t.store = s.store

\* From s to t the message n is stored under the next number, and sent if the
\* connection takes it; the store refuses a Logon that restarts the numbers.
Wrote(s, t, n) ==
    /\ n \in Messages /\ ~ n.dup /\ n.type # "SequenceReset"
    /\ n.reset => n.seq = 1
    /\ n.type = "Unregistered" => n.check = "invalid"
    /\ t.out \in {s.out, Append(s.out, n)}
    /\ \/ n.seq = Len(s.store) + 1 /\ t.store = Append(s.store, n)
       \/ n.type = "Logon" /\ n.seq = 1 /\ t.store = s.store

\* From s to t at most one message is stored and sent.
Sent(s, t) == Same(s, t) \/ \E n : Wrote(s, t, n)

\* What is on its way are messages.
LEMMA OnWayType ==
    ASSUME NEW s \in SessionRecords, NEW t \in SessionRecords
    PROVE  OnWay(s, t) \in SUBSET Messages
  <1>1. Wired(t.out) \in SUBSET Messages /\ s.cache \in SUBSET Messages
    BY Fields, WiredType
  <1> QED  BY <1>1 DEF OnWay

\* A store that is sound stays so when t writes.
LEMMA SentStore ==
    ASSUME NEW t \in SessionRecords, NEW u, StoreOK(t.store), Sent(t, u)
    PROVE  StoreOK(u.store) /\ Extends(t.store, u.store)
  <1>1. t.store \in Seq(Messages) /\ Len(t.store) \in Nat  BY Fields
  <1>2. CASE u.store = t.store  BY <1>1, <1>2 DEF Extends
  <1>3. ASSUME NEW n, Wrote(t, u, n), n.seq = Len(t.store) + 1, u.store = Append(t.store, n)
        PROVE  StoreOK(u.store) /\ Extends(t.store, u.store)
    <2>1. /\ n \in Messages /\ ~ n.dup /\ n.type # "SequenceReset" /\ (n.reset => n.seq = 1)
          /\ n.type = "Unregistered" => n.check = "invalid"
      BY <1>3 DEF Wrote
    <2>2. StoreSound(u.store)  BY <1>1, <1>3, <2>1, AppendSound DEF StoreOK
    <2>3. /\ Len(u.store) = Len(t.store) + 1 /\ u.store[Len(t.store) + 1] = n
          /\ \A i \in 1..Len(t.store) : u.store[i] = t.store[i]
      BY <1>1, <1>3, <2>1
    <2>4. Undup(u.store)  
      <3>1. \A i \in 1..Len(u.store) : i \in 1..Len(t.store) \/ i = Len(t.store) + 1
        BY <1>1, <2>3
      <3> QED  BY <2>1, <2>3, <3>1 DEF StoreOK, Undup
    <2> QED  BY <1>1, <2>2, <2>3, <2>4 DEF StoreOK, Extends
  <1> QED  BY <1>2, <1>3 DEF Sent, Same, Wrote

\* What is written reaches s in order, and ahead of every bound.
LEMMA SentTraffic ==
    ASSUME NEW s \in SessionRecords, NEW t \in SessionRecords, NEW u \in SessionRecords,
           s.nextIn >= 1, StoreOK(t.store), Traffic(s, t), t.fault = "none", Sent(t, u),
           u.fault = "none" =>
             /\ u.cache \subseteq t.cache \cup Wired(s.out)
             /\ \/ u.rsCur > u.rsEnd
                \/ \E q \in t.cache \cup Wired(s.out) :
                     q.type = "ResendRequest" /\ u.rsCur = q.begin /\ u.rsEnd = q.end
    PROVE  Traffic(s, u)
  <1> DEFINE W == OnWay(s, t)
             V == OnWay(s, u)
             R == Wired(s.out) \cup t.cache
             n == s.nextIn
  <1>1. /\ W \in SUBSET Messages /\ V \in SUBSET Messages /\ n \in Nat
        /\ t.store \in Seq(Messages) /\ u.store \in Seq(Messages) /\ t.out \in Seq(Messages)
        /\ Len(t.store) \in Nat /\ Len(u.store) \in Nat
        /\ u.rsCur \in Nat /\ u.rsEnd \in Nat
        /\ Wired(s.out) \in SUBSET Messages /\ t.cache \in SUBSET Messages
    BY Fields, OnWayType, WiredType
  <1>2. Wire(n, t.store, W) /\ Rising(t.out) /\ Asked(n, t.store, R, W)
    BY DEF Traffic
  <1>3. Extends(t.store, u.store) /\ Len(t.store) <= Len(u.store)
    BY SentStore DEF Extends
  <1>4. \A f \in W : InOrder(f) => f.seq \in Nat /\ f.seq <= Len(t.store)
    BY <1>1, <1>2, KnownFacts DEF Wire
  <1>5. /\ Wire(n, u.store, V) /\ Rising(u.out)
        /\ \A f \in V : InOrder(f) => f \in W \/ f.seq > Len(t.store)
    <2>1. CASE Same(t, u)
      <3>1. V = W /\ u.out = t.out /\ u.store = t.store  BY <2>1 DEF Same, OnWay
      <3> QED  BY <1>2, <3>1
    <2>2. ASSUME NEW m, Wrote(t, u, m)
          PROVE  /\ Wire(n, u.store, V) /\ Rising(u.out)
                 /\ \A f \in V : InOrder(f) => f \in W \/ f.seq > Len(t.store)
      <3>1. m \in Messages /\ ~ m.dup /\ m.type # "SequenceReset"  BY <2>2 DEF Wrote
      <3>2. V \in SUBSET (W \cup {m})
        <4>1. Wired(u.out) \subseteq Wired(t.out) \cup {m}
          BY <1>1, <2>2, <3>1, WiredAppend DEF Wrote
        <4> QED  BY <4>1 DEF OnWay
      <3>3. \A f \in Wired(t.out) : InOrder(f) => f.seq \in Nat /\ f.seq <= Len(t.store)
        BY <1>4 DEF OnWay
      <3>4. CASE m.seq = Len(t.store) + 1 /\ u.store = Append(t.store, m)
        <4>1. Wire(n, u.store, V)  BY <1>1, <1>2, <3>1, <3>2, <3>4, WireStores
        <4>2. Rising(Append(t.out, m))
          <5>1. \A f \in Wired(t.out) : InOrder(f) => f.seq < m.seq  BY <1>1, <3>3, <3>4
          <5> QED  BY <1>1, <1>2, <3>1, <5>1, RisingAppend
        <4>3. m.seq > Len(t.store)  BY <1>1, <3>4
        <4> QED  BY <1>2, <2>2, <3>2, <4>1, <4>2, <4>3 DEF Wrote
      <3>5. CASE m.type = "Logon" /\ m.seq = 1 /\ u.store = t.store
        <4>1. Wire(n, u.store, V)  BY <1>2, <3>1, <3>2, <3>5, WireLogon
        <4>2. ~ InOrder(m)  BY <3>5 DEF InOrder
        <4>3. Rising(Append(t.out, m))  BY <1>1, <1>2, <3>1, <4>2, RisingAppend
        <4> QED  BY <1>2, <2>2, <3>2, <4>1, <4>2, <4>3 DEF Wrote
      <3> QED  BY <2>2, <3>4, <3>5 DEF Wrote
    <2> QED  BY <2>1, <2>2 DEF Sent
  <1> HIDE DEF W, V, R, n
  <1>6. ASSUME NEW q \in R, q.type = "ResendRequest"
        PROVE  /\ q.begin \in Nat /\ q.end \in Nat
               /\ 1 <= q.begin /\ q.begin <= n /\ q.begin <= q.end /\ q.end <= Len(u.store)
               /\ \A f \in V : InOrder(f) => q.end < f.seq
    <2>1. q \in Messages  BY <1>1 DEF R
    <2>2. q.begin \in Nat /\ q.end \in Nat  BY <2>1, MessageFields
    <2>3. /\ 1 <= q.begin /\ q.begin <= n /\ q.begin <= q.end /\ q.end <= Len(t.store)
          /\ \A f \in W : InOrder(f) => q.end < f.seq
      BY <1>2, <1>6 DEF Asked
    <2>4. ASSUME NEW f \in V, InOrder(f) PROVE q.end < f.seq
      <3>1. f.seq \in Nat  BY <1>1, MessageFields
      <3> QED  BY <1>1, <1>5, <2>2, <2>3, <2>4, <3>1
    <2> QED  BY <1>1, <1>3, <2>2, <2>3, <2>4
  <1>7. ASSUME u.fault = "none"
        PROVE  Asked(n, u.store, Wired(s.out) \cup u.cache, V)
               /\ Answering(u.rsCur, u.rsEnd, n, u.store, V)
    <2>1. Wired(s.out) \cup u.cache \subseteq R  BY <1>7 DEF R
    <2>2. Asked(n, u.store, Wired(s.out) \cup u.cache, V)  BY <1>6, <2>1 DEF Asked
    <2>3. Answering(u.rsCur, u.rsEnd, n, u.store, V)
      <3>1. CASE u.rsCur > u.rsEnd  BY <1>1, <3>1 DEF Answering
      <3>2. ASSUME NEW q \in t.cache \cup Wired(s.out), q.type = "ResendRequest",
                   u.rsCur = q.begin, u.rsEnd = q.end
            PROVE  Answering(u.rsCur, u.rsEnd, n, u.store, V)
        BY <1>6, <3>2 DEF R, Answering, AppBefore
      <3> QED  BY <1>7, <3>1, <3>2
    <2> QED  BY <2>2, <2>3
  <1> QED  BY <1>5, <1>7 DEF Traffic, V, n

\* From s to u the session asks for nothing, or for what is missing in front
\* of a message it has: all of it is resent before the messages now under way.
AsksFor(s, t, u, v) ==
    \A q \in Wired(u.out) :
      \/ q \in Wired(s.out)
      \/ q.type # "ResendRequest"
      \/ /\ q.begin = s.nextIn
         /\ \E m \in OnWay(s, t) :
              /\ q.end = m.seq - 1 /\ s.nextIn < m.seq
              /\ \A f \in OnWay(u, v) : InOrder(f) => m.seq <= f.seq

\* What s reads, parks or asks for.
LEMMA TookTraffic ==
    ASSUME NEW s \in SessionRecords, NEW t \in SessionRecords,
           NEW u \in SessionRecords, NEW v \in SessionRecords,
           Traffic(s, t), StoreOK(t.store), s.nextIn >= 1, s.nextIn <= u.nextIn,
           v.store = t.store, v.fault = t.fault, v.cache = t.cache,
           v.rsCur = t.rsCur, v.rsEnd = t.rsEnd,
           Rising(v.out), OnWay(u, v) \subseteq OnWay(s, t),
           AsksFor(s, t, u, v)
    PROVE  Traffic(u, v)
  <1> DEFINE W == OnWay(s, t)
             V == OnWay(u, v)
             i == s.nextIn
             k == u.nextIn
             st == t.store
  <1>1. /\ W \in SUBSET Messages /\ V \in SUBSET W /\ i \in Nat /\ k \in Nat
        /\ st \in Seq(Messages) /\ Len(st) \in Nat /\ t.rsCur \in Nat /\ t.rsEnd \in Nat
        /\ Wired(u.out) \in SUBSET Messages /\ Wired(s.out) \in SUBSET Messages
        /\ t.cache \in SUBSET Messages
    BY Fields, OnWayType, WiredType
  <1>2. Wire(i, st, W)  BY DEF Traffic
  <1>3. Wire(k, st, V)  BY <1>1, <1>2, WireShrinks
  <1>4. ASSUME t.fault = "none"
        PROVE  Asked(k, st, Wired(u.out) \cup t.cache, V) /\ Answering(t.rsCur, t.rsEnd, k, st, V)
    <2>1. Asked(i, st, Wired(s.out) \cup t.cache, W) /\ Answering(t.rsCur, t.rsEnd, i, st, W)
      BY <1>4 DEF Traffic
    <2>2. ASSUME NEW q \in Wired(u.out) \cup t.cache, q.type = "ResendRequest"
          PROVE  /\ 1 <= q.begin /\ q.begin <= k /\ q.begin <= q.end /\ q.end <= Len(st)
                 /\ \A f \in V : InOrder(f) => q.end < f.seq
      <3>1. q.begin \in Nat /\ q.end \in Nat  BY <1>1, MessageFields
      <3>2. CASE q \in Wired(s.out) \cup t.cache
        <4>1. /\ 1 <= q.begin /\ q.begin <= i /\ q.begin <= q.end /\ q.end <= Len(st)
              /\ \A f \in W : InOrder(f) => q.end < f.seq
          BY <2>1, <2>2, <3>2 DEF Asked
        <4> QED  BY <1>1, <3>1, <4>1
      <3>3. CASE q \notin Wired(s.out) \cup t.cache
        <4>1. q.begin = i  BY <2>2, <3>3 DEF AsksFor
        <4>2. PICK m \in W : /\ q.end = m.seq - 1 /\ i < m.seq
                             /\ \A f \in V : InOrder(f) => m.seq <= f.seq
          BY <2>2, <3>3 DEF AsksFor
        <4>3. m \in Messages /\ Known(m, st)  BY <1>1, <1>2 DEF Wire
        <4>4. m.seq \in Nat /\ m.seq <= Len(st)
          <5>1. m.seq \in Nat /\ (InOrder(m) \/ m.dup => m.seq <= Len(st))
            BY <1>1, <4>3, KnownFacts
          <5>2. InOrder(m) \/ m.dup  BY <1>1, <4>2, <5>1 DEF InOrder
          <5> QED  BY <5>1, <5>2
        <4>5. \A f \in V : f.seq \in Nat  BY <1>1, MessageFields
        <4> QED  BY <1>1, <3>1, <4>1, <4>2, <4>4, <4>5
      <3> QED  BY <3>2, <3>3
    <2>3. Answering(t.rsCur, t.rsEnd, k, st, V)
      BY <1>1, <2>1 DEF Answering, AppBefore
    <2> QED  BY <2>2, <2>3 DEF Asked
  <1> QED  BY <1>3, <1>4 DEF Traffic

-----------------------------------------------------------------------------
(* What the handlers do to the fields that the traffic depends on *)

\* From s to t neither what was received nor where the session stands moves.
Holds(s, t) ==
    /\ t \in SessionRecords
    /\ t.nextIn = s.nextIn /\ t.cache = s.cache /\ t.base = s.base
    /\ t.rsCur = s.rsCur /\ t.rsEnd = s.rsEnd /\ t.draining = s.draining

\* What Send leaves alone, and what it stores and sends.
LEMMA SendFields ==
    ASSUME NEW s \in SessionRecords, NEW m \in Messages, NEW is_resend \in BOOLEAN
    PROVE  LET t == send_message_(s, m, is_resend) IN
           /\ Holds(s, t) /\ t.state = s.state
           /\ t.stopped = s.stopped /\ t.nextOut = s.nextOut
           /\ t.out \in {s.out, Append(s.out, m)}
           /\ s.stopped => t = s
           /\ t.store = IF ~ s.stopped /\ ~ is_resend /\ m.seq = Len(s.store) + 1
                        THEN Append(s.store, m) ELSE s.store
  <1> DEFINE w == send_bytes_(s, m)
             k == IF is_resend THEN w ELSE store_outbound_message(w, m)
             t == [k EXCEPT !.armed = IF Live(s) THEN @ \cup {"heartbeat"} ELSE @]
  <1>1. w \in SessionRecords /\ k \in SessionRecords  BY SendBytes, StoreOutbound
  <1>2. /\ t \in SessionRecords
        /\ t.nextIn = k.nextIn /\ t.cache = k.cache /\ t.base = k.base
        /\ t.rsCur = k.rsCur /\ t.rsEnd = k.rsEnd /\ t.draining = k.draining
        /\ t.state = k.state /\ t.stopped = k.stopped /\ t.nextOut = k.nextOut
        /\ t.out = k.out /\ t.store = k.store
    <2> HIDE DEF k
    <2> QED  BY <1>1 DEF SessionRecords, Timers
  <1>3. /\ w.nextIn = s.nextIn /\ w.cache = s.cache /\ w.base = s.base
        /\ w.rsCur = s.rsCur /\ w.rsEnd = s.rsEnd /\ w.draining = s.draining
        /\ w.state = s.state /\ w.stopped = s.stopped /\ w.nextOut = s.nextOut
        /\ w.out \in {s.out, Append(s.out, m)} /\ w.store = s.store
    <2>1. w \in {s, [s EXCEPT !.fault = "null_conn"], [s EXCEPT !.out = Append(@, m)]}
      BY DEF send_bytes_, Fault
    <2> HIDE DEF w
    <2> QED  BY <2>1 DEF SessionRecords
  <1> HIDE DEF w
  <1>4. /\ k.nextIn = w.nextIn /\ k.cache = w.cache /\ k.base = w.base
        /\ k.rsCur = w.rsCur /\ k.rsEnd = w.rsEnd /\ k.draining = w.draining
        /\ k.state = w.state /\ k.stopped = w.stopped /\ k.nextOut = w.nextOut
        /\ k.out = w.out
        /\ k.store = IF ~ is_resend /\ m.seq = Len(w.store) + 1
                     THEN Append(w.store, m) ELSE w.store
    <2>1. CASE is_resend  BY <2>1
    <2>2. CASE ~ is_resend /\ m.seq = Len(w.store) + 1
      <3>1. k = [w EXCEPT !.store = Append(@, m)]  BY <2>2 DEF store_outbound_message
      <3> HIDE DEF k
      <3> QED  BY <1>1, <2>2, <3>1 DEF SessionRecords
    <2>3. CASE ~ is_resend /\ m.seq # Len(w.store) + 1
      <3>1. k \in {w, [w EXCEPT !.fault = "store_seq"]}
        BY <2>3 DEF store_outbound_message, Fault
      <3> HIDE DEF k
      <3> QED  BY <1>1, <2>3, <3>1 DEF SessionRecords
    <2> QED  BY <2>1, <2>2, <2>3
  <1>5. send_message_(s, m, is_resend) = IF s.stopped THEN s ELSE t
    BY DEF send_message_, w
  <1> HIDE DEF t, k
  <1>6. CASE s.stopped
    <2>1. send_message_(s, m, is_resend) = s  BY <1>5, <1>6
    <2> QED  BY <1>6, <2>1 DEF Holds
  <1>7. CASE ~ s.stopped
    <2>1. send_message_(s, m, is_resend) = t  BY <1>5, <1>7
    <2> QED  BY <1>2, <1>3, <1>4, <1>7, <2>1 DEF Holds
  <1> QED  BY <1>6, <1>7

\* What Send writes and stores: the message, under next_out.
LEMMA SendWrites ==
    ASSUME NEW s \in SessionRecords, NEW m, Sendable(s, m), ~ m.dup,
           NumbersMatch(s) \/ (m.type = "Logon" /\ s.nextOut = 1)
    PROVE  LET t == Send(s, m) IN
           /\ Holds(s, t) /\ t.state = s.state /\ t.stopped = s.stopped
           /\ \/ Same(s, t)
              \/ \E n : /\ Wrote(s, t, n) /\ n.type = m.type
                        /\ n.begin = m.begin /\ n.end = m.end
  <1> DEFINE a == [s EXCEPT !.nextOut = @ + 1]
             n == [m EXCEPT !.seq = s.nextOut]
             t == send_message_(a, n, FALSE)
  <1>1. s.nextOut \in Nat /\ s.nextOut + 1 \in Nat /\ s.store \in Seq(Messages)
        /\ Len(s.store) \in Nat
    BY Fields
  <1>2. /\ a \in SessionRecords /\ Holds(s, a) /\ a.state = s.state /\ a.stopped = s.stopped
        /\ a.out = s.out /\ a.store = s.store
    BY <1>1 DEF SessionRecords, Holds
  <1>3. /\ n \in Messages /\ n.type = m.type /\ n.begin = m.begin /\ n.end = m.end
        /\ n.seq = s.nextOut /\ ~ n.dup /\ n.reset = m.reset /\ n.check = m.check
    BY <1>1 DEF Sendable, Messages
  <1>4. Send(s, m) = t  BY DEF Send
  <1> HIDE DEF a, n
  <1>5. /\ Holds(a, t) /\ t.state = a.state /\ t.stopped = a.stopped
        /\ t.out \in {a.out, Append(a.out, n)}
        /\ a.stopped => t = a
        /\ ~ a.stopped => \/ n.seq = Len(a.store) + 1 /\ t.store = Append(a.store, n)
                          \/ n.seq # Len(a.store) + 1 /\ t.store = a.store
    BY <1>2, <1>3, SendFields
  <1> HIDE DEF t
  <1>6. Holds(s, t) /\ t.state = s.state /\ t.stopped = s.stopped  BY <1>2, <1>5 DEF Holds
  <1>7. CASE s.stopped  BY <1>2, <1>4, <1>5, <1>6, <1>7 DEF Same
  <1>8. CASE ~ s.stopped
    <2>1. \/ n.seq = Len(s.store) + 1 /\ t.store = Append(s.store, n)
          \/ n.type = "Logon" /\ n.seq = 1 /\ t.store = s.store
      <3>1. CASE NumbersMatch(s)
        <4>1. Len(s.store) + 1 = s.nextOut  BY <1>1, <1>8, <3>1 DEF NumbersMatch
        <4> QED  BY <1>2, <1>3, <1>5, <1>8, <4>1
      <3>2. CASE m.type = "Logon" /\ s.nextOut = 1
        BY <1>2, <1>3, <1>5, <1>8, <3>2
      <3> QED  BY <3>1, <3>2
    <2>2. Wrote(s, t, n)
      BY <1>2, <1>3, <1>5, <2>1 DEF Wrote, Sendable
    <2> QED  BY <1>3, <1>4, <1>6, <2>2
  <1> QED  BY <1>7, <1>8

\* From s to t at most one message is stored and sent, no ResendRequest.
Writes(s, t) == Same(s, t) \/ \E n : n.type # "ResendRequest" /\ Wrote(s, t, n)

\* From s to t nothing is received: recovery is at most given up.
Stays(s, t) ==
    /\ t \in SessionRecords
    /\ t.nextIn = s.nextIn /\ t.rsCur = s.rsCur /\ t.rsEnd = s.rsEnd
    /\ t.draining = s.draining
    /\ t.cache = {} \/ (t.cache = s.cache /\ t.base = s.base)
    /\ t.state = "RECOVERING_RESEND" => s.state = "RECOVERING_RESEND"

\* From s to t nothing is received and nothing is sent.
Rests(s, t) == Stays(s, t) /\ Same(s, t)

\* From s to t nothing is received.
Passive(s, t) == Stays(s, t) /\ Writes(s, t)

\* Passive steps compose with resting ones.
LEMMA RestsPassive ==
    ASSUME NEW s, NEW a, NEW t
    PROVE  /\ Rests(s, t) => Passive(s, t)
           /\ Rests(s, a) /\ Passive(a, t) => Passive(s, t)
           /\ Passive(s, a) /\ Rests(a, t) => Passive(s, t)
  <1>1. Rests(s, t) => Passive(s, t)  BY DEF Rests, Passive, Writes
  <1>2. Stays(s, a) /\ Stays(a, t) => Stays(s, t)  BY DEF Stays
  <1>3. ASSUME Same(s, a), Writes(a, t) PROVE Writes(s, t)
    BY <1>3 DEF Same, Writes, Wrote
  <1>4. ASSUME Writes(s, a), Same(a, t) PROVE Writes(s, t)
    <2>1. CASE Same(s, a)  BY <1>4, <2>1 DEF Same, Writes
    <2>2. ASSUME NEW n, n.type # "ResendRequest", Wrote(s, a, n) PROVE Writes(s, t)
      <3>1. Wrote(s, t, n)  BY <1>4, <2>2 DEF Same, Wrote
      <3> QED  BY <2>2, <3>1 DEF Writes
    <2> QED  BY <1>4, <2>1, <2>2 DEF Writes
  <1> QED  BY <1>1, <1>2, <1>3, <1>4 DEF Rests, Passive

\* A session that does nothing is passive.
LEMMA SelfPassive ==
    ASSUME NEW s \in SessionRecords
    PROVE  Rests(s, s) /\ Passive(s, s)
  BY DEF Rests, Passive, Stays, Same, Writes

\* Sending is passive.
LEMMA SendPassive ==
    ASSUME NEW s \in SessionRecords, NEW m, Sendable(s, m), ~ m.dup, m.type # "ResendRequest",
           NumbersMatch(s) \/ (m.type = "Logon" /\ s.nextOut = 1)
    PROVE  Passive(s, Send(s, m)) /\ Send(s, m).state = s.state
           /\ Send(s, m) \in SessionRecords
  <1> DEFINE t == Send(s, m)
  <1>1. /\ Holds(s, t) /\ t.state = s.state
        /\ Same(s, t) \/ \E n : Wrote(s, t, n) /\ n.type = m.type
    BY SendWrites
  <1> HIDE DEF t
  <1>2. Passive(s, t) /\ t.state = s.state /\ t \in SessionRecords
    BY <1>1 DEF Passive, Stays, Holds, Writes
  <1> QED  BY <1>2 DEF t

\* So is sending an administrative message without content.
LEMMA PlainPassive ==
    ASSUME NEW s \in SessionRecords, NumbersMatch(s),
           NEW y \in MsgTypes \ {"SequenceReset", "ResendRequest"}
    PROVE  Passive(s, Send(s, Plain(y))) /\ Send(s, Plain(y)).state = s.state
           /\ Send(s, Plain(y)) \in SessionRecords
  <1>1. Sendable(s, Plain(y))  BY PlainSendable
  <1>2. ~ Plain(y).dup /\ Plain(y).type = y  BY DEF Plain
  <1>3. Plain(y).type # "ResendRequest"  BY <1>2
  <1> HIDE DEF Plain
  <1> QED  BY <1>1, <1>2, <1>3, SendPassive

\* stop_ sends and receives nothing.
LEMMA StopRests ==
    ASSUME NEW s \in SessionRecords
    PROVE  Rests(s, stop_(s))
  <1> DEFINE t == stop_(s)
  <1>1. t \in SessionRecords  BY StopQuiet DEF Quiet
  <1>2. CASE s.stopped
    <2>1. t = s  BY <1>2 DEF stop_
    <2> QED  BY <2>1, SelfPassive
  <1>3. CASE ~ s.stopped
    <2>1. t \in {[s EXCEPT !.stopped = TRUE, !.state = "DISCONNECTED"],
                 [s EXCEPT !.stopped = TRUE, !.state = "DISCONNECTED",
                           !.armed = {}, !.conn = "closed"]}
      BY <1>3 DEF stop_
    <2> HIDE DEF t
    <2>2. Rests(s, t)  BY <1>1, <2>1 DEF SessionRecords, Rests, Stays, Same
    <2> QED  BY <2>2 DEF t
  <1> QED  BY <1>2, <1>3

\* stop_with_logout sends at most a Logout.
LEMMA LogoutPassive ==
    ASSUME NEW s \in SessionRecords, NumbersMatch(s)
    PROVE  Passive(s, stop_with_logout(s))
  <1> DEFINE u == Send(s, Plain("Logout"))
             t == [u EXCEPT !.state = "AWAITING_LOGOUT", !.armed = @ \cup {"logout"}]
  <1>1. Passive(s, u) /\ u \in SessionRecords  BY PlainPassive DEF MsgTypes, AdminTypes
  <1>2. Rests(u, t)
    <2> HIDE DEF u
    <2> QED  BY <1>1 DEF SessionRecords, SessionStates, Timers, Rests, Stays, Same
  <1> HIDE DEF t
  <1>3. Passive(s, t)  BY <1>1, <1>2, RestsPassive
  <1>4. stop_with_logout(s) \in {s, t}  BY DEF stop_with_logout, t
  <1> QED  BY <1>3, <1>4, SelfPassive

\* The handshake sends at most a Logon.
LEMMA HandshakePassive ==
    ASSUME NEW s \in SessionRecords, NEW reset \in BOOLEAN, reset => s.nextOut = 1,
           NumbersMatch(s) \/ s.nextOut = 1
    PROVE  Passive(s, Handshake(s, reset))
  <1>1. CASE s.role = "INITIATOR"
    <2> DEFINE m == LogonMsg(reset, s.hb)
               u == Send(s, m)
               t == [u EXCEPT !.state = "LOGON_SENT", !.armed = @ \cup {"logon"}]
    <2>1. Sendable(s, m)  BY Fields, LogonSendable
    <2>2. ~ m.dup /\ m.type = "Logon"  BY DEF LogonMsg, Plain
    <2> HIDE DEF m
    <2>3. Passive(s, u) /\ u \in SessionRecords  BY <2>1, <2>2, SendPassive
    <2>4. Rests(u, t)
      <3> HIDE DEF u
      <3> QED  BY <2>3 DEF SessionRecords, SessionStates, Timers, Rests, Stays, Same
    <2>5. Handshake(s, reset) = t  BY <1>1 DEF Handshake, m
    <2> HIDE DEF t
    <2> QED  BY <2>3, <2>4, <2>5, RestsPassive
  <1>2. CASE s.role # "INITIATOR"
    <2> DEFINE t == [s EXCEPT !.state = "AWAITING_LOGON", !.armed = @ \cup {"logon"}]
    <2>1. Rests(s, t)
      BY DEF SessionRecords, SessionStates, Timers, Rests, Stays, Same
    <2>2. Handshake(s, reset) = t  BY <1>2 DEF Handshake
    <2> HIDE DEF t
    <2> QED  BY <2>1, <2>2, RestsPassive
  <1> QED  BY <1>1, <1>2

\* The first start of a session, whose next_in is still 1.
LEMMA StartNormalPassive ==
    ASSUME NEW s \in SessionRecords, s.nextIn = 1, NumbersMatch(s)
    PROVE  Passive(s, start_normal_(s))
  <1> USE SessionAssumption
  <1>1. CASE s.conn = "null"  BY <1>1, SelfPassive DEF start_normal_
  <1>2. CASE s.conn # "null" /\ s.role = "INITIATOR" /\ InitiatorReset
    <2> DEFINE a == [s EXCEPT !.nextIn = 1, !.nextOut = 1]
    <2>1. Rests(s, a) /\ a \in SessionRecords /\ a.nextOut = 1
      BY DEF SessionRecords, Rests, Stays, Same
    <2>2. start_normal_(s) = Handshake(a, TRUE)  BY <1>2 DEF start_normal_
    <2> HIDE DEF a
    <2>3. Passive(a, Handshake(a, TRUE))  BY <2>1, HandshakePassive
    <2> QED  BY <2>1, <2>2, <2>3, RestsPassive
  <1>3. CASE s.conn # "null" /\ ~ (s.role = "INITIATOR" /\ InitiatorReset)
    BY <1>3, HandshakePassive DEF start_normal_
  <1> QED  BY <1>1, <1>2, <1>3

\* The start after a reconnect drops what was parked.
LEMMA StartAfterReconnectPassive ==
    ASSUME NEW s \in SessionRecords, NumbersMatch(s)
    PROVE  Passive(s, start_after_reconnect_(s))
  <1>1. CASE s.conn = "null" \/ s.stopped  BY <1>1, SelfPassive DEF start_after_reconnect_
  <1>2. CASE ~ (s.conn = "null" \/ s.stopped)
    <2> DEFINE a == [s EXCEPT !.awaitingTest = FALSE, !.reconnecting = FALSE,
                              !.cache = {}, !.base = 0]
    <2>1. /\ Rests(s, a) /\ a \in SessionRecords /\ a.nextOut = s.nextOut
          /\ a.stopped = s.stopped /\ a.store = s.store
      BY DEF SessionRecords, Rests, Stays, Same
    <2>2. start_after_reconnect_(s) = Handshake(a, FALSE)
      BY <1>2 DEF start_after_reconnect_
    <2> HIDE DEF a
    <2>3. NumbersMatch(a)  BY <2>1 DEF NumbersMatch
    <2>4. Passive(a, Handshake(a, FALSE))  BY <2>1, <2>3, HandshakePassive
    <2> QED  BY <2>1, <2>2, <2>4, RestsPassive
  <1> QED  BY <1>1, <1>2

\* So does the loss of the connection.
LEMMA TransportDownRests ==
    ASSUME NEW s \in SessionRecords
    PROVE  Rests(s, on_transport_down_(s))
  <1> DEFINE t == on_transport_down_(s)
  <1>1. CASE LosesTransport(s)
    <2>1. t = [s EXCEPT !.reconnecting = TRUE, !.conn = "null", !.armed = {},
                        !.state = "DISCONNECTED", !.cache = {}, !.base = 0]
      BY <1>1 DEF on_transport_down_
    <2> HIDE DEF t
    <2>2. Rests(s, t)  BY <2>1 DEF SessionRecords, SessionStates, Rests, Stays, Same
    <2> QED  BY <2>2 DEF t
  <1>2. CASE ~ LosesTransport(s)  BY <1>2, SelfPassive DEF on_transport_down_
  <1> QED  BY <1>1, <1>2

\* set_connection sends and receives nothing.
LEMMA SetConnectionRests ==
    ASSUME NEW s \in SessionRecords
    PROVE  Rests(s, set_connection(s))
  BY DEF set_connection, SessionRecords, Rests, Stays, Same

\* No timer consumes a message.
LEMMA TimerPassive ==
    ASSUME NEW s \in SessionRecords, NEW x \in Timers, NumbersMatch(s)
    PROVE  Passive(s, TimerExpired(s, x))
  <1> DEFINE f == [s EXCEPT !.armed = @ \ {x}]
             g == [f EXCEPT !.awaitingTest = TRUE]
  <1>1. /\ Rests(s, f) /\ f \in SessionRecords /\ f.nextOut = s.nextOut
        /\ f.stopped = s.stopped /\ f.store = s.store
    BY DEF SessionRecords, Rests, Stays, Same
  <1> HIDE DEF f
  <1>2. /\ Rests(f, g) /\ g \in SessionRecords /\ g.nextOut = f.nextOut
        /\ g.stopped = f.stopped /\ g.store = f.store
    BY <1>1 DEF SessionRecords, Rests, Stays, Same
  <1>3. NumbersMatch(f) /\ NumbersMatch(g)  BY <1>1, <1>2 DEF NumbersMatch
  <1>4. ASSUME NEW a \in SessionRecords, NumbersMatch(a), NEW y \in {"Heartbeat", "TestRequest"},
               NEW z \in Timers
        PROVE  Passive(a, [Send(a, Plain(y)) EXCEPT !.armed = @ \cup {z}])
    <2> DEFINE u == Send(a, Plain(y))
    <2>1. Passive(a, u) /\ u \in SessionRecords
      BY <1>4, PlainPassive DEF MsgTypes, AdminTypes
    <2> HIDE DEF u
    <2>2. Rests(u, [u EXCEPT !.armed = @ \cup {z}])
      BY <2>1 DEF SessionRecords, Rests, Stays, Same
    <2>3. Passive(a, [u EXCEPT !.armed = @ \cup {z}])  BY <2>1, <2>2, RestsPassive
    <2> QED  BY <2>3 DEF u
  <1>5. Passive(f, LogonExpired(f))
    BY <1>1, StopRests, RestsPassive, SelfPassive DEF LogonExpired
  <1>6. Passive(f, HeartbeatExpired(f))
    BY <1>1, <1>3, <1>4 DEF HeartbeatExpired, Timers
  <1>7. Passive(f, InboundExpired(f))
    <2>1. Passive(f, stop_with_logout(f))  BY <1>1, <1>3, LogoutPassive
    <2>2. Passive(g, [Send(g, Plain("TestRequest")) EXCEPT !.armed = @ \cup {"inbound"}])
      BY <1>2, <1>3, <1>4 DEF Timers
    <2>3. Passive(f, [Send(g, Plain("TestRequest")) EXCEPT !.armed = @ \cup {"inbound"}])
      BY <1>2, <2>2, RestsPassive
    <2> QED  BY <2>1, <2>3 DEF InboundExpired
  <1>8. Passive(f, stop_(f)) /\ Passive(f, f)
    BY <1>1, StopRests, RestsPassive, SelfPassive
  <1>9. TimerExpired(s, x) \in
          {f, LogonExpired(f), HeartbeatExpired(f), InboundExpired(f), stop_(f)}
    BY DEF TimerExpired, Timers, f
  <1>10. Passive(f, TimerExpired(s, x))  BY <1>5, <1>6, <1>7, <1>8, <1>9
  <1> QED  BY <1>1, <1>10, RestsPassive

\* The application only sends.
LEMMA AppPassive ==
    ASSUME NEW s \in SessionRecords, NumbersMatch(s), NEW kind \in AppKinds
    PROVE  Passive(s, send_from_app(s, AppMessage(kind)))
  <1> DEFINE m == AppMessage(kind)
  <1>1. kind \in {"request", "response", "unregistered"}  BY PairAssumption
  <1>2. m \in {CustomMsg(FALSE), CustomMsg(TRUE), Plain("Unregistered")}
    BY <1>1 DEF AppMessage
  <1>3. Sendable(s, m)
    BY <1>2, CustomSendable, PlainSendable DEF MsgTypes, AdminTypes
  <1>4. ~ m.dup /\ m.type # "ResendRequest"  BY <1>2 DEF CustomMsg, Plain
  <1> HIDE DEF m
  <1>5. Passive(s, Send(s, m))  BY <1>3, <1>4, SendPassive
  <1> QED  BY <1>5, SelfPassive DEF send_from_app, m

-----------------------------------------------------------------------------
(* The handlers of a received message *)

\* What the handlers rely on of a message they get.
Fit(m) ==
    /\ m.type = "Logon" /\ m.reset => m.seq = 1
    /\ m.type = "SequenceReset" => m.newSeq > m.seq

\* From s to t the message m is consumed: next_in is past it.
Handled(s, t, m) ==
    /\ t \in SessionRecords /\ Writes(s, t)
    /\ t.nextIn = Top(m) /\ t.draining = s.draining
    /\ t.cache = {} \/ (t.cache = s.cache /\ t.base = s.base)
    /\ t.state = "RECOVERING_RESEND" => s.state = "RECOVERING_RESEND"
    /\ \/ t.rsCur = s.rsCur /\ t.rsEnd = s.rsEnd
       \/ /\ m.type = "ResendRequest" /\ t.rsCur = m.begin
          /\ m.end = 0 \/ m.end > Len(s.store) \/ t.rsEnd = m.end

\* From s to t at most a ResendRequest is sent, for the gap below m.
Asks(s, t, m) ==
    \/ Same(s, t)
    \/ \E n : /\ Wrote(s, t, n) /\ n.type = "ResendRequest"
              /\ n.begin = s.nextIn /\ n.end = m.seq - 1

\* From s to t the message m, which is ahead of next_in, is parked.
Parked(s, t, m) ==
    /\ t \in SessionRecords /\ m.seq > s.nextIn
    /\ t.nextIn = s.nextIn /\ t.draining = s.draining
    /\ t.rsCur = s.rsCur /\ t.rsEnd = s.rsEnd
    /\ Asks(s, t, m)
    /\ t.fault = "none" =>
         /\ in_window(t, m.seq)
         /\ \/ t.cache = {m}
            \/ /\ s.state = "RECOVERING_RESEND" /\ Same(s, t) /\ t.base = s.base
               /\ t.cache = s.cache \cup {m} /\ \A c \in s.cache : c.seq # m.seq

\* What s may do with m: nothing, consume it at its number, or park it.
Turn(s, t, m) ==
    \/ Passive(s, t)
    \/ m.seq = s.nextIn /\ Handled(s, t, m)
    \/ Parked(s, t, m)

\* A passive handler, once next_in is past m, has consumed m.
LEMMA PassiveHandled ==
    ASSUME NEW s \in SessionRecords, NEW t, NEW m, Passive(s, t), s.nextIn = m.seq + 1,
           m.type # "SequenceReset"
    PROVE  Handled(s, t, m)
  BY DEF Passive, Stays, Handled, Top

\* handle_logon, which runs with next_in past the Logon.
LEMMA LogonPassive ==
    ASSUME NEW s \in SessionRecords, NEW m \in Messages, NumbersMatch(s), m.reset => s.nextIn = 2
    PROVE  Passive(s, handle_logon(s, m))
  <1> DEFINE h == [s EXCEPT !.hb = m.hb]
             g == [h EXCEPT !.state = "LOGON_RECEIVED"]
             z == IF m.reset THEN [g EXCEPT !.nextIn = 2, !.nextOut = 1] ELSE g
             l == LogonMsg(m.reset, m.hb)
             u == Send(z, l)
             v == Activate(u)
  <1>1. m.hb \in Nat /\ m.reset \in BOOLEAN  BY MessageFields
  <1>2. /\ Rests(s, h) /\ h \in SessionRecords /\ h.store = s.store
        /\ h.nextOut = s.nextOut /\ h.stopped = s.stopped
    BY <1>1 DEF SessionRecords, Rests, Stays, Same
  <1>3. /\ Rests(s, g) /\ g \in SessionRecords /\ g.store = s.store
        /\ g.nextOut = s.nextOut /\ g.stopped = s.stopped /\ g.nextIn = s.nextIn
    BY <1>1 DEF SessionRecords, SessionStates, Rests, Stays, Same
  <1>4. NumbersMatch(h) /\ NumbersMatch(g)  BY <1>2, <1>3 DEF NumbersMatch
  <1>5. handle_logon(s, m) \in {stop_with_logout(s), stop_with_logout(g), v,
                                stop_with_logout(h), Activate(h)}
    BY DEF handle_logon
  <1>6. ASSUME NEW x \in SessionRecords PROVE Rests(x, Activate(x))
    <2> DEFINE y == Activate(x)
    <2>1. y \in SessionRecords  BY ActivateQuiet DEF Quiet
    <2>2. y = [x EXCEPT !.state = "ACTIVE",
                        !.armed = (@ \ {"logon"}) \cup {"heartbeat", "inbound"}]
      BY DEF Activate
    <2> HIDE DEF y
    <2>3. Rests(x, y)  BY <2>1, <2>2 DEF SessionRecords, Rests, Stays, Same
    <2> QED  BY <2>3 DEF y
  <1> HIDE DEF h, g
  <1>7. /\ Rests(s, z) /\ z \in SessionRecords /\ (m.reset => z.nextOut = 1)
        /\ ~ m.reset => NumbersMatch(z)
    <2>1. CASE m.reset
      <3>1. z = [g EXCEPT !.nextIn = 2, !.nextOut = 1]  BY <2>1
      <3> HIDE DEF z
      <3> QED  BY <1>3, <2>1, <3>1 DEF SessionRecords, Rests, Stays, Same
    <2>2. CASE ~ m.reset  BY <1>3, <1>4, <2>2
    <2> QED  BY <1>1, <2>1, <2>2
  <1> HIDE DEF z
  <1>8. Passive(s, v)
    <2>1. Sendable(z, l)  BY <1>1, <1>7, LogonSendable
    <2>2. ~ l.dup /\ l.type = "Logon"  BY DEF LogonMsg, Plain
    <2> HIDE DEF l
    <2>3. Passive(z, u) /\ u \in SessionRecords  BY <1>1, <1>7, <2>1, <2>2, SendPassive
    <2> HIDE DEF u
    <2>4. Rests(u, v)  BY <1>6, <2>3
    <2> QED  BY <1>7, <2>3, <2>4, RestsPassive
  <1> HIDE DEF v
  <1>9. Passive(s, stop_with_logout(s)) /\ Passive(s, stop_with_logout(g))
        /\ Passive(s, stop_with_logout(h)) /\ Passive(s, Activate(h))
    BY <1>2, <1>3, <1>4, <1>6, LogoutPassive, RestsPassive
  <1> QED  BY <1>5, <1>8, <1>9

\* handle_logout answers with at most a Logout.
LEMMA LogoutAnswered ==
    ASSUME NEW s \in SessionRecords, NumbersMatch(s)
    PROVE  Passive(s, handle_logout(s))
  <1>1. CASE s.state = "AWAITING_LOGOUT"
    <2> DEFINE a == [s EXCEPT !.armed = @ \ {"logout"}]
    <2>1. Rests(s, a) /\ a \in SessionRecords  BY DEF SessionRecords, Rests, Stays, Same
    <2>2. handle_logout(s) = stop_(a)  BY <1>1 DEF handle_logout
    <2> HIDE DEF a
    <2> QED  BY <2>1, <2>2, StopRests, RestsPassive
  <1>2. CASE s.state # "AWAITING_LOGOUT"
    <2> DEFINE a == Send(s, Plain("Logout"))
    <2>1. Passive(s, a) /\ a \in SessionRecords  BY PlainPassive DEF MsgTypes, AdminTypes
    <2>2. handle_logout(s) = stop_(a)  BY <1>2 DEF handle_logout
    <2> HIDE DEF a
    <2> QED  BY <2>1, <2>2, StopRests, RestsPassive
  <1> QED  BY <1>1, <1>2

\* handle_custom answers a request with at most a response.
LEMMA CustomPassive ==
    ASSUME NEW s \in SessionRecords, NEW m \in Messages, NumbersMatch(s)
    PROVE  Passive(s, handle_custom(s, m))
  <1> DEFINE d == [s EXCEPT !.delivered = Append(@, m.seq)]
             c == CustomMsg(TRUE)
  <1>1. Append(s.delivered, m.seq) \in Seq(Nat)  BY Fields, MessageFields
  <1>2. /\ Rests(s, d) /\ d \in SessionRecords /\ d.store = s.store
        /\ d.nextOut = s.nextOut /\ d.stopped = s.stopped
    BY <1>1 DEF SessionRecords, Rests, Stays, Same
  <1> HIDE DEF d
  <1>3. NumbersMatch(d)  BY <1>2 DEF NumbersMatch
  <1>4. Sendable(d, c)  BY CustomSendable
  <1>5. ~ c.dup /\ c.type # "ResendRequest"  BY DEF CustomMsg, Plain
  <1> HIDE DEF c
  <1>6. Passive(d, Send(d, c))  BY <1>2, <1>3, <1>4, <1>5, SendPassive
  <1>7. handle_custom(s, m) \in {d, Send(d, c)}  BY DEF handle_custom, d, c
  <1> QED  BY <1>2, <1>6, <1>7, RestsPassive

\* handle_resend_request leaves the range that is asked for to the resend loop.
LEMMA ResendRequestHandled ==
    ASSUME NEW s \in SessionRecords, NEW m \in Messages, NumbersMatch(s), ~ s.stopped,
           m.type = "ResendRequest", s.nextIn = m.seq + 1
    PROVE  Handled(s, handle_resend_request(s, m), m)
  <1> DEFINE e == IF m.end = 0 \/ m.end >= s.nextOut THEN s.nextOut - 1 ELSE m.end
             t == [s EXCEPT !.rsCur = m.begin, !.rsEnd = e]
  <1>1. m.begin \in Nat /\ m.end \in Nat /\ m.seq \in Nat  BY MessageFields
  <1>2. s.nextOut \in Nat /\ Len(s.store) \in Nat /\ s.nextOut = Len(s.store) + 1
    BY Fields DEF NumbersMatch
  <1>3. e \in Nat /\ (m.end = 0 \/ m.end > Len(s.store) \/ e = m.end)  BY <1>1, <1>2
  <1>4. handle_resend_request(s, m) = t  BY DEF handle_resend_request
  <1> HIDE DEF e
  <1>5. /\ t \in SessionRecords /\ Same(s, t) /\ t.nextIn = s.nextIn /\ t.cache = s.cache
        /\ t.base = s.base /\ t.draining = s.draining /\ t.state = s.state
        /\ t.rsCur = m.begin /\ t.rsEnd = e
    BY <1>1, <1>3 DEF SessionRecords, Same
  <1> HIDE DEF t
  <1> QED  BY <1>1, <1>3, <1>4, <1>5 DEF Handled, Writes, Top

\* handle_sequence_reset moves next_in to the NewSeqNo of the gap fill.
LEMMA SequenceResetHandled ==
    ASSUME NEW s \in SessionRecords, NEW m \in Messages, Fit(m),
           m.type = "SequenceReset", s.nextIn = m.seq + 1
    PROVE  Handled(s, handle_sequence_reset(s, m), m)
  <1> DEFINE t == [s EXCEPT !.nextIn = m.newSeq]
  <1>1. m.newSeq \in Nat /\ m.seq \in Nat  BY MessageFields
  <1>2. handle_sequence_reset(s, m) = t  BY <1>1 DEF handle_sequence_reset, Fit
  <1>3. /\ t \in SessionRecords /\ Same(s, t) /\ t.nextIn = m.newSeq /\ t.cache = s.cache
        /\ t.base = s.base /\ t.draining = s.draining /\ t.state = s.state
        /\ t.rsCur = s.rsCur /\ t.rsEnd = s.rsEnd
    BY <1>1 DEF SessionRecords, Same
  <1> HIDE DEF t
  <1> QED  BY <1>2, <1>3 DEF Handled, Writes, Top

\* Every handler of a message in sequence consumes it.
LEMMA HandleHandled ==
    ASSUME NEW s \in SessionRecords, NEW m \in Messages, NumbersMatch(s), ~ s.stopped,
           Fit(m), s.nextIn = m.seq + 1
    PROVE  Handled(s, Handle(s, m), m)
  <1> DEFINE t == Handle(s, m)
  <1>1. CASE m.type = "Logon"
    <2>1. m.reset => s.nextIn = 2  BY <1>1 DEF Fit
    <2> QED  BY <1>1, <2>1, LogonPassive, PassiveHandled DEF Handle
  <1>2. CASE m.type = "Logout"
    BY <1>2, LogoutAnswered, PassiveHandled DEF Handle
  <1>3. CASE m.type = "Heartbeat"
    <2>1. Rests(s, handle_heartbeat(s))
      BY DEF handle_heartbeat, SessionRecords, Rests, Stays, Same
    <2> QED  BY <1>3, <2>1, RestsPassive, PassiveHandled DEF Handle
  <1>4. CASE m.type = "TestRequest"
    <2>1. Passive(s, handle_test_request(s))
      BY PlainPassive DEF handle_test_request, MsgTypes, AdminTypes
    <2> QED  BY <1>4, <2>1, PassiveHandled DEF Handle
  <1>5. CASE m.type = "ResendRequest"
    BY <1>5, ResendRequestHandled DEF Handle
  <1>6. CASE m.type = "SequenceReset"
    BY <1>6, SequenceResetHandled DEF Handle
  <1>7. CASE m.type = "Custom"
    BY <1>7, CustomPassive, PassiveHandled DEF Handle
  <1>8. CASE m.type \notin {"Logon", "Logout", "Heartbeat", "TestRequest", "ResendRequest",
                            "SequenceReset", "Custom"}
    <2>1. t = s  BY <1>8 DEF Handle
    <2> QED  BY <1>8, <2>1, SelfPassive, PassiveHandled
  <1> QED  BY <1>1, <1>2, <1>3, <1>4, <1>5, <1>6, <1>7, <1>8

\* The first message of a gap is parked and the gap is asked for.
LEMMA BeginRecoveryParked ==
    ASSUME NEW s \in SessionRecords, NEW m \in Messages, NumbersMatch(s), m.seq > s.nextIn
    PROVE  Parked(s, BeginRecovery(s, m), m)
  <1> DEFINE q == ResendRequestMsg(s.nextIn, m.seq - 1)
             u == Send(s, q)
             x == [u EXCEPT !.state = "RECOVERING_RESEND", !.cache = {}, !.base = s.nextIn]
             t == insert(x, m)
  <1>1. s.nextIn \in Nat /\ m.seq \in Nat /\ m.seq - 1 \in Nat  BY Fields, MessageFields
  <1>2. Sendable(s, q)  BY <1>1, ResendRequestSendable
  <1>3. ~ q.dup /\ q.type = "ResendRequest" /\ q.begin = s.nextIn /\ q.end = m.seq - 1
    BY DEF ResendRequestMsg, Plain
  <1>4. BeginRecovery(s, m) = t  BY DEF BeginRecovery
  <1> HIDE DEF q
  <1>5. /\ Holds(s, u)
        /\ \/ Same(s, u)
           \/ \E n : /\ Wrote(s, u, n) /\ n.type = q.type /\ n.begin = q.begin /\ n.end = q.end
    BY <1>2, <1>3, SendWrites
  <1>6. Asks(s, u, m)  BY <1>3, <1>5 DEF Asks
  <1> HIDE DEF u
  <1>7. /\ x \in SessionRecords /\ x.out = u.out /\ x.store = u.store /\ x.nextIn = u.nextIn
        /\ x.rsCur = u.rsCur /\ x.rsEnd = u.rsEnd /\ x.draining = u.draining
        /\ x.cache = {}
    BY <1>1, <1>5 DEF Holds, SessionRecords, SessionStates
  <1> HIDE DEF x
  <1>8. /\ t \in SessionRecords /\ t.out = x.out /\ t.store = x.store /\ t.nextIn = x.nextIn
        /\ t.rsCur = x.rsCur /\ t.rsEnd = x.rsEnd /\ t.draining = x.draining
        /\ t.fault = "none" => in_window(t, m.seq) /\ t.cache = {m}
    <2>1. CASE in_window(x, m.seq)
      <3>1. t = [x EXCEPT !.cache = @ \cup {m}]  BY <2>1 DEF insert
      <3> HIDE DEF t
      <3>2. /\ t \in SessionRecords /\ t.out = x.out /\ t.store = x.store /\ t.nextIn = x.nextIn
            /\ t.rsCur = x.rsCur /\ t.rsEnd = x.rsEnd /\ t.draining = x.draining
            /\ t.base = x.base /\ t.cache = x.cache \cup {m}
        BY <1>7, <3>1 DEF SessionRecords
      <3>3. in_window(t, m.seq)  BY <2>1, <3>2 DEF in_window
      <3> QED  BY <1>7, <3>2, <3>3
    <2>2. CASE ~ in_window(x, m.seq)
      <3>1. t = Fault(x, "cache_window")  BY <2>2 DEF insert
      <3>2. t \in SessionRecords /\ t.fault # "none"  BY <1>7, <3>1, FaultType DEF Faults
      <3>3. t \in {x, [x EXCEPT !.fault = "cache_window"]}  BY <3>1 DEF Fault
      <3> HIDE DEF t
      <3> QED  BY <1>7, <3>2, <3>3 DEF SessionRecords
    <2> QED  BY <2>1, <2>2
  <1> HIDE DEF t
  <1>9. Asks(s, t, m)
    <2>1. t.out = u.out /\ t.store = u.store  BY <1>7, <1>8
    <2>2. \A n : Wrote(s, u, n) => Wrote(s, t, n)  BY <2>1 DEF Wrote
    <2> QED  BY <1>6, <2>1, <2>2 DEF Asks, Same
  <1> QED  BY <1>4, <1>5, <1>7, <1>8, <1>9 DEF Parked, Holds

\* A later message of a gap is parked unless its number is.
LEMMA CacheAheadTurn ==
    ASSUME NEW s \in SessionRecords, NEW m \in Messages, NumbersMatch(s), m.seq > s.nextIn,
           s.state = "RECOVERING_RESEND"
    PROVE  Turn(s, CacheAhead(s, m), m)
  <1>1. CASE ~ in_window(s, m.seq)
    BY <1>1, LogoutPassive DEF CacheAhead, Turn
  <1>2. CASE in_window(s, m.seq) /\ contains(s, m.seq)
    BY <1>2, SelfPassive DEF CacheAhead, Turn
  <1>3. CASE in_window(s, m.seq) /\ ~ contains(s, m.seq)
    <2> DEFINE t == [s EXCEPT !.cache = @ \cup {m}]
    <2>1. CacheAhead(s, m) = t  BY <1>3 DEF CacheAhead, insert
    <2>2. /\ t \in SessionRecords /\ Same(s, t) /\ t.nextIn = s.nextIn
          /\ t.rsCur = s.rsCur /\ t.rsEnd = s.rsEnd /\ t.draining = s.draining
          /\ t.base = s.base /\ t.cache = s.cache \cup {m}
      BY DEF SessionRecords, Same
    <2> HIDE DEF t
    <2>3. in_window(t, m.seq)  BY <1>3, <2>2 DEF in_window
    <2>4. \A c \in s.cache : c.seq # m.seq  BY <1>3 DEF contains, Cached
    <2>5. Parked(s, t, m)  BY <2>2, <2>3, <2>4 DEF Parked, Asks
    <2> QED  BY <2>1, <2>5 DEF Turn
  <1> QED  BY <1>1, <1>2, <1>3

\* The sequence check takes one of the three turns.
LEMMA SequenceTurn ==
    ASSUME NEW s \in SessionRecords, NEW m \in Messages, NumbersMatch(s), ~ s.stopped, Fit(m)
    PROVE  Turn(s, Sequence(s, m), m)
  <1>1. s.nextIn \in Nat /\ m.seq \in Nat  BY Fields, MessageFields
  <1>2. CASE m.seq = s.nextIn
    <2> DEFINE a == [s EXCEPT !.nextIn = m.seq + 1]
               t == Handle(a, m)
    <2>1. m.seq + 1 \in Nat  BY <1>1
    <2>2. /\ a \in SessionRecords /\ a.nextIn = m.seq + 1 /\ a.store = s.store /\ a.out = s.out
          /\ a.cache = s.cache /\ a.base = s.base /\ a.state = s.state
          /\ a.rsCur = s.rsCur /\ a.rsEnd = s.rsEnd /\ a.draining = s.draining
          /\ a.nextOut = s.nextOut /\ a.stopped = s.stopped
      BY <2>1 DEF SessionRecords
    <2>3. Sequence(s, m) = t  BY <1>2 DEF Sequence
    <2> HIDE DEF a
    <2>4. NumbersMatch(a) /\ ~ a.stopped  BY <2>2 DEF NumbersMatch
    <2>5. Handled(a, t, m)  BY <2>2, <2>4, HandleHandled
    <2> HIDE DEF t
    <2>6. Writes(a, t) => Writes(s, t)  BY <2>2 DEF Writes, Same, Wrote
    <2>7. Handled(s, t, m)  BY <2>2, <2>5, <2>6 DEF Handled
    <2> QED  BY <1>2, <2>3, <2>7 DEF Turn
  <1>3. CASE m.seq > s.nextIn /\ s.state = "RECOVERING_RESEND"
    <2>1. Sequence(s, m) = CacheAhead(s, m)  BY <1>1, <1>3 DEF Sequence
    <2> QED  BY <1>3, <2>1, CacheAheadTurn
  <1>4. CASE m.seq > s.nextIn /\ s.state # "RECOVERING_RESEND"
    <2>1. Sequence(s, m) = BeginRecovery(s, m)  BY <1>1, <1>4 DEF Sequence
    <2> QED  BY <1>4, <2>1, BeginRecoveryParked DEF Turn
  <1>5. CASE m.seq < s.nextIn
    <2>1. Sequence(s, m) \in {s, stop_with_logout(s)}  BY <1>1, <1>5 DEF Sequence
    <2> QED  BY <2>1, SelfPassive, LogoutPassive DEF Turn
  <1> QED  BY <1>1, <1>2, <1>3, <1>4, <1>5

\* And so does dispatch.
LEMMA DispatchTurn ==
    ASSUME NEW s \in SessionRecords, NEW m \in Messages, NumbersMatch(s), Fit(m)
    PROVE  Turn(s, dispatch(s, m), m)
  <1>1. Passive(s, s) /\ Passive(s, stop_with_logout(s)) /\ Passive(s, Send(s, Plain("Reject")))
    BY SelfPassive, LogoutPassive, PlainPassive DEF MsgTypes, AdminTypes
  <1>2. CASE s.stopped  BY <1>1, <1>2 DEF dispatch, Turn
  <1>3. CASE ~ s.stopped
    <2> DEFINE a == [s EXCEPT !.armed = @ \cup {"inbound"}]
               b == IF Live(s) THEN a ELSE s
    <2>1. dispatch(s, m) \in {stop_with_logout(s), Send(s, Plain("Reject")), Sequence(b, m)}
      BY <1>3 DEF dispatch
    <2>2. /\ b \in SessionRecords /\ b.nextIn = s.nextIn /\ b.store = s.store /\ b.out = s.out
          /\ b.cache = s.cache /\ b.base = s.base /\ b.state = s.state
          /\ b.rsCur = s.rsCur /\ b.rsEnd = s.rsEnd /\ b.draining = s.draining
          /\ b.nextOut = s.nextOut /\ b.stopped = s.stopped
      <3>1. /\ a \in SessionRecords /\ a.nextIn = s.nextIn /\ a.store = s.store /\ a.out = s.out
            /\ a.cache = s.cache /\ a.base = s.base /\ a.state = s.state
            /\ a.rsCur = s.rsCur /\ a.rsEnd = s.rsEnd /\ a.draining = s.draining
            /\ a.nextOut = s.nextOut /\ a.stopped = s.stopped
        BY DEF SessionRecords, Timers
      <3> HIDE DEF a
      <3> QED  BY <3>1
    <2> HIDE DEF b
    <2>3. NumbersMatch(b) /\ ~ b.stopped  BY <1>3, <2>2 DEF NumbersMatch
    <2> DEFINE t == Sequence(b, m)
    <2>4. Turn(b, t, m)  BY <2>2, <2>3, SequenceTurn
    <2> HIDE DEF t
    <2>5. Turn(s, t, m)
      <3>1. \A n : Wrote(b, t, n) => Wrote(s, t, n)  BY <2>2 DEF Wrote
      <3>2. Same(b, t) => Same(s, t)  BY <2>2 DEF Same
      <3>3. Writes(b, t) => Writes(s, t)  BY <3>1, <3>2 DEF Writes
      <3>4. Asks(b, t, m) => Asks(s, t, m)  BY <2>2, <3>1, <3>2 DEF Asks
      <3>5. Passive(b, t) => Passive(s, t)  BY <2>2, <3>3 DEF Passive, Stays
      <3>6. Handled(b, t, m) => Handled(s, t, m)  BY <2>2, <3>3 DEF Handled
      <3>7. Parked(b, t, m) => Parked(s, t, m)  BY <2>2, <3>2, <3>4 DEF Parked
      <3> QED  BY <2>2, <2>4, <3>5, <3>6, <3>7 DEF Turn
    <2> QED  BY <1>1, <2>1, <2>5 DEF Turn, t
  <1> QED  BY <1>2, <1>3

\* What process_wire_message_ does, up to the loop that drains the cache.
LEMMA ProcessTurn ==
    ASSUME NEW s \in SessionRecords, NEW m \in Messages, NumbersMatch(s), Fit(m)
    PROVE  \E d \in SessionRecords :
             /\ Turn(s, d, m)
             /\ process_wire_message_(s, m) =
                  [d EXCEPT !.draining = d.cache # {} /\ d.state = "RECOVERING_RESEND"]
  <1> DEFINE d == IF m.check = "garbled" THEN stop_with_logout(s) ELSE dispatch(s, m)
  <1>1. Turn(s, d, m)  BY LogoutPassive, DispatchTurn DEF Turn
  <1>2. d \in SessionRecords
    <2> HIDE DEF d
    <2> QED  BY <1>1 DEF Turn, Passive, Stays, Handled, Parked
  <1> QED  BY <1>1, <1>2 DEF process_wire_message_

-----------------------------------------------------------------------------
(* The resend loop *)

\* From t to u the message n is sent again, and the stream is past it.
Resent(t, u, n) ==
    /\ n \in Messages /\ Faithful(n, t.store) /\ n.dup /\ n.type # "ResendRequest"
    /\ n.type = "SequenceReset" => n.seq = t.rsCur /\ no_resend(t.store[t.rsCur])
    /\ u.out \in {t.out, Append(t.out, n)}
    /\ u.rsCur = Top(n) /\ t.rsCur < Top(n) /\ Top(n) <= t.rsEnd + 1
    /\ u.rsCur <= t.rsEnd /\ no_resend(t.store[u.rsCur]) =>
         t.store[u.rsCur - 1].type \notin AdminTypes

\* From t to u the resend loop takes one turn.
Streams(t, u) ==
    /\ u \in SessionRecords /\ u.store = t.store
    /\ u.nextIn = t.nextIn /\ u.cache = t.cache /\ u.base = t.base
    /\ u.draining = t.draining /\ u.state = t.state /\ u.rsEnd = t.rsEnd
    /\ (u.out = t.out /\ u.fault # "none") \/ (\E n : Resent(t, u, n))

\* A turn of the resend loop sends a stored application message again, or one
\* gap fill for a whole run of administrative ones.
LEMMA ResendStepStreams ==
    ASSUME NEW s \in SessionRecords, s.rsCur <= s.rsEnd, OutSound(s)
    PROVE  Streams(s, ResendStep(s))
  <1> DEFINE b == s.rsCur
             e == RunEnd(s.store, b, s.rsEnd)
  <1>1. s.store \in Seq(Messages) /\ b \in Nat /\ s.rsEnd \in Nat /\ Len(s.store) \in Nat
    BY Fields
  <1>2. CASE b = 0 \/ s.rsEnd > Len(s.store)
    <2> DEFINE u == ResendStep(s)
    <2>1. u = Fault(s, "store_index")  BY <1>2 DEF ResendStep
    <2>2. u \in SessionRecords /\ u.fault # "none"  BY <2>1, FaultType DEF Faults
    <2>3. u \in {s, [s EXCEPT !.fault = "store_index"]}  BY <2>1 DEF Fault
    <2> HIDE DEF u
    <2>4. Streams(s, u)  BY <2>2, <2>3 DEF SessionRecords, Streams
    <2> QED  BY <2>4 DEF u
  <1>3. ASSUME NEW m \in Messages, NEW c \in Nat, Faithful(m, s.store), m.dup,
               m.type # "ResendRequest", b < Top(m), Top(m) <= s.rsEnd + 1, c = Top(m),
               m.type = "SequenceReset" => m.seq = b /\ no_resend(s.store[b]),
               c <= s.rsEnd /\ no_resend(s.store[c]) => s.store[c - 1].type \notin AdminTypes
        PROVE  Streams(s, [send_message_(s, m, TRUE) EXCEPT !.rsCur = c])
    <2> DEFINE v == send_message_(s, m, TRUE)
               u == [v EXCEPT !.rsCur = c]
    <2>1. /\ Holds(s, v) /\ v.state = s.state /\ v.out \in {s.out, Append(s.out, m)}
          /\ v.store = s.store
      BY SendFields
    <2> HIDE DEF v
    <2>2. /\ u \in SessionRecords /\ u.store = v.store /\ u.out = v.out /\ u.state = v.state
          /\ u.nextIn = v.nextIn /\ u.cache = v.cache /\ u.base = v.base
          /\ u.draining = v.draining /\ u.rsEnd = v.rsEnd /\ u.rsCur = c
      BY <2>1 DEF Holds, SessionRecords
    <2> HIDE DEF u
    <2>3. Resent(s, u, m)  BY <1>3, <2>1, <2>2 DEF Resent
    <2>4. Streams(s, u)  BY <2>1, <2>2, <2>3 DEF Holds, Streams
    <2> QED  BY <2>4 DEF u, v
  <1>4. CASE ~ (b = 0 \/ s.rsEnd > Len(s.store)) /\ no_resend(s.store[b])
    <2>1. /\ e \in b..s.rsEnd /\ \A i \in b..e : no_resend(s.store[i])
          /\ e < s.rsEnd => ~ no_resend(s.store[e + 1])
      BY <1>1, <1>4, RunEndsInRange
    <2>2. ResendStep(s) = [send_message_(s, GapFillMsg(b, e + 1), TRUE) EXCEPT !.rsCur = e + 1]
      BY <1>4 DEF ResendStep
    <2> HIDE DEF e
    <2> DEFINE m == GapFillMsg(b, e + 1)
    <2>3. b \in Nat /\ e \in Nat /\ e + 1 \in Nat  BY <1>1, <2>1
    <2>4. /\ m \in Messages /\ m.type = "SequenceReset" /\ m.gapFill
          /\ m.seq = b /\ m.newSeq = e + 1
      BY <2>3, GapFillType
    <2>5. m.dup  BY DEF GapFillMsg, Plain
    <2> HIDE DEF m
    <2>6. Fills(m, s.store)  BY <1>1, <1>4, <2>1, <2>3, <2>4 DEF Fills, no_resend
    <2>7. Top(m) = e + 1 /\ b < e + 1 /\ e + 1 <= s.rsEnd + 1
          /\ ~ (e + 1 <= s.rsEnd /\ no_resend(s.store[e + 1]))
      BY <1>1, <2>1, <2>3, <2>4 DEF Top
    <2>8. Streams(s, [send_message_(s, m, TRUE) EXCEPT !.rsCur = e + 1])
      BY <1>3, <1>4, <2>3, <2>4, <2>5, <2>6, <2>7 DEF Faithful
    <2> QED  BY <2>2, <2>8 DEF m
  <1>5. CASE ~ (b = 0 \/ s.rsEnd > Len(s.store)) /\ ~ no_resend(s.store[b])
    <2> DEFINE m == [s.store[b] EXCEPT !.dup = TRUE]
    <2>1. b \in 1..Len(s.store) /\ s.store[b] \in Messages  BY <1>1, <1>5
    <2>2. m \in Messages /\ m.seq = s.store[b].seq /\ m.dup /\ m.type = s.store[b].type
      BY <2>1 DEF Messages
    <2>3. m.seq = b  BY <2>1, <2>2 DEF OutSound, StoreSound
    <2>4. Copies(m, s.store)  BY <1>5, <2>1, <2>3 DEF Copies, no_resend
    <2>5. ResendStep(s) = [send_message_(s, m, TRUE) EXCEPT !.rsCur = b + 1]
      BY <1>5 DEF ResendStep
    <2> HIDE DEF m
    <2>6. m.type \notin AdminTypes /\ s.store[b].type \notin AdminTypes
      BY <1>5, <2>2 DEF no_resend
    <2>7. m.type # "SequenceReset" /\ m.type # "ResendRequest"  BY <2>6 DEF AdminTypes
    <2>8. Top(m) = b + 1 /\ b < b + 1 /\ b + 1 <= s.rsEnd + 1 /\ b + 1 \in Nat
          /\ (b + 1) - 1 = b
      BY <1>1, <2>3, <2>7 DEF Top
    <2> QED  BY <1>3, <2>2, <2>4, <2>5, <2>6, <2>7, <2>8 DEF Faithful
  <1> QED  BY <1>2, <1>4, <1>5

\* What the resend loop sends is below every first sending on its way.
LEMMA StreamTraffic ==
    ASSUME NEW s \in SessionRecords, NEW t \in SessionRecords, NEW u,
           s.nextIn >= 1, StoreOK(t.store), Traffic(s, t), t.fault = "none",
           t.rsCur <= t.rsEnd, Streams(t, u)
    PROVE  Traffic(s, u)
  <1> DEFINE W == OnWay(s, t)
             V == OnWay(s, u)
             i == s.nextIn
             st == t.store
  <1>1. /\ u \in SessionRecords /\ W \in SUBSET Messages /\ i \in Nat
        /\ st \in Seq(Messages) /\ Len(st) \in Nat /\ t.out \in Seq(Messages)
        /\ t.rsCur \in Nat /\ t.rsEnd \in Nat /\ u.rsCur \in Nat
    BY Fields, OnWayType DEF Streams
  <1>2. /\ Wire(i, st, W) /\ Rising(t.out) /\ Asked(i, st, Wired(s.out) \cup t.cache, W)
        /\ 1 <= t.rsCur /\ t.rsEnd <= Len(st)
        /\ no_resend(st[t.rsCur]) => AppBefore(t.rsCur, i, st)
        /\ \A f \in W : InOrder(f) => t.rsEnd < f.seq
    BY DEF Traffic, Answering
  <1>3. u.store = st /\ u.cache = t.cache /\ u.rsEnd = t.rsEnd  BY DEF Streams
  <1>4. CASE u.out = t.out /\ u.fault # "none"
    BY <1>2, <1>3, <1>4 DEF Traffic, OnWay
  <1>5. ASSUME NEW n, Resent(t, u, n) PROVE Traffic(s, u)
    <2>1. /\ n \in Messages /\ Faithful(n, st) /\ n.dup
          /\ n.type = "SequenceReset" => AppBefore(n.seq, i, st)
          /\ Top(n) <= t.rsEnd + 1 /\ u.rsCur = Top(n) /\ t.rsCur < Top(n)
      BY <1>2, <1>5 DEF Resent
    <2>2. V \in SUBSET (W \cup {n})
      <3>1. Wired(u.out) \subseteq Wired(t.out) \cup {n}
        BY <1>1, <1>5, <2>1, WiredAppend DEF Resent
      <3> QED  BY <3>1 DEF OnWay
    <2>3. \A f \in W : InOrder(f) => Top(n) <= f.seq
      <3>1. \A f \in W : f.seq \in Nat  BY <1>1, MessageFields
      <3>2. Top(n) \in Nat  BY <1>1, <2>1
      <3> QED  BY <1>1, <1>2, <2>1, <3>1, <3>2
    <2>4. Wire(i, st, V)  BY <1>2, <2>1, <2>2, <2>3, WireResends
    <2>5. ~ InOrder(n)  BY <2>1 DEF InOrder
    <2>6. Rising(u.out)
      <3>1. Rising(Append(t.out, n))  BY <1>1, <1>2, <2>1, <2>5, RisingAppend
      <3> QED  BY <1>2, <1>5, <3>1 DEF Resent
    <2>7. \A f \in V : InOrder(f) => f \in W  BY <2>2, <2>5
    <2>8. Asked(i, st, Wired(s.out) \cup t.cache, V)  BY <1>2, <2>7 DEF Asked
    <2>9. Answering(u.rsCur, t.rsEnd, i, st, V)
      <3>1. u.rsCur <= t.rsEnd /\ no_resend(st[u.rsCur]) => AppBefore(u.rsCur, i, st)
        BY <1>5 DEF Resent, AppBefore
      <3>2. 1 <= u.rsCur  BY <1>1, <1>2, <2>1
      <3> QED  BY <1>2, <2>7, <3>1, <3>2 DEF Answering
    <2> QED  BY <1>3, <2>4, <2>6, <2>8, <2>9 DEF Traffic
  <1> QED  BY <1>4, <1>5 DEF Streams

-----------------------------------------------------------------------------
(* Steps of a pair *)

\* ParkInv of two records.
Both(a, p) ==
    /\ StoreOK(a.store) /\ StoreOK(p.store)
    /\ a.fault = "none" => Parks(a) /\ Traffic(a, p)
    /\ p.fault = "none" => Parks(p) /\ Traffic(p, a)

\* s and t differ at most in what is on the wire, and t has less there.
Loses(s, t) ==
    /\ t \in SessionRecords
    /\ t.store = s.store /\ t.nextIn = s.nextIn /\ t.cache = s.cache /\ t.base = s.base
    /\ t.rsCur = s.rsCur /\ t.rsEnd = s.rsEnd /\ t.draining = s.draining
    /\ t.state = s.state /\ t.fault = s.fault
    /\ Wired(t.out) \subseteq Wired(s.out)
    /\ Rising(s.out) => Rising(t.out)

\* Losing messages keeps the order of the rest.
LEMMA LosesTraffic ==
    ASSUME NEW s \in SessionRecords, NEW t \in SessionRecords, NEW u, NEW v,
           Parks(s), StoreOK(t.store), Traffic(s, t), Loses(s, u), Loses(t, v)
    PROVE  Parks(u) /\ Traffic(u, v)
  <1>1. s.nextIn \in Nat /\ s.nextIn >= 1  BY Fields DEF Parks
  <1>2. /\ u \in SessionRecords /\ v \in SessionRecords /\ s.nextIn <= u.nextIn
        /\ v.store = t.store /\ v.fault = t.fault /\ v.cache = t.cache
        /\ v.rsCur = t.rsCur /\ v.rsEnd = t.rsEnd
    BY <1>1 DEF Loses
  <1>3. Rising(v.out)  BY DEF Traffic, Loses
  <1>4. OnWay(u, v) \subseteq OnWay(s, t)  BY DEF OnWay, Loses
  <1>5. AsksFor(s, t, u, v)  BY DEF Loses, AsksFor
  <1>6. Traffic(u, v)  BY <1>1, <1>2, <1>3, <1>4, <1>5, TookTraffic
  <1>7. Parks(u)
    <2>1. /\ u.nextIn = s.nextIn /\ u.cache = s.cache /\ u.base = s.base
          /\ u.draining = s.draining /\ u.state = s.state
      BY DEF Loses
    <2> QED  BY <2>1 DEF Parks, in_window
  <1> QED  BY <1>6, <1>7

\* So it does for both records.
LEMMA BothLoses ==
    ASSUME NEW a \in SessionRecords, NEW p \in SessionRecords, NEW b, NEW q,
           Both(a, p), Loses(a, b), Loses(p, q)
    PROVE  Both(b, q)
  <1>1. /\ b.store = a.store /\ q.store = p.store /\ b.fault = a.fault /\ q.fault = p.fault
    BY DEF Loses
  <1>2. a.fault = "none" => Parks(b) /\ Traffic(b, q)  BY LosesTraffic DEF Both
  <1>3. p.fault = "none" => Parks(q) /\ Traffic(q, b)  BY LosesTraffic DEF Both
  <1> QED  BY <1>1, <1>2, <1>3 DEF Both

\* A record loses nothing, all of its messages, or the first.
LEMMA LosesSome ==
    ASSUME NEW s \in SessionRecords, NEW o,
           o = <<>> \/ o = s.out \/ (s.out # <<>> /\ o = Tail(s.out))
    PROVE  Loses(s, [s EXCEPT !.out = o]) /\ Loses(s, s)
  <1> DEFINE t == [s EXCEPT !.out = o]
  <1>1. s.out \in Seq(Messages)  BY Fields
  <1>2. t \in SessionRecords  BY ReadSome
  <1>3. Wired(o) \subseteq Wired(s.out) /\ (Rising(s.out) => Rising(o))
    <2>1. CASE o = <<>>  BY <2>1 DEF Wired, Rising
    <2>2. CASE o = s.out  BY <2>2
    <2>3. CASE s.out # <<>> /\ o = Tail(s.out)  BY <1>1, <2>3, HeadTail
    <2> QED  BY <2>1, <2>2, <2>3
  <1>4. /\ t.store = s.store /\ t.nextIn = s.nextIn /\ t.cache = s.cache /\ t.base = s.base
        /\ t.rsCur = s.rsCur /\ t.rsEnd = s.rsEnd /\ t.draining = s.draining
        /\ t.state = s.state /\ t.fault = s.fault /\ t.out = o
    BY DEF SessionRecords
  <1> HIDE DEF t
  <1>5. Loses(s, t)  BY <1>2, <1>3, <1>4 DEF Loses
  <1>6. Loses(s, s)  BY DEF Loses
  <1> QED  BY <1>5, <1>6 DEF t

\* Only the message written is new on the wire.
LEMMA WrittenWired ==
    ASSUME NEW s \in SessionRecords, NEW t, NEW n, Wrote(s, t, n)
    PROVE  Wired(t.out) \subseteq Wired(s.out) \cup {n}
  <1>1. s.out \in Seq(Messages) /\ n \in Messages  BY Fields DEF Wrote
  <1> QED  BY <1>1, WiredAppend DEF Wrote

\* A passive step keeps the invariant of both records.
LEMMA PassiveBoth ==
    ASSUME NEW a \in SessionRecords, NEW p \in SessionRecords, a.fault = "none", Both(a, p),
           a.rsCur > a.rsEnd, NEW b, Passive(a, b)
    PROVE  Both(b, p)
  <1>1. /\ StoreOK(a.store) /\ StoreOK(p.store) /\ Parks(a) /\ Traffic(a, p)
        /\ p.fault = "none" => Parks(p) /\ Traffic(p, a)
    BY DEF Both
  <1>2. /\ b \in SessionRecords /\ b.nextIn = a.nextIn /\ b.rsCur > b.rsEnd
        /\ b.draining = a.draining /\ b.cache \subseteq a.cache
        /\ b.cache = {} \/ (b.cache = a.cache /\ b.base = a.base)
        /\ b.state = "RECOVERING_RESEND" => a.state = "RECOVERING_RESEND"
    BY DEF Passive, Stays
  <1>3. Sent(a, b)  BY DEF Passive, Writes, Sent
  <1>4. StoreOK(b.store)  BY <1>1, <1>3, SentStore
  <1>5. ASSUME p.fault = "none" PROVE Traffic(p, b)
    <2>1. p.nextIn >= 1  BY <1>1, <1>5 DEF Parks
    <2> QED  BY <1>1, <1>2, <1>3, <1>5, <2>1, SentTraffic
  <1>6. Parks(b)  BY <1>1, <1>2 DEF Parks, in_window
  <1>7. Traffic(b, p)
    <2>1. a.nextIn >= 1 /\ a.nextIn <= b.nextIn  BY <1>1, <1>2, Fields DEF Parks
    <2>2. OnWay(b, p) \subseteq OnWay(a, p)  BY <1>2 DEF OnWay
    <2>3. \A q \in Wired(b.out) : q \in Wired(a.out) \/ q.type # "ResendRequest"
      <3>1. CASE Same(a, b)  BY <3>1 DEF Same
      <3>2. ASSUME NEW n, n.type # "ResendRequest", Wrote(a, b, n)
            PROVE  \A q \in Wired(b.out) : q \in Wired(a.out) \/ q.type # "ResendRequest"
        BY <3>2, WrittenWired
      <3> QED  BY <3>1, <3>2 DEF Passive, Writes
    <2>4. AsksFor(a, p, b, p)  BY <2>3 DEF AsksFor
    <2>5. Rising(p.out)  BY <1>1 DEF Traffic
    <2> QED  BY <1>1, <1>2, <2>1, <2>2, <2>4, <2>5, TookTraffic
  <1> QED  BY <1>1, <1>4, <1>5, <1>6, <1>7 DEF Both

\* A turn of the resend loop keeps it.
LEMMA StreamBoth ==
    ASSUME NEW a \in SessionRecords, NEW p \in SessionRecords, a.fault = "none", Both(a, p),
           a.rsCur <= a.rsEnd, NEW b, Streams(a, b)
    PROVE  Both(b, p)
  <1>1. /\ StoreOK(a.store) /\ StoreOK(p.store) /\ Parks(a) /\ Traffic(a, p)
        /\ p.fault = "none" => Parks(p) /\ Traffic(p, a)
    BY DEF Both
  <1>2. /\ b \in SessionRecords /\ b.store = a.store /\ b.nextIn = a.nextIn
        /\ b.cache = a.cache /\ b.base = a.base /\ b.draining = a.draining /\ b.state = a.state
    BY DEF Streams
  <1>3. ASSUME p.fault = "none" PROVE Traffic(p, b)
    <2>1. p.nextIn >= 1  BY <1>1, <1>3 DEF Parks
    <2> QED  BY <1>1, <1>3, <2>1, StreamTraffic
  <1>4. Parks(b)  BY <1>1, <1>2 DEF Parks, in_window
  <1>5. Traffic(b, p)
    <2>1. a.nextIn >= 1 /\ a.nextIn <= b.nextIn  BY <1>1, <1>2, Fields DEF Parks
    <2>2. OnWay(b, p) \subseteq OnWay(a, p)  BY <1>2 DEF OnWay
    <2>3. \A q \in Wired(b.out) : q \in Wired(a.out) \/ q.type # "ResendRequest"
      <3>1. CASE b.out = a.out  BY <3>1
      <3>2. ASSUME NEW n, Resent(a, b, n)
            PROVE  \A q \in Wired(b.out) : q \in Wired(a.out) \/ q.type # "ResendRequest"
        <4>1. a.out \in Seq(Messages) /\ n \in Messages  BY <3>2, Fields DEF Resent
        <4> QED  BY <3>2, <4>1, WiredAppend DEF Resent
      <3> QED  BY <3>1, <3>2 DEF Streams
    <2>4. AsksFor(a, p, b, p)  BY <2>3 DEF AsksFor
    <2>5. Rising(p.out)  BY <1>1 DEF Traffic
    <2> QED  BY <1>1, <1>2, <2>1, <2>2, <2>4, <2>5, TookTraffic
  <1> QED  BY <1>1, <1>2, <1>3, <1>4, <1>5 DEF Both

\* What a session that handled m has sent, and what it now has to resend.
LEMMA TurnSends ==
    ASSUME NEW a \in SessionRecords, NEW p \in SessionRecords, a.fault = "none", Both(a, p),
           a.rsCur > a.rsEnd, NEW m \in a.cache \cup Wired(p.out), NEW d, Turn(a, d, m),
           NEW b \in SessionRecords, b.out = d.out, b.store = d.store, b.fault = d.fault,
           b.rsCur = d.rsCur, b.rsEnd = d.rsEnd, b.cache \subseteq d.cache
    PROVE  StoreOK(b.store) /\ (p.fault = "none" => Traffic(p, b))
  <1>1. StoreOK(a.store) /\ (p.fault = "none" => Parks(p) /\ Traffic(p, a))  BY DEF Both
  <1>2. Sent(a, b)
    <2>1. Sent(a, d)  BY DEF Turn, Passive, Handled, Parked, Writes, Asks, Sent
    <2> QED  BY <2>1 DEF Sent, Same, Wrote
  <1>3. StoreOK(b.store)  BY <1>1, <1>2, SentStore
  <1>4. ASSUME p.fault = "none" PROVE Traffic(p, b)
    <2>1. p.nextIn >= 1  BY <1>1, <1>4 DEF Parks
    <2>2. b.fault = "none" => b.cache \subseteq a.cache \cup Wired(p.out)
      BY DEF Turn, Passive, Stays, Handled, Parked
    <2>3. \/ b.rsCur > b.rsEnd
          \/ /\ m.type = "ResendRequest" /\ b.rsCur = m.begin
             /\ m.end = 0 \/ m.end > Len(a.store) \/ b.rsEnd = m.end
      BY DEF Turn, Passive, Stays, Handled, Parked
    <2>4. m.type = "ResendRequest" => ~ (m.end = 0 \/ m.end > Len(a.store))
      <3> SUFFICES ASSUME m.type = "ResendRequest"
                   PROVE  ~ (m.end = 0 \/ m.end > Len(a.store))
        OBVIOUS
      <3>1. a.cache \in SUBSET Messages /\ Wired(p.out) \in SUBSET Messages
            /\ Len(a.store) \in Nat
        BY Fields, WiredType
      <3>2. m.begin \in Nat /\ m.end \in Nat  BY <3>1, MessageFields
      <3>3. 1 <= m.begin /\ m.begin <= m.end /\ m.end <= Len(a.store)
        BY <1>1, <1>4 DEF Traffic, Asked
      <3> QED  BY <3>1, <3>2, <3>3
    <2>5. \/ b.rsCur > b.rsEnd
          \/ \E q \in a.cache \cup Wired(p.out) :
               q.type = "ResendRequest" /\ b.rsCur = q.begin /\ b.rsEnd = q.end
      BY <2>3, <2>4
    <2> QED  BY <1>1, <1>2, <1>4, <2>1, <2>2, <2>5, SentTraffic
  <1> QED  BY <1>3, <1>4

\* A message on its way is one the handlers expect.
LEMMA OnWayFits ==
    ASSUME NEW a \in SessionRecords, NEW p \in SessionRecords, a.fault = "none", Both(a, p),
           NEW m \in OnWay(a, p)
    PROVE  m \in Messages /\ Fit(m) /\ m.seq \in Nat /\ m.seq < Top(m) /\ Top(m) \in Nat
           /\ m.seq >= 1
  <1>1. StoreOK(p.store) /\ Traffic(a, p) /\ p.store \in Seq(Messages)  BY Fields DEF Both
  <1>2. m \in Messages /\ Known(m, p.store)  BY <1>1, OnWayType DEF Traffic, Wire
  <1>3. /\ m.seq \in Nat /\ m.newSeq \in Nat /\ m.seq < Top(m) /\ Top(m) \in Nat /\ m.seq >= 1
        /\ m.type = "SequenceReset" => Fills(m, p.store)
        /\ m.type = "Logon" /\ m.reset => m.seq = 1
    BY <1>1, <1>2, KnownFacts
  <1> QED  BY <1>2, <1>3 DEF Fit, Fills

\* A message read from the wire keeps it, whichever turn it takes.
LEMMA ReceiveBoth ==
    ASSUME NEW a \in SessionRecords, NEW p \in SessionRecords, a.fault = "none", Both(a, p),
           a.rsCur > a.rsEnd, ~ a.draining, p.out # <<>>, NEW m, m = Head(p.out),
           NEW d \in SessionRecords, Turn(a, d, m), NEW b \in SessionRecords,
           b.out = d.out, b.store = d.store, b.fault = d.fault, b.state = d.state,
           b.rsCur = d.rsCur, b.rsEnd = d.rsEnd, b.cache = d.cache, b.base = d.base,
           b.nextIn = d.nextIn,
           ~ b.draining => b.cache = {} \/ b.state # "RECOVERING_RESEND",
           NEW q, q = [p EXCEPT !.out = Tail(p.out)]
    PROVE  Both(b, q)
  <1> DEFINE W == OnWay(a, p)
  <1>1. /\ StoreOK(a.store) /\ StoreOK(p.store) /\ Parks(a) /\ Traffic(a, p)
        /\ p.fault = "none" => Parks(p) /\ Traffic(p, a)
    BY DEF Both
  <1>2. p.out \in Seq(Messages) /\ p.store \in Seq(Messages) /\ W \in SUBSET Messages
        /\ a.nextIn \in Nat /\ a.nextIn >= 1
    BY <1>1, Fields, OnWayType DEF Parks
  <1>3. /\ Head(p.out) \in Wired(p.out) /\ Wired(Tail(p.out)) \subseteq Wired(p.out)
        /\ Rising(p.out) => /\ Rising(Tail(p.out))
                            /\ \A f \in Wired(Tail(p.out)) :
                                 InOrder(Head(p.out)) /\ InOrder(f) => Head(p.out).seq < f.seq
    BY <1>2, HeadTail
  <1>4. m \in W /\ m \in a.cache \cup Wired(p.out)  BY <1>3 DEF OnWay
  <1>5. m \in Messages /\ m.seq \in Nat /\ m.seq < Top(m) /\ Top(m) \in Nat
    BY <1>4, OnWayFits
  <1>6. StoreOK(b.store) /\ (p.fault = "none" => Traffic(p, b))
    BY <1>4, TurnSends
  <1>7. Loses(p, q) /\ Loses(b, b)  BY LosesSome
  <1>8. p.fault = "none" => Parks(q) /\ Traffic(q, b)
    BY <1>1, <1>6, <1>7, LosesTraffic
  <1>9. q \in SessionRecords /\ q.out = Tail(p.out)
    BY <1>7 DEF Loses, SessionRecords
  <1> HIDE DEF W
  <1>10. ASSUME b.fault = "none" PROVE Parks(b)
    <2>1. CASE Passive(a, d)
      BY <1>1, <2>1 DEF Passive, Stays, Parks, in_window
    <2>2. CASE m.seq = a.nextIn /\ Handled(a, d, m)
      <3>1. /\ b.nextIn = Top(m) /\ (b.cache = {} \/ (b.cache = a.cache /\ b.base = a.base))
            /\ b.state = "RECOVERING_RESEND" => a.state = "RECOVERING_RESEND"
        BY <2>2 DEF Handled
      <3>2. b.nextIn >= 1  BY <1>2, <1>5, <2>2, <3>1
      <3>3. ASSUME b.state = "RECOVERING_RESEND", NEW c \in b.cache PROVE c.seq >= b.nextIn
        <4>1. c \in a.cache /\ c.seq > a.nextIn  BY <1>1, <3>1, <3>3 DEF Parks
        <4>2. c \in W  BY <4>1 DEF W, OnWay
        <4>3. Wire(a.nextIn, p.store, W)  BY <1>1 DEF Traffic, W
        <4>4. Top(m) <= c.seq  BY <1>1, <1>2, <1>4, <2>2, <4>1, <4>2, <4>3, PassesNothing
        <4>5. c.seq \in Nat  BY <1>2, <4>2, MessageFields
        <4> QED  BY <1>5, <3>1, <4>4, <4>5
      <3> QED  BY <1>1, <3>1, <3>2, <3>3 DEF Parks, in_window
    <2>3. CASE Parked(a, d, m)
      <3>1. /\ b.nextIn = a.nextIn /\ m.seq > a.nextIn /\ in_window(b, m.seq)
            /\ \/ b.cache = {m}
               \/ /\ a.state = "RECOVERING_RESEND" /\ b.base = a.base
                  /\ b.cache = a.cache \cup {m} /\ \A c \in a.cache : c.seq # m.seq
        BY <1>10, <2>3 DEF Parked, in_window
      <3>2. m.seq > 1 /\ m.seq >= b.nextIn  BY <1>2, <1>5, <3>1
      <3>3. CASE b.cache = {m}  BY <1>2, <3>1, <3>2, <3>3 DEF Parks
      <3>4. CASE /\ a.state = "RECOVERING_RESEND" /\ b.base = a.base
                 /\ b.cache = a.cache \cup {m} /\ \A c \in a.cache : c.seq # m.seq
        BY <1>1, <1>2, <3>1, <3>2, <3>4 DEF Parks, in_window
      <3> QED  BY <3>1, <3>3, <3>4
    <2> QED  BY <2>1, <2>2, <2>3 DEF Turn
  <1>11. ASSUME b.fault = "none" PROVE Traffic(b, q)
    <2>1. a.nextIn <= b.nextIn
      BY <1>2, <1>5 DEF Turn, Passive, Stays, Handled, Parked
    <2>2. Rising(q.out)  BY <1>1, <1>3, <1>9 DEF Traffic
    <2>3. OnWay(b, q) \subseteq OnWay(a, p)
      <3>1. b.cache \subseteq a.cache \cup {m}
        BY <1>11 DEF Turn, Passive, Stays, Handled, Parked
      <3> QED  BY <1>3, <1>4, <1>9, <3>1 DEF OnWay, W
    <2>4. ASSUME NEW x \in Wired(b.out)
          PROVE  \/ x \in Wired(a.out)
                 \/ x.type # "ResendRequest"
                 \/ /\ x.begin = a.nextIn
                    /\ \E g \in OnWay(a, p) :
                         /\ x.end = g.seq - 1 /\ a.nextIn < g.seq
                         /\ \A f \in OnWay(b, q) : InOrder(f) => g.seq <= f.seq
      <3>1. CASE Same(a, d)  BY <3>1 DEF Same
      <3>2. ASSUME NEW n, Wrote(a, d, n), n.type # "ResendRequest"
            PROVE  x \in Wired(a.out) \/ x.type # "ResendRequest"
        BY <3>2, WrittenWired
      <3>3. ASSUME Parked(a, d, m), ~ Same(a, d), NEW n, Wrote(a, d, n),
                   n.begin = a.nextIn, n.end = m.seq - 1, x \notin Wired(a.out)
            PROVE  /\ x.begin = a.nextIn
                   /\ \E g \in OnWay(a, p) :
                        /\ x.end = g.seq - 1 /\ a.nextIn < g.seq
                        /\ \A f \in OnWay(b, q) : InOrder(f) => g.seq <= f.seq
        <4>1. x = n  BY <3>3, WrittenWired
        <4>2. b.cache = {m} /\ m.seq > a.nextIn  BY <1>11, <3>3 DEF Parked
        <4>3. OnWay(b, q) = Wired(Tail(p.out)) \cup {m}  BY <1>9, <4>2 DEF OnWay
        <4>4. ASSUME NEW f \in Wired(Tail(p.out)), InOrder(f) PROVE m.seq <= f.seq
          <5>1. f \in W /\ f.seq \in Nat
            BY <1>2, <1>3, MessageFields DEF W, OnWay
          <5>2. CASE InOrder(m)  
            BY <1>1, <1>3, <1>5, <4>4, <5>1, <5>2 DEF Traffic
          <5>3. CASE m.dup
            <6>1. Top(m) <= f.seq  BY <1>1, <1>4, <4>4, <5>1, <5>3 DEF Traffic, Wire, W
            <6> QED  BY <1>5, <5>1, <6>1
          <5>4. InOrder(m) \/ m.dup  BY <1>2, <1>5, <4>2 DEF InOrder
          <5> QED  BY <5>2, <5>3, <5>4
        <4>5. \A f \in OnWay(b, q) : InOrder(f) => m.seq <= f.seq
          BY <1>5, <4>3, <4>4
        <4> QED  BY <1>4, <3>3, <4>1, <4>2, <4>5 DEF W
      <3> QED  BY <3>1, <3>2, <3>3 DEF Turn, Passive, Handled, Parked, Writes, Asks
    <2>5. /\ q.store = p.store /\ q.fault = p.fault /\ q.cache = p.cache
          /\ q.rsCur = p.rsCur /\ q.rsEnd = p.rsEnd
      BY <1>7 DEF Loses
    <2>6. AsksFor(a, p, b, q)  BY <2>4 DEF AsksFor
    <2>7. Traffic(a, p) /\ StoreOK(p.store) /\ a.nextIn >= 1  BY <1>1, <1>2
    <2> QED  BY <1>9, <2>1, <2>2, <2>3, <2>5, <2>6, <2>7, TookTraffic
  <1>12. q.store = p.store /\ q.fault = p.fault  BY <1>7 DEF Loses
  <1> QED  BY <1>1, <1>6, <1>8, <1>10, <1>11, <1>12 DEF Both

\* A turn of the drain loop: m, parked at next_in, is handled and removed.
LEMMA DrainBoth ==
    ASSUME NEW a \in SessionRecords, NEW p \in SessionRecords, a.fault = "none", Both(a, p),
           a.rsCur > a.rsEnd, a.draining, NEW m \in a.cache, m.seq = a.nextIn,
           NEW d, Turn(a, d, m), NEW b \in SessionRecords,
           b.out = d.out, b.store = d.store, b.fault = d.fault, b.state = d.state,
           b.rsCur = d.rsCur, b.rsEnd = d.rsEnd, b.cache = d.cache \ {m}, b.base = d.base,
           b.nextIn = d.nextIn, b.draining = d.draining
    PROVE  Both(b, p)
  <1> DEFINE W == OnWay(a, p)
  <1>1. /\ StoreOK(a.store) /\ StoreOK(p.store) /\ Parks(a) /\ Traffic(a, p)
        /\ p.fault = "none" => Parks(p) /\ Traffic(p, a)
    BY DEF Both
  <1>2. p.store \in Seq(Messages) /\ W \in SUBSET Messages /\ a.nextIn \in Nat /\ a.nextIn >= 1
    BY <1>1, Fields, OnWayType DEF Parks
  <1>3. m \in W  BY DEF OnWay
  <1>4. m \in Messages /\ m.seq \in Nat /\ m.seq < Top(m) /\ Top(m) \in Nat
    BY <1>3, OnWayFits
  <1>5. StoreOK(b.store) /\ (p.fault = "none" => Traffic(p, b))
    <2>1. b.cache \subseteq d.cache  OBVIOUS
    <2> QED  BY <2>1, TurnSends
  <1>6. ~ Parked(a, d, m)
    <2>1. ~ (m.seq > a.nextIn)  BY <1>4
    <2> QED  BY <2>1 DEF Parked
  <1> HIDE DEF W
  <1>7. /\ Writes(a, d) /\ b.draining
        /\ b.cache = {} \/ (b.cache = a.cache \ {m} /\ b.base = a.base)
        /\ b.state = "RECOVERING_RESEND" => a.state = "RECOVERING_RESEND"
        /\ b.nextIn = a.nextIn \/ b.nextIn = Top(m)
    BY <1>6 DEF Turn, Passive, Stays, Handled
  <1>8. a.nextIn <= b.nextIn  BY <1>2, <1>4, <1>7
  <1>9. ASSUME b.state = "RECOVERING_RESEND", NEW c \in b.cache PROVE c.seq >= b.nextIn
    <2>1. c \in a.cache /\ c # m  BY <1>7
    <2>2. c \in W /\ c \in Messages  BY <1>2, <2>1 DEF W, OnWay
    <2>3. c.seq \in Nat  BY <2>2, MessageFields
    <2>4. c.seq >= a.nextIn /\ c.seq # m.seq  BY <1>1, <1>7, <1>9, <2>1 DEF Parks
    <2>5. c.seq > a.nextIn  BY <1>2, <2>3, <2>4
    <2>6. Wire(a.nextIn, p.store, W)  BY <1>1 DEF Traffic, W
    <2>7. Top(m) <= c.seq  BY <1>1, <1>2, <1>3, <2>2, <2>5, <2>6, PassesNothing
    <2> QED  BY <1>2, <1>4, <1>7, <2>3, <2>5, <2>7
  <1>10. Parks(b)
    <2>1. b.nextIn >= 1  BY <1>2, <1>4, <1>7
    <2> QED  BY <1>1, <1>7, <1>9, <2>1 DEF Parks, in_window
  <1>11. Traffic(b, p)
    <2>1. OnWay(b, p) \subseteq OnWay(a, p)  BY <1>7 DEF OnWay
    <2>2. \A q \in Wired(b.out) : q \in Wired(a.out) \/ q.type # "ResendRequest"
      <3>1. CASE Same(a, d)  BY <3>1 DEF Same
      <3>2. ASSUME NEW n, n.type # "ResendRequest", Wrote(a, d, n)
            PROVE  \A q \in Wired(b.out) : q \in Wired(a.out) \/ q.type # "ResendRequest"
        BY <3>2, WrittenWired
      <3> QED  BY <1>7, <3>1, <3>2 DEF Writes
    <2>3. AsksFor(a, p, b, p)  BY <2>2 DEF AsksFor
    <2>4. Rising(p.out)  BY <1>1 DEF Traffic
    <2> QED  BY <1>1, <1>2, <1>8, <2>1, <2>3, <2>4, TookTraffic
  <1> QED  BY <1>1, <1>5, <1>10, <1>11 DEF Both

\* The end of the drain loop.
LEMMA DrainedBoth ==
    ASSUME NEW a \in SessionRecords, NEW p \in SessionRecords, a.fault = "none", Both(a, p),
           ~ contains(a, a.nextIn), NEW b \in SessionRecords,
           b.out = a.out, b.store = a.store, b.fault = a.fault,
           b.state = "RECOVERING_RESEND" => a.state = "RECOVERING_RESEND",
           b.rsCur = a.rsCur, b.rsEnd = a.rsEnd, b.cache = a.cache, b.base = a.base,
           b.nextIn = a.nextIn
    PROVE  Both(b, p)
  <1>1. /\ StoreOK(a.store) /\ StoreOK(p.store) /\ Parks(a) /\ Traffic(a, p)
        /\ p.fault = "none" => Parks(p) /\ Traffic(p, a)
    BY DEF Both
  <1>2. Traffic(b, p)  BY <1>1 DEF Traffic, OnWay
  <1>3. p.fault = "none" => Traffic(p, b)  BY <1>1 DEF Traffic, OnWay
  <1>4. ASSUME NEW c \in a.cache PROVE c.seq # a.nextIn
    BY <1>1 DEF contains, Cached, Parks
  <1>5. \A c \in a.cache : c.seq \in Nat /\ a.nextIn \in Nat  BY Fields, MessageFields
  <1>6. Parks(b)  BY <1>1, <1>4, <1>5 DEF Parks, in_window
  <1> QED  BY <1>1, <1>2, <1>3, <1>6 DEF Both

-----------------------------------------------------------------------------
(* A broken connection carries nothing new *)

\* A record with other messages on the wire is otherwise the same.
LEMMA MutedFields ==
    ASSUME NEW t \in SessionRecords, NEW o \in Seq(Messages)
    PROVE  LET e == [t EXCEPT !.out = o] IN
           /\ e \in SessionRecords /\ e.out = o /\ e.store = t.store /\ e.fault = t.fault
           /\ e.state = t.state /\ e.rsCur = t.rsCur /\ e.rsEnd = t.rsEnd /\ e.cache = t.cache
           /\ e.base = t.base /\ e.nextIn = t.nextIn /\ e.draining = t.draining
  BY DEF SessionRecords

\* A passive step over a broken connection is passive.
LEMMA MutedPassive ==
    ASSUME NEW a \in SessionRecords, NEW t, Passive(a, t)
    PROVE  Passive(a, [t EXCEPT !.out = a.out])
  <1> DEFINE e == [t EXCEPT !.out = a.out]
  <1>1. t \in SessionRecords /\ a.out \in Seq(Messages)  BY Fields DEF Passive, Stays
  <1>2. /\ e \in SessionRecords /\ e.out = a.out /\ e.store = t.store /\ e.fault = t.fault
        /\ e.state = t.state /\ e.rsCur = t.rsCur /\ e.rsEnd = t.rsEnd /\ e.cache = t.cache
        /\ e.base = t.base /\ e.nextIn = t.nextIn /\ e.draining = t.draining
    BY <1>1, MutedFields
  <1> HIDE DEF e
  <1>3. Writes(a, e)
    <2>1. Same(a, t) => Same(a, e)  BY <1>2 DEF Same
    <2>2. \A n : Wrote(a, t, n) => Wrote(a, e, n)  BY <1>2 DEF Wrote
    <2> QED  BY <2>1, <2>2 DEF Passive, Writes
  <1>4. Passive(a, e)  BY <1>2, <1>3 DEF Passive, Stays
  <1> QED  BY <1>4 DEF e

\* A turn over a broken connection is a turn.
LEMMA MutedTurn ==
    ASSUME NEW a \in SessionRecords, NEW t \in SessionRecords, NEW m, Turn(a, t, m)
    PROVE  Turn(a, [t EXCEPT !.out = a.out], m)
  <1> DEFINE e == [t EXCEPT !.out = a.out]
  <1>1. a.out \in Seq(Messages)  BY Fields
  <1>2. /\ e \in SessionRecords /\ e.out = a.out /\ e.store = t.store /\ e.fault = t.fault
        /\ e.state = t.state /\ e.rsCur = t.rsCur /\ e.rsEnd = t.rsEnd /\ e.cache = t.cache
        /\ e.base = t.base /\ e.nextIn = t.nextIn /\ e.draining = t.draining
    BY <1>1, MutedFields
  <1>3. CASE Passive(a, t)  BY <1>3, MutedPassive DEF Turn
  <1> HIDE DEF e
  <1>4. Same(a, t) => Same(a, e)  BY <1>2 DEF Same
  <1>5. \A n : Wrote(a, t, n) => Wrote(a, e, n)  BY <1>2 DEF Wrote
  <1>6. Writes(a, t) => Writes(a, e)  BY <1>4, <1>5 DEF Writes
  <1>7. Asks(a, t, m) => Asks(a, e, m)  BY <1>4, <1>5 DEF Asks
  <1>8. Handled(a, t, m) => Handled(a, e, m)  BY <1>2, <1>6 DEF Handled
  <1>9. Parked(a, t, m) => Parked(a, e, m)  BY <1>2, <1>4, <1>7 DEF Parked, in_window
  <1> QED  BY <1>3, <1>8, <1>9 DEF Turn, e

\* So is a turn of the resend loop.
LEMMA MutedStreams ==
    ASSUME NEW a \in SessionRecords, NEW t, Streams(a, t)
    PROVE  Streams(a, [t EXCEPT !.out = a.out])
  <1> DEFINE e == [t EXCEPT !.out = a.out]
  <1>1. t \in SessionRecords /\ a.out \in Seq(Messages)  BY Fields DEF Streams
  <1>2. /\ e \in SessionRecords /\ e.out = a.out /\ e.store = t.store /\ e.fault = t.fault
        /\ e.state = t.state /\ e.rsCur = t.rsCur /\ e.rsEnd = t.rsEnd /\ e.cache = t.cache
        /\ e.base = t.base /\ e.nextIn = t.nextIn /\ e.draining = t.draining
    BY <1>1, MutedFields
  <1> HIDE DEF e
  <1>3. \A n : Resent(a, t, n) => Resent(a, e, n)  BY <1>2 DEF Resent
  <1>4. Streams(a, e)  BY <1>2, <1>3 DEF Streams
  <1> QED  BY <1>4 DEF e

-----------------------------------------------------------------------------
(* The steps of SessionPair *)

\* ParkInv says Both of the two sessions,
LEMMA PairBoth ==
    ASSUME ParkInv, NEW r \in Roles
    PROVE  Both(sess[r], sess[Peer(r)])
  BY PeerFacts DEF ParkInv, Both

\* and follows from it.
LEMMA BothPair ==
    ASSUME NEW r \in Roles, Both(sess'[r], sess'[Peer(r)])
    PROVE  ParkInv'
  <1>1. Peer(r) \in Roles /\ Peer(Peer(r)) = r /\ \A x \in Roles : x = r \/ x = Peer(r)
    BY PeerFacts
  <1>2. ASSUME NEW x \in Roles
        PROVE  /\ StoreOK(sess'[x].store)
               /\ sess'[x].fault = "none" => Parks(sess'[x]) /\ Traffic(sess'[x], sess'[Peer(x)])
    BY <1>1 DEF Both
  <1> QED  BY <1>2 DEF ParkInv

\* A handler that keeps Both of its result, sent or muted, keeps ParkInv.
LEMMA CommitBoth ==
    ASSUME Inv, NEW r \in Roles, NEW t, NEW rest,
           rest = sess[Peer(r)].out
             \/ (sess[Peer(r)].out # <<>> /\ rest = Tail(sess[Peer(r)].out)),
           Commit(r, t, rest),
           \A b \in {t, [t EXCEPT !.out = sess[r].out]} :
             b \in SessionRecords /\ Both(b, [sess[Peer(r)] EXCEPT !.out = rest])
    PROVE  ParkInv'
  <1> DEFINE p == sess[Peer(r)]
             q == [p EXCEPT !.out = rest]
             e == [p EXCEPT !.out = <<>>]
             b == sess'[r]
  <1>1. sess \in [Roles -> SessionRecords] /\ p \in SessionRecords
    BY InvRecords DEF Inv, TypeOK
  <1>2. /\ b \in {t, [t EXCEPT !.out = sess[r].out]}
        /\ sess'[Peer(r)] = e \/ sess'[Peer(r)] = q
    BY <1>1, CommitRecords
  <1>3. b \in SessionRecords /\ Both(b, q)  BY <1>2
  <1>4. q \in SessionRecords  BY <1>1, ReadSome
  <1>5. e = [q EXCEPT !.out = <<>>]  BY <1>1 DEF SessionRecords
  <1> HIDE DEF q, e, b
  <1>6. Loses(q, e) /\ Loses(b, b)  BY <1>3, <1>4, <1>5, LosesSome
  <1>7. Both(b, e)  BY <1>3, <1>4, <1>6, BothLoses
  <1> QED  BY <1>2, <1>3, <1>7, BothPair DEF b

\* The record with its own messages put back is the record.
LEMMA UnreadSame ==
    ASSUME NEW s \in SessionRecords
    PROVE  [s EXCEPT !.out = s.out] = s
  BY DEF SessionRecords

\* Handlers that receive nothing keep ParkInv.
LEMMA PassiveCommit ==
    ASSUME Inv, ParkInv, NEW r \in Roles, sess[r].fault = "none", sess[r].rsCur > sess[r].rsEnd,
           NEW t, Passive(sess[r], t), Commit(r, t, sess[Peer(r)].out)
    PROVE  ParkInv'
  <1> DEFINE a == sess[r]
             p == sess[Peer(r)]
  <1>1. a \in SessionRecords /\ p \in SessionRecords /\ Both(a, p)  BY InvRecords, PairBoth
  <1>2. [p EXCEPT !.out = p.out] = p  BY <1>1, UnreadSame
  <1>3. ASSUME NEW b \in {t, [t EXCEPT !.out = a.out]}
        PROVE  b \in SessionRecords /\ Both(b, p)
    <2>1. Passive(a, b)  BY <1>1, <1>3, MutedPassive
    <2>2. b \in SessionRecords  BY <2>1 DEF Passive, Stays
    <2> QED  BY <1>1, <2>1, <2>2, PassiveBoth
  <1> QED  BY <1>2, <1>3, CommitBoth

\* The resend loop keeps ParkInv.
LEMMA ResendCommit ==
    ASSUME Inv, ParkInv, NEW r \in Roles, sess[r].fault = "none", sess[r].rsCur <= sess[r].rsEnd,
           Commit(r, ResendStep(sess[r]), sess[Peer(r)].out)
    PROVE  ParkInv'
  <1> DEFINE a == sess[r]
             p == sess[Peer(r)]
             t == ResendStep(a)
  <1>1. a \in SessionRecords /\ p \in SessionRecords /\ Both(a, p) /\ OutSound(a)
    BY InvRecords, PairBoth
  <1>2. [p EXCEPT !.out = p.out] = p  BY <1>1, UnreadSame
  <1>3. Streams(a, t)  BY <1>1, ResendStepStreams
  <1> HIDE DEF t
  <1>4. ASSUME NEW b \in {t, [t EXCEPT !.out = a.out]}
        PROVE  b \in SessionRecords /\ Both(b, p)
    <2>1. Streams(a, b)  BY <1>1, <1>3, <1>4, MutedStreams
    <2>2. b \in SessionRecords  BY <2>1 DEF Streams
    <2> QED  BY <1>1, <2>1, <2>2, StreamBoth
  <1> QED  BY <1>2, <1>4, CommitBoth DEF t

\* Reading a message keeps ParkInv.
LEMMA ReceiveCommit ==
    ASSUME Inv, ParkInv, NEW r \in Roles, sess[r].fault = "none", ~ Busy(sess[r]),
           sess[Peer(r)].out # <<>>,
           Commit(r, process_wire_message_(sess[r], Head(sess[Peer(r)].out)),
                     Tail(sess[Peer(r)].out))
    PROVE  ParkInv'
  <1> DEFINE a == sess[r]
             p == sess[Peer(r)]
             m == Head(p.out)
             t == process_wire_message_(a, m)
             q == [p EXCEPT !.out = Tail(p.out)]
  <1>1. a \in SessionRecords /\ p \in SessionRecords /\ Both(a, p) /\ NumbersMatch(a)
    BY InvRecords, PairBoth
  <1>2. a.rsCur > a.rsEnd /\ ~ a.draining
    <2>1. a.rsCur \in Nat /\ a.rsEnd \in Nat  BY <1>1, Fields
    <2> QED  BY <2>1 DEF Busy
  <1>3. p.out \in Seq(Messages) /\ a.out \in Seq(Messages)  BY <1>1, Fields
  <1>4. m \in OnWay(a, p)  BY <1>3, HeadTail DEF OnWay
  <1>5. m \in Messages /\ Fit(m)  BY <1>1, <1>4, OnWayFits
  <1>6. PICK d \in SessionRecords :
          /\ Turn(a, d, m)
          /\ t = [d EXCEPT !.draining = d.cache # {} /\ d.state = "RECOVERING_RESEND"]
    BY <1>1, <1>5, ProcessTurn
  <1> HIDE DEF t, m, q
  <1>7. ASSUME NEW f \in SessionRecords, Turn(a, f, m), NEW b,
               b = [f EXCEPT !.draining = f.cache # {} /\ f.state = "RECOVERING_RESEND"]
        PROVE  b \in SessionRecords /\ Both(b, q)
    <2> DEFINE g == (f.cache # {} /\ f.state = "RECOVERING_RESEND")
    <2>1. g \in BOOLEAN  OBVIOUS
    <2>2. b = [f EXCEPT !.draining = g]  BY <1>7
    <2>3. g <=> (f.cache # {} /\ f.state = "RECOVERING_RESEND")  OBVIOUS
    <2> HIDE DEF g
    <2>4. /\ b \in SessionRecords /\ b.out = f.out /\ b.store = f.store /\ b.fault = f.fault
          /\ b.state = f.state /\ b.rsCur = f.rsCur /\ b.rsEnd = f.rsEnd /\ b.cache = f.cache
          /\ b.base = f.base /\ b.nextIn = f.nextIn /\ b.draining = g
      BY <2>1, <2>2 DEF SessionRecords
    <2>5. ~ b.draining => b.cache = {} \/ b.state # "RECOVERING_RESEND"  BY <2>3, <2>4
    <2>6. /\ m = Head(p.out) /\ q = [p EXCEPT !.out = Tail(p.out)]
          /\ p.out # <<>> /\ a.fault = "none"
      BY DEF m, q
    <2>7. Turn(a, f, m) /\ f \in SessionRecords  BY <1>7
    <2> HIDE DEF a, p
    <2>8. Both(b, q)  BY <1>1, <1>2, <2>4, <2>5, <2>6, <2>7, ReceiveBoth
    <2> QED  BY <2>4, <2>8
  <1>8. t \in SessionRecords /\ Both(t, q)  BY <1>6, <1>7
  <1>9. [t EXCEPT !.out = a.out] \in SessionRecords /\ Both([t EXCEPT !.out = a.out], q)
    <2> DEFINE f == [d EXCEPT !.out = a.out]
               b == [t EXCEPT !.out = a.out]
    <2>1. Turn(a, f, m)  BY <1>1, <1>6, MutedTurn
    <2>2. f \in SessionRecords /\ f.cache = d.cache /\ f.state = d.state  BY <1>3, MutedFields
    <2>3. b = [f EXCEPT !.draining = d.cache # {} /\ d.state = "RECOVERING_RESEND"]
      BY <1>3, <1>6 DEF SessionRecords
    <2> HIDE DEF f, b
    <2>4. b = [f EXCEPT !.draining = f.cache # {} /\ f.state = "RECOVERING_RESEND"]
      BY <2>2, <2>3
    <2>5. b \in SessionRecords /\ Both(b, q)  BY <1>7, <2>1, <2>2, <2>4
    <2> QED  BY <2>5 DEF b
  <1> QED  BY <1>8, <1>9, CommitBoth DEF t, m, q


\* The drain loop keeps ParkInv.
LEMMA DrainCommit ==
    ASSUME Inv, ParkInv, NEW r \in Roles, sess[r].fault = "none",
           sess[r].rsCur > sess[r].rsEnd, sess[r].draining,
           Commit(r, DrainStep(sess[r]), sess[Peer(r)].out)
    PROVE  ParkInv'
  <1> DEFINE a == sess[r]
             p == sess[Peer(r)]
             t == DrainStep(a)
             e == [t EXCEPT !.out = a.out]
  <1>1. /\ a \in SessionRecords /\ p \in SessionRecords /\ Both(a, p) /\ NumbersMatch(a)
        /\ a.fault = "none" /\ a.rsCur > a.rsEnd /\ a.draining
    BY InvRecords, PairBoth
  <1>2. a.out \in Seq(Messages)  BY <1>1, Fields
  <1>3. [p EXCEPT !.out = p.out] = p  BY <1>1, UnreadSame
  <1>4. Commit(r, t, p.out)  OBVIOUS
  <1> HIDE DEF a, p
  <1>5. CASE contains(a, a.nextIn)
    <2> DEFINE m == CHOOSE c \in Cached(a, a.nextIn) : TRUE
               d == dispatch(a, m)
               f == [d EXCEPT !.out = a.out]
    <2>1. m \in a.cache /\ m.seq = a.nextIn  BY <1>5 DEF contains, Cached
    <2>2. t = [d EXCEPT !.cache = d.cache \ {m}]  BY <1>5 DEF DrainStep
    <2> HIDE DEF m
    <2>3. m \in Messages /\ Fit(m)
      <3>1. m \in OnWay(a, p)  BY <2>1 DEF OnWay
      <3> QED  BY <1>1, <3>1, OnWayFits
    <2>4. Turn(a, d, m)  BY <1>1, <2>3, DispatchTurn
    <2> HIDE DEF d, t
    <2>5. d \in SessionRecords  BY <2>4 DEF Turn, Passive, Stays, Handled, Parked
    <2>6. Turn(a, f, m)  BY <1>1, <2>4, <2>5, MutedTurn
    <2>7. f \in SessionRecords  BY <1>2, <2>5, MutedFields
    <2>8. e = [f EXCEPT !.cache = f.cache \ {m}]  BY <1>2, <2>2, <2>5 DEF SessionRecords
    <2> HIDE DEF e, f
    <2>9. ASSUME NEW g \in SessionRecords, Turn(a, g, m), NEW b,
                 b = [g EXCEPT !.cache = g.cache \ {m}]
          PROVE  b \in SessionRecords /\ Both(b, p)
      <3>1. /\ b \in SessionRecords /\ b.out = g.out /\ b.store = g.store /\ b.fault = g.fault
            /\ b.state = g.state /\ b.rsCur = g.rsCur /\ b.rsEnd = g.rsEnd
            /\ b.cache = g.cache \ {m}
            /\ b.base = g.base /\ b.nextIn = g.nextIn /\ b.draining = g.draining
        BY <2>9 DEF SessionRecords
      <3> QED  BY <1>1, <2>1, <2>9, <3>1, DrainBoth
    <2>10. \A b \in {t, e} : b \in SessionRecords /\ Both(b, p)
      BY <2>2, <2>4, <2>5, <2>6, <2>7, <2>8, <2>9
    <2> QED  BY <1>3, <1>4, <2>10, CommitBoth DEF e, a, p
  <1>6. CASE ~ contains(a, a.nextIn)
    <2>1. t = [a EXCEPT !.draining = FALSE, !.state = IF a.cache = {} THEN "ACTIVE" ELSE a.state]
      BY <1>6 DEF DrainStep
    <2> HIDE DEF t
    <2>2. /\ t \in SessionRecords /\ t.out = a.out /\ t.store = a.store /\ t.fault = a.fault
          /\ t.state = "RECOVERING_RESEND" => a.state = "RECOVERING_RESEND"
          /\ t.rsCur = a.rsCur /\ t.rsEnd = a.rsEnd /\ t.cache = a.cache
          /\ t.base = a.base /\ t.nextIn = a.nextIn
      BY <1>1, <2>1 DEF SessionRecords, SessionStates
    <2>3. Both(t, p)  BY <1>1, <1>6, <2>2, DrainedBoth
    <2>4. e = t  BY <2>2, UnreadSame
    <2>5. \A b \in {t, e} : b \in SessionRecords /\ Both(b, p)  BY <2>2, <2>3, <2>4
    <2> QED  BY <1>3, <1>4, <2>5, CommitBoth DEF a, p
  <1> QED  BY <1>5, <1>6

\* The initial states: nothing is stored, sent or parked.
LEMMA InitPark ==
    ASSUME Init
    PROVE  ParkInv
  <1>1. ASSUME NEW r \in Roles
        PROVE  /\ sess[r].store = <<>> /\ sess[r].out = <<>> /\ sess[r].cache = {}
               /\ sess[r].nextIn = 1 /\ sess[r].rsCur = 1 /\ sess[r].rsEnd = 0
               /\ sess[r].state = "DISCONNECTED"
    BY DEF Init, NewSession
  <1>2. Wired(<<>>) = {}  BY DEF Wired
  <1>3. StoreOK(<<>>) /\ Rising(<<>>)  BY DEF StoreOK, StoreSound, Undup, Rising
  <1>4. ASSUME NEW r \in Roles
        PROVE  StoreOK(sess[r].store) /\ Parks(sess[r]) /\ Traffic(sess[r], sess[Peer(r)])
    <2>1. Peer(r) \in Roles  BY PeerFacts
    <2>2. OnWay(sess[r], sess[Peer(r)]) = {}  BY <1>1, <1>2, <2>1 DEF OnWay
    <2>3. Wired(sess[r].out) \cup sess[Peer(r)].cache = {}  BY <1>1, <1>2, <2>1
    <2>4. Parks(sess[r])  BY <1>1 DEF Parks
    <2>5. Traffic(sess[r], sess[Peer(r)])
      BY <1>1, <1>3, <2>1, <2>2, <2>3 DEF Traffic, Wire, Asked, Answering
    <2> QED  BY <1>1, <1>3, <2>4, <2>5
  <1> QED  BY <1>4 DEF ParkInv

\* Steps outside the handlers.
LEMMA AsidePark ==
    ASSUME Inv, ParkInv, NEW r \in Roles,
           Establish \/ SetConnection(r) \/ sess' = sess
    PROVE  ParkInv'
  <1> DEFINE a == sess[r]
             p == sess[Peer(r)]
  <1>1. /\ a \in SessionRecords /\ p \in SessionRecords /\ Both(a, p)
        /\ sess \in [Roles -> SessionRecords] /\ Peer(r) \in Roles /\ Peer(r) # r
    BY InvRecords, PairBoth, PeerFacts DEF Inv, TypeOK
  <1>2. CASE Establish
    <2> DEFINE b == [a EXCEPT !.out = <<>>]
               q == [p EXCEPT !.out = <<>>]
    <2>1. sess'[r] = b /\ sess'[Peer(r)] = q  BY <1>1, <1>2 DEF Establish
    <2> HIDE DEF a, p
    <2>2. Loses(a, b) /\ Loses(p, q)  BY <1>1, LosesSome
    <2> HIDE DEF b, q
    <2>3. Both(b, q)  BY <1>1, <2>2, BothLoses
    <2> QED  BY <2>1, <2>3, BothPair
  <1>3. CASE SetConnection(r)
    <2> DEFINE b == set_connection(a)
    <2>1. sess'[r] = b /\ sess'[Peer(r)] = p /\ a.fault = "none" /\ ~ Busy(a)
      BY <1>1, <1>3 DEF SetConnection, Idle
    <2>2. a.rsCur > a.rsEnd
      <3>1. a.rsCur \in Nat /\ a.rsEnd \in Nat  BY <1>1, Fields
      <3> QED  BY <2>1, <3>1 DEF Busy
    <2>3. Passive(a, b)  BY <1>1, SetConnectionRests, RestsPassive
    <2> HIDE DEF a, b, p
    <2>4. Both(b, p)  BY <1>1, <2>1, <2>2, <2>3, PassiveBoth
    <2> QED  BY <2>1, <2>4, BothPair
  <1>4. CASE sess' = sess  BY <1>1, <1>4, BothPair
  <1> QED  BY <1>2, <1>3, <1>4

\* Every step keeps ParkInv.
LEMMA NextPark ==
    ASSUME Inv, ParkInv, [Next]_vars
    PROVE  ParkInv'
  <1>1. ASSUME NEW r \in Roles, sess[r].fault = "none", ~ Busy(sess[r]), NEW t,
               Passive(sess[r], t), Commit(r, t, sess[Peer(r)].out)
        PROVE  ParkInv'
    <2>1. sess[r].rsCur > sess[r].rsEnd
      <3>1. sess[r].rsCur \in Nat /\ sess[r].rsEnd \in Nat  BY InvRecords, Fields
      <3> QED  BY <1>1, <3>1 DEF Busy
    <2> QED  BY <1>1, <2>1, PassiveCommit
  <1>2. ASSUME NEW r \in Roles, Idle(r)
        PROVE  /\ sess[r].fault = "none" /\ ~ Busy(sess[r])
               /\ sess[r] \in SessionRecords /\ NumbersMatch(sess[r])
               /\ pend[r] = "normal" => sess[r].nextIn = 1
    BY <1>2, InvRecords DEF Idle, Inv, Fresh
  <1>3. CASE Establish \/ Fail \/ UNCHANGED vars
    <2>1. PICK r \in Roles : TRUE  BY DEF Roles
    <2>2. Establish \/ sess' = sess  BY <1>3 DEF Fail, vars
    <2> QED  BY <2>1, <2>2, AsidePark
  <1>4. ASSUME NEW r \in Roles, GiveUp(r) \/ SetConnection(r) PROVE ParkInv'
    <2>1. SetConnection(r) \/ sess' = sess  BY <1>4 DEF GiveUp
    <2> QED  BY <2>1, AsidePark
  <1>5. ASSUME NEW r \in Roles, start(r) PROVE ParkInv'
    <2>1. Idle(r)  BY <1>5 DEF start
    <2>2. PICK t : /\ Commit(r, t, sess[Peer(r)].out)
                   /\ \/ pend[r] = "normal" /\ t = start_normal_(sess[r])
                      \/ t = start_after_reconnect_(sess[r])
      BY <1>5 DEF start
    <2>3. Passive(sess[r], t)
      BY <1>2, <2>1, <2>2, StartNormalPassive, StartAfterReconnectPassive
    <2> QED  BY <1>1, <1>2, <2>1, <2>2, <2>3
  <1>6. ASSUME NEW r \in Roles, TransportDown(r) \/ Stop(r) PROVE ParkInv'
    <2>1. Idle(r)  BY <1>6 DEF TransportDown, Stop, Reading
    <2>2. PICK t \in {on_transport_down_(sess[r]), stop_(sess[r])} :
            Commit(r, t, sess[Peer(r)].out)
      BY <1>6 DEF TransportDown, Stop, Run
    <2>3. Passive(sess[r], t)  BY <1>2, <2>1, <2>2, TransportDownRests, StopRests, RestsPassive
    <2> QED  BY <1>1, <1>2, <2>1, <2>2, <2>3
  <1>7. ASSUME NEW r \in Roles, Receive(r) PROVE ParkInv'
    <2>1. Idle(r) /\ sess[Peer(r)].out # <<>>  BY <1>7 DEF Receive, Reading
    <2>2. Commit(r, process_wire_message_(sess[r], Head(sess[Peer(r)].out)),
                    Tail(sess[Peer(r)].out))
      BY <1>7 DEF Receive
    <2> QED  BY <1>2, <2>1, <2>2, ReceiveCommit
  <1>8. ASSUME NEW r \in Roles, Resend(r) PROVE ParkInv'
    BY <1>8, ResendCommit DEF Resend, Run
  <1>9. ASSUME NEW r \in Roles, Drain(r) PROVE ParkInv'
    BY <1>9, DrainCommit DEF Drain, Run
  <1>10. ASSUME NEW r \in Roles, NEW x \in Timers, Expire(r, x) PROVE ParkInv'
    <2>1. Idle(r) /\ Commit(r, TimerExpired(sess[r], x), sess[Peer(r)].out)
      BY <1>10 DEF Expire, Run
    <2>2. Passive(sess[r], TimerExpired(sess[r], x))  BY <1>2, <2>1, TimerPassive
    <2> QED  BY <1>1, <1>2, <2>1, <2>2
  <1>11. ASSUME NEW r \in Roles, NEW kind \in AppKinds, AppSend(r, kind) PROVE ParkInv'
    <2>1. Idle(r) /\ Commit(r, send_from_app(sess[r], AppMessage(kind)), sess[Peer(r)].out)
      BY <1>11 DEF AppSend, Run
    <2>2. Passive(sess[r], send_from_app(sess[r], AppMessage(kind)))
      BY <1>2, <2>1, AppPassive
    <2> QED  BY <1>1, <1>2, <2>1, <2>2
  <1> QED  BY <1>3, <1>4, <1>5, <1>6, <1>7, <1>8, <1>9, <1>10, <1>11 DEF Next

(***************************************************************************)
(* In every behaviour, the traffic between the two sessions stays in the   *)
(* order that ParkInv describes: fresh messages rise, resent ones stay     *)
(* below the fresh ones still on their way, and a gap fill that starts     *)
(* ahead of next_in starts behind an application message, so that none     *)
(* passes over a parked message.                                           *)
(***************************************************************************)
THEOREM ParkInvariance ==
    Spec => []ParkInv
  <1>1. Inv /\ ParkInv /\ [Next]_vars => ParkInv'  BY NextPark
  <1>2. Init => ParkInv  BY InitPark
  <1> QED  BY <1>1, <1>2, Invariance, PTL DEF Spec

(***************************************************************************)
(* Between handlers, whatever a recovering session has parked is still     *)
(* ahead of next_in: drain_recovery_cache_ leaves nothing it could have    *)
(* taken, and handle_sequence_reset never moves next_in past a parked      *)
(* message.                                                                *)
(***************************************************************************)
THEOREM ParkedAhead ==
    Spec => []ParkedIsAhead
  <1>1. ParkInv => ParkedIsAhead
    <2> SUFFICES ASSUME ParkInv, NEW r \in Roles, Idle(r), sess[r].state = "RECOVERING_RESEND",
                        NEW m \in sess[r].cache
                 PROVE  m.seq > sess[r].nextIn
      BY DEF ParkedIsAhead
    <2>1. sess[r].fault = "none" /\ ~ sess[r].draining  BY DEF Idle, Busy
    <2> QED  BY <2>1 DEF ParkInv, Parks
  <1> QED  BY <1>1, ParkInvariance, PTL
=============================================================================
