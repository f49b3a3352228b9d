----------------------------- MODULE LogFileSink ----------------------------
(***************************************************************************)
(* Fix::Log::LogFileSink, as operators on a record:                        *)
(*   nodes  sess_to_file_, a SinkNode for each registered session: whether *)
(*          its stream is open, in_lru, the list cell lru_iterator points  *)
(*          to, and first_write                                            *)
(*   lru    lru_cache_: its cells, front first, with the session in each   *)
(*   count  currently_open_files_                                          *)
(*   files  what is in each session's file; the separator in front of an   *)
(*          entry and the entry are one element                            *)
(*   fault  "none", or how the process ended                               *)
(* ok says whether the system opens a file in this call.                   *)
(***************************************************************************)
EXTENDS Naturals, Sequences, SequencesExt, FiniteSetsExt, Functions

CONSTANT MAX_LRU_CACHE_SIZE

ASSUME SinkAssumption == MAX_LRU_CACHE_SIZE \in Nat \ {0}

NewSink == [nodes |-> <<>>, lru |-> <<>>, count |-> 0, files |-> <<>>, fault |-> "none"]

create_sink_node == [open |-> FALSE, in_lru |-> FALSE, iterator |-> 0, first_write |-> TRUE]

\* The id of the SessionID {} that close_file passes on.
DefaultID == 0

Fault(s, what) == [s EXCEPT !.fault = what]

\* A cell the list does not have and no iterator points to.
FreshCell(s) ==
    LET used == {s.lru[i].cell : i \in DOMAIN s.lru}
                \cup {s.nodes[n].iterator : n \in DOMAIN s.nodes}
    IN  Min((1..(Cardinality(used) + 1)) \ used)

CellOf(s, n) == SelectInSeq(s.lru, LAMBDA c : c.cell = s.nodes[n].iterator)

touch(s, id, n) ==
    IF ~ s.nodes[n].in_lru
      THEN [s EXCEPT !.lru = <<[cell |-> FreshCell(s), id |-> id]>> \o @,
                     !.nodes[n].iterator = FreshCell(s), !.nodes[n].in_lru = TRUE]
    ELSE IF CellOf(s, n) = 0 THEN Fault(s, "dangling_iterator")
    ELSE [s EXCEPT !.lru = <<s.lru[CellOf(s, n)]>> \o RemoveAt(s.lru, CellOf(s, n))]

\* A write to n's stream; on a closed one it has no effect.
Output(s, n, element) ==
    IF s.nodes[n].open THEN [s EXCEPT !.files[n] = Append(@, element)] ELSE s

\* The closing bracket of a file something was written to, and the close.
Bracketed(s, n) ==
    LET t == IF s.nodes[n].first_write THEN s ELSE Output(s, n, [sep |-> "]", entry |-> 0])
    IN  [t EXCEPT !.nodes[n].open = FALSE]

(***************************************************************************)
(* evict_one, with the calls of close_file and ensure_open inside it.  An  *)
(* open victim that was written to is touched before the back of the list  *)
(* is dropped.  A closed one is to be opened for its bracket, for which    *)
(* ensure_open evicts, and so on without end.                              *)
(***************************************************************************)
evict_one(s) ==
    LET v == Last(s.lru).id
        t == IF s.nodes[v].first_write THEN s ELSE touch(s, DefaultID, v)
    IN  IF s.lru = <<>> THEN Fault(s, "empty_list")
        ELSE IF ~ s.nodes[v].first_write /\ ~ s.nodes[v].open THEN Fault(s, "recursion")
        ELSE IF t.fault # "none" THEN t
        ELSE [Bracketed(t, v) EXCEPT !.nodes[v].in_lru = FALSE,
                                     !.lru = Front(@), !.count = @ - 1]

\* Mutant: one file fewer than allowed stays open.
ensure_openEarly(s, id, n, ok) ==
    LET t == IF s.count + 1 >= MAX_LRU_CACHE_SIZE /\ s.lru # <<>> THEN evict_one(s) ELSE s
    IN  IF s.nodes[n].open THEN touch(s, id, n)
        ELSE IF t.fault # "none" \/ ~ ok THEN t
        ELSE touch([t EXCEPT !.nodes[n].open = TRUE, !.count = @ + 1], id, n)

ensure_open(s, id, n, ok) ==
    LET t == IF s.count >= MAX_LRU_CACHE_SIZE THEN evict_one(s) ELSE s
    IN  IF s.nodes[n].open THEN touch(s, id, n)
        ELSE IF t.fault # "none" \/ ~ ok THEN t
        ELSE touch([t EXCEPT !.nodes[n].open = TRUE, !.count = @ + 1], id, n)

\* Mutant: every entry is written as a first one.
writeFirst(s, n, e, ok) ==
    LET t == ensure_open(s, n, n, ok)
    IN  IF n \notin DOMAIN s.nodes THEN Fault(s, "unregistered")
        ELSE IF t.fault # "none" THEN t
        ELSE [Output(t, n, [sep |-> "[", entry |-> e]) EXCEPT !.nodes[n].first_write = FALSE]

\* get_node throws for a session that is not registered; nothing catches it.
write(s, n, e, ok) ==
    LET t   == ensure_open(s, n, n, ok)
        sep == IF s.nodes[n].first_write THEN "[" ELSE ","
    IN  IF n \notin DOMAIN s.nodes THEN Fault(s, "unregistered")
        ELSE IF t.fault # "none" THEN t
        ELSE [Output(t, n, [sep |-> sep, entry |-> e]) EXCEPT !.nodes[n].first_write = FALSE]

add_session(s, n, e, ok) ==
    write([s EXCEPT !.nodes = [m \in DOMAIN @ \cup {n} |-> IF m = n THEN create_sink_node ELSE @[m]],
                    !.files = [m \in DOMAIN @ \cup {n} |-> IF m = n THEN <<>> ELSE @[m]]],
          n, e, ok)

close_file(s, n, ok) ==
    LET t == IF s.nodes[n].first_write THEN s ELSE ensure_open(s, DefaultID, n, ok)
    IN  IF t.fault # "none" THEN t ELSE Bracketed(t, n)

\* The end of shutdown; close_file was called for every node.
Cleared(s) == [s EXCEPT !.nodes = <<>>, !.lru = <<>>, !.count = 0]
=============================================================================
