------------------------------- MODULE Ipfix -------------------------------
(***************************************************************************)
(* src/src/ipfix/wire: one IPFIX message is put together (MessageBuilder)  *)
(* from templates of a registry and from flow records, and finalized.      *)
(*                                                                         *)
(* What is written is a sequence of items, each a value and the octets it  *)
(* takes.  An information element is named for its kind: a number, which   *)
(* is cut to the length the template gives it, an address, which is not,   *)
(* or one that flow records do not have.                                   *)
(***************************************************************************)
EXTENDS Naturals, Sequences, SequencesExt

CONSTANTS None,
          Registry,               \* a function from template ids to sequences of fields
          Records,                \* flow records: a number, and an IPv4 address or None
          MessageSpan,            \* values of the message's length field, 2^16
          Base,                   \* values of an octet
          MaxAdded

VARIABLES self, past

vars == <<self, past>>

Variable == 65535                 \* FIELD_LENGTH_VARIABLE
TemplateSetId == 2

U16(v) == [octets |-> 2, value |-> v]
U32(v) == [octets |-> 4, value |-> v]
Zeros(n) == [octets |-> n, value |-> 0]

Octets(items) == FoldLeft(LAMBDA n, x : n + x.octets, 0, items)

-----------------------------------------------------------------------------
(* A flow record by its template: the items, or None if the families differ *)

EncodeField(rec, f) ==
    CASE f.length = Variable -> Zeros(1)
      [] f.length # Variable /\ f.element = "Number" -> [octets |-> f.length, value |-> rec.number % (Base ^ f.length)]
      [] f.length # Variable /\ f.element = "Address4" -> IF rec.v4 = None THEN None ELSE U32(rec.v4)
      [] OTHER -> Zeros(f.length)

EncodeFlowRecord(rec, fields) ==
    LET items == [i \in DOMAIN fields |-> EncodeField(rec, fields[i])] IN
    IF \E i \in DOMAIN items : items[i] = None THEN None ELSE items

-----------------------------------------------------------------------------
(* Sets                                                                    *)

TemplateSet(ids) == [is |-> "Template", ids |-> ids]
DataSet(id, items) == [is |-> "Data", id |-> id, items |-> items, count |-> 1]

WireLengthStandard(f) == 4
WireLength(f) == IF f.enterprise = None THEN 4 ELSE 8

SetLength(set) ==
    IF set.is = "Data" THEN 4 + Octets(set.items)
    ELSE FoldLeft(LAMBDA n, id : n + 4 + FoldLeft(LAMBDA m, f : m + WireLength(f), 0, Registry[id]), 4, set.ids)

CurrentLength(sets) == FoldLeft(LAMBDA n, set : n + SetLength(set), 16, sets)

WriteField(f) ==
    IF f.enterprise = None THEN <<U16([element |-> f.element, private |-> FALSE]), U16(f.length)>>
    ELSE <<U16([element |-> f.element, private |-> TRUE]), U16(f.length), U32(f.enterprise)>>

WriteTemplate(id) ==
    <<U16(id), U16(Len(Registry[id]))>> \o FlattenSeq([i \in DOMAIN Registry[id] |-> WriteField(Registry[id][i])])

WriteSet(set) ==
    LET len == U16(SetLength(set) % MessageSpan) IN
    IF set.is = "Data" THEN <<U16(set.id), len>> \o set.items
    ELSE <<U16(TemplateSetId), len>> \o FlattenSeq([i \in DOMAIN set.ids |-> WriteTemplate(set.ids[i])])

Header(length) == <<U16(10), U16(length), U32("time"), U32("sequence"), U32("domain")>>

-----------------------------------------------------------------------------
(* MessageBuilder                                                          *)

Template(id) == [is |-> "Template", id |-> id]
Record(id, items) == [is |-> "Record", id |-> id, items |-> items]

Init ==
    /\ self = <<>>
    /\ past = [added |-> <<>>, message |-> None]

AddTemplateSet(ids) ==
    IF \E i \in DOMAIN ids : ids[i] \notin DOMAIN Registry THEN UNCHANGED vars
    ELSE /\ self' = Append(self, TemplateSet(ids))
         /\ past' = [past EXCEPT !.added = @ \o [i \in DOMAIN ids |-> Template(ids[i])]]

AppendToDataSet(id, items) ==
    LET n == Len(self) IN
    IF self # <<>> /\ self[n].is = "Data" /\ self[n].id = id
    THEN self' = [self EXCEPT ![n].items = @ \o items, ![n].count = @ + 1]
    ELSE self' = Append(self, DataSet(id, items))

AddDataRecord(rec, id) ==
    IF id \notin DOMAIN Registry THEN UNCHANGED vars
    ELSE \E items \in {EncodeFlowRecord(rec, Registry[id])} :
            IF items = None THEN UNCHANGED vars
            ELSE /\ AppendToDataSet(id, items)
                 /\ past' = [past EXCEPT !.added = Append(@, Record(id, items))]

DataRecordCount == FoldLeft(LAMBDA n, set : n + IF set.is = "Data" THEN set.count ELSE 0, 0, self)

\* Takes the builder: the message, or MessageTooLarge.
Finalize ==
    /\ past' = [past EXCEPT !.message =
                    [too_large |-> CurrentLength(self) >= MessageSpan,
                     items |-> IF CurrentLength(self) >= MessageSpan THEN <<>>
                               ELSE Header(CurrentLength(self)) \o FlattenSeq([i \in DOMAIN self |-> WriteSet(self[i])])]]
    /\ UNCHANGED self

Ids == DOMAIN Registry \cup {999}

Next ==
    /\ past.message = None
    /\ \/ /\ Len(self) < MaxAdded /\ Len(past.added) < MaxAdded
          /\ \/ \E ids \in {<<>>} \cup {<<i>> : i \in Ids} \cup {<<i, j>> : i, j \in Ids} : AddTemplateSet(ids)
             \/ \E rec \in Records, id \in Ids : AddDataRecord(rec, id)
       \/ Finalize

-----------------------------------------------------------------------------
(* What a collector reads, by the lengths alone                            *)

\* The number of items that take n octets from the i-th on, 0 if none do.
Taken(items, i, n) ==
    LET ends == {k \in 0 .. Len(items) - (i - 1) : Octets(SubSeq(items, i, i + k - 1)) = n} IN
    IF ends = {} THEN None ELSE CHOOSE k \in ends : \A m \in ends : k <= m

RECURSIVE TemplatesRead(_, _)
TemplatesRead(items, i) ==
    IF i > Len(items) THEN <<>>
    ELSE LET fields == items[i + 1].value
             width(j) == IF items[j].value.private THEN 3 ELSE 2
             starts == FoldLeft(LAMBDA s, k : Append(s, Last(s) + width(Last(s))), <<i + 2>>, [k \in 1 .. fields |-> k])
         IN <<Template(items[i].value)>> \o TemplatesRead(items, Last(starts))

\* The records of a data set, by the lengths that the template declares.
RECURSIVE RecordsRead(_, _, _)
RecordsRead(items, i, id) ==
    IF i > Len(items) THEN <<>>
    ELSE <<Record(id, SubSeq(items, i, i + Len(Registry[id]) - 1))>> \o RecordsRead(items, i + Len(Registry[id]), id)

RECURSIVE SetsRead(_, _)
SetsRead(message, i) ==
    IF i > Len(message) THEN <<>>
    ELSE LET k == Taken(message, i + 2, message[i + 1].value - 4)
             body == SubSeq(message, i + 2, i + 1 + k)
         IN IF k = None THEN <<None>>
            ELSE (IF message[i].value = TemplateSetId THEN TemplatesRead(body, 1) ELSE RecordsRead(body, 1, message[i].value))
                 \o SetsRead(message, i + 2 + k)

FieldFits(f, item) == item.octets = IF f.length = Variable THEN 1 ELSE f.length

\* A collector that goes by the lengths of the message, of its sets and of the
\* template's fields finds the templates and the records that were added, in
\* order, and a refused one left nothing behind; a message too long for its
\* length field is refused (MessageBuilder, set_length, write_set).  It rests on
\* templates that declare an address with its own length, as those of
\* IpfixTemplates do: another length is written as if it were (builder.rs:287)
\* and moves the fields after it.
MessageAsAdded ==
    /\ DataRecordCount = Len(SelectSeq(past.added, LAMBDA x : x.is = "Record"))
    /\ past.message # None =>
        \/ past.message.too_large /\ 16 + Octets(FlattenSeq([i \in DOMAIN self |-> WriteSet(self[i])])) >= MessageSpan
        \/ /\ Octets(past.message.items) = past.message.items[2].value
           /\ SetsRead(past.message.items, 6) = past.added
           /\ \A i \in DOMAIN self : self[i].is = "Data" =>
                \A j \in DOMAIN self[i].items :
                    FieldFits(Registry[self[i].id][((j - 1) % Len(Registry[self[i].id])) + 1], self[i].items[j])
=============================================================================
