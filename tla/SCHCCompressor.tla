--------------------------- MODULE SCHCCompressor ---------------------------
(***************************************************************************)
(* The header compressor of CompressionSCHC: the state machine of          *)
(* SCHC_Compressor.cpp, the parser of IPv6 and UDP headers that feeds it   *)
(* and the bit writer that takes its residue.  A field's value and a       *)
(* target value are the bits of whole bytes, a packet the bits of its      *)
(* header fields and the number of bytes that follow.                      *)
(***************************************************************************)
EXTENDS Integers, Sequences, FiniteSets, SequencesExt

VARIABLES
    rules,   \* the RuleContext of the program, in order
    ctx,     \* the FSM_Ctx that main() keeps from one packet to the next
    state_   \* the state of the CompressorFSM

(* ctx.defRule and ctx.selected_rule point into the vector rules: a        *)
(* position, the null pointer, or a rule of a vector that has been freed.  *)
Null == 0
Dangling == -1
default_ID == 0

NoPacket == [header |-> <<>>, udp |-> FALSE, size |-> 0]
NoOutput == [rule |-> default_ID, residue |-> <<>>]

(* began is history: where the search for the packet's rule began.         *)
NewCtx ==
    [arrived |-> FALSE, raw |-> NoPacket, defRule |-> Null, selected |-> Null,
     search |-> 0, fields |-> <<>>, indexMM |-> <<>>, residue |-> <<>>,
     out |-> NoOutput, began |-> 0]

CompInit == ctx = NewCtx /\ state_ = "IDLE"

-----------------------------------------------------------------------------
(* Bits.                                                                   *)

Zeros(n) == [i \in 1 .. n |-> 0]
Bits(n, w) == [i \in 1 .. w |-> (n \div 2^(w - i)) % 2]

value_size_in_bits(n) ==
    CHOOSE b \in 1 .. 16 : n < 2^b /\ \A a \in 1 .. b - 1 : n >= 2^a

msb_comparator(a, b, msb) ==
    LET bytes == 8 * ((msb + 7) \div 8)
    IN  /\ Len(a) >= bytes /\ Len(b) >= bytes
        /\ SubSeq(a, 1, msb) = SubSeq(b, 1, msb)

(* write_u64() of what lsb_extractor() returns, at most 16 bits.           *)
LeastSignificant(value, bits) ==
    LET kept == IF bits > 16 THEN 16 ELSE bits
    IN  Zeros(bits - kept) \o SubSeq(value, Len(value) - kept + 1, Len(value))

-----------------------------------------------------------------------------
(* The parser.  A field is named by what it is and by whose it is: on the  *)
(* wire the source's or the destination's, for the rules the device's or   *)
(* the application's.                                                      *)

Ipv6Fields ==
    << <<"version", "ip">>, <<"trafficclass", "ip">>, <<"flowlabel", "ip">>,
       <<"length", "ip">>, <<"nextheader", "ip">>, <<"hoplimit", "ip">>,
       <<"prefix", "dev">>, <<"iid", "dev">>, <<"prefix", "app">>,
       <<"iid", "app">> >>
UdpFields ==
    << <<"port", "dev">>, <<"port", "app">>, <<"length", "udp">>,
       <<"checksum", "udp">> >>

OnTheWire(fid, uplink) ==
    CASE fid[2] = "dev" -> <<fid[1], IF uplink THEN "source" ELSE "destination">>
      [] fid[2] = "app" -> <<fid[1], IF uplink THEN "destination" ELSE "source">>
      [] OTHER -> fid

(* The bits of a field that is not whole bytes end up on the right.        *)
normalize_extracted_value(bits) == Zeros((8 - (Len(bits) % 8)) % 8) \o bits

FieldsOf(packet) == IF packet.udp THEN Ipv6Fields \o UdpFields ELSE Ipv6Fields

(* st_parse() says that a packet is uplink when ctx.direction is DOWN; it  *)
(* is always UP.                                                           *)
FieldBits(packet, fid) == packet.header[OnTheWire(fid, FALSE)]

parse_ipv6_udp_fields(packet) ==
    LET Field(fid) ==
          [fid |-> fid, bit_length |-> Len(FieldBits(packet, fid)),
           value |-> normalize_extracted_value(FieldBits(packet, fid))]
    IN  [i \in DOMAIN FieldsOf(packet) |-> Field(FieldsOf(packet)[i])]

(* With less than 40 bytes the parser throws, with less than 48 either it  *)
(* does or the vector it makes of the bytes from the 48th on.              *)
ParserThrows(packet) == packet.size < 48

-----------------------------------------------------------------------------
(* FIND_RULE.                                                              *)

FieldOf(fid) == ctx.fields[CHOOSE i \in DOMAIN ctx.fields : ctx.fields[i].fid = fid]
Parsed == {ctx.fields[i].fid : i \in DOMAIN ctx.fields}
EntriesOf(k) == rules[k].entries

(* Every entry finds a field of its own, in the direction of the packet.   *)
HasFields(entries) ==
    /\ \A i \in DOMAIN entries : entries[i].fid \in Parsed /\ entries[i].di \in {"up", "bi"}
    /\ \A i, j \in DOMAIN entries : i # j => entries[i].fid # entries[j].fid

(* Mutant: one position further, as if search_position counted from 1.     *)
CandidatesAfter ==
    {k \in ctx.search + 2 .. Len(rules) :
       rules[k].nature = "compression" /\ HasFields(EntriesOf(k))}

Candidates ==
    {k \in ctx.search + 1 .. Len(rules) :
       rules[k].nature = "compression" /\ HasFields(EntriesOf(k))}

First(ks) == CHOOSE k \in ks : \A j \in ks : k <= j

(* The default rule is looked for among the rules that the search passes.  *)
DefaultFound ==
    LET last == IF Candidates = {} THEN Len(rules) ELSE First(Candidates)
        seen == {k \in ctx.search + 1 .. last :
                   rules[k].nature = "no-compression" /\ rules[k].id = default_ID}
    IN  IF ctx.defRule # Null \/ seen = {} THEN ctx.defRule ELSE First(seen)

(* Mutant: the rule that was found is found again.                         *)
BehindStill(k) == k - 1

(* ctx.search_position after a rule was found: the next search goes on     *)
(* behind it.                                                              *)
Behind(k) == k

-----------------------------------------------------------------------------
(* MO and CDA.                                                             *)

(* An index is pushed as an int8_t and a negative one is no match.         *)
MappingIndex(entry, field) ==
    LET at == {j \in DOMAIN entry.tv : entry.tv[j] = field.value}
    IN  IF at = {} THEN -1
        ELSE LET byte == (First(at) - 1) % 256 IN IF byte > 127 THEN byte - 256 ELSE byte

Matches(entry) ==
    LET field == FieldOf(entry.fid)
    IN  CASE entry.mo = "ignore" -> TRUE
          [] entry.mo = "equal" -> entry.tv[1] = field.value
          [] entry.mo = "match-mapping" -> MappingIndex(entry, field) >= 0
          [] entry.mo = "msb" ->
               entry.fixed /\ msb_comparator(entry.tv[1], field.value, entry.msb)

(* Mutant: without the clear() of st_mo().                                 *)
IndexesKept == ctx.indexMM

(* st_mo() clears what the rule before has left.                           *)
IndexesAtStart == <<>>

(* What st_mo() pushes on its way through the entries.                     *)
Pushed(entries) ==
    LET pushed[i \in 0 .. Len(entries)] ==
          IF i = 0 THEN <<>>
          ELSE IF entries[i].mo = "match-mapping"
            THEN Append(pushed[i - 1],
                        MappingIndex(entries[i], FieldOf(entries[i].fid)))
            ELSE pushed[i - 1]
    IN  pushed[Len(entries)]

(* The entries that take an index of index_MM, each the next.              *)
Indexed(entries) == {i \in DOMAIN entries : entries[i].cda = "mapping-sent"}

(* The bits that the i-th entry sends; garbage is what an element past the *)
(* end of index_MM reads as.                                               *)
Sent(entries, i, garbage) ==
    LET entry == entries[i]
        field == FieldOf(entry.fid)
        next == Cardinality({j \in Indexed(entries) : j <= i})
        index == IF next <= Len(ctx.indexMM) THEN ctx.indexMM[next] ELSE garbage
    IN  CASE entry.cda = "value-sent" -> SubSeq(field.value, 1, field.bit_length)
          [] entry.cda = "mapping-sent" ->
               Bits(index, value_size_in_bits(Len(entry.tv) - 1))
          [] entry.cda = "lsb" ->
               LeastSignificant(field.value, field.bit_length - entry.msb)
          [] OTHER -> <<>>

ReadsPastIndexes(entries) ==
    Cardinality(Indexed(entries)) > Len(ctx.indexMM)

(* More bits matched than the field has: the difference is a huge unsigned *)
(* number of bits, which write_u64() refuses.                              *)
LsbThrows(entries) ==
    \E i \in DOMAIN entries :
      entries[i].cda = "lsb" /\ entries[i].msb > FieldOf(entries[i].fid).bit_length

(* write_bytes_aligned() wants the payload to begin at a byte.             *)
PayloadThrows(rule) ==
    /\ (rule.idLen + Len(ctx.residue)) % 8 # 0
    /\ ctx.raw.size > 48

(* The raw packet, in the order of the wire: its header, and zeros for what *)
(* it carries.                                                             *)
WholePacket(packet) ==
    LET fids == FieldsOf(packet)
        header == FlattenSeq([i \in DOMAIN fids |-> packet.header[OnTheWire(fids[i], TRUE)]])
    IN  header \o Zeros(8 * packet.size - Len(header))

-----------------------------------------------------------------------------
(* The states, as stepFSM() calls them.                                    *)

(* main() has read a packet.                                               *)
PacketArrives(packet) ==
    /\ ~ctx.arrived
    /\ ctx' = [ctx EXCEPT !.arrived = TRUE, !.raw = packet]
    /\ UNCHANGED <<rules, state_>>

Enter(from, to) ==
    /\ state_ = from
    /\ state_' = to
    /\ UNCHANGED rules

st_idle == ctx.arrived /\ Enter("IDLE", "PARSE") /\ UNCHANGED ctx

st_parse ==
    /\ Enter("PARSE", "FIND_RULE")
    /\ ~ParserThrows(ctx.raw)
    /\ ctx' = [ctx EXCEPT !.fields = parse_ipv6_udp_fields(ctx.raw), !.began = ctx.search]

st_find_rule ==
    /\ Candidates # {}
    /\ Enter("FIND_RULE", "MO")
    /\ ctx' = [ctx EXCEPT !.defRule = DefaultFound, !.selected = First(Candidates),
                          !.search = Behind(First(Candidates))]

FindDefaultRule ==
    /\ Candidates = {} /\ DefaultFound # Null
    /\ Enter("FIND_RULE", "NOCOMPRESS")
    /\ ctx' = [ctx EXCEPT !.defRule = DefaultFound, !.selected = DefaultFound]

(* Mutant: the packet is dropped and the state kept.                       *)
FindNoRuleCleared ==
    /\ Candidates = {} /\ DefaultFound = Null
    /\ Enter("FIND_RULE", "FIND_RULE")
    /\ ctx' = [ctx EXCEPT !.selected = Null, !.arrived = FALSE]

(* ERROR 4: the machine stays where it is and the packet stays there.      *)
FindNoRule ==
    /\ Candidates = {} /\ DefaultFound = Null
    /\ Enter("FIND_RULE", "FIND_RULE")
    /\ ctx' = [ctx EXCEPT !.selected = Null]

Selected == rules[ctx.selected]
Mismatches == {i \in DOMAIN Selected.entries : ~Matches(Selected.entries[i])}

st_mo ==
    /\ Enter("MO", "CDA")
    /\ Mismatches = {}
    /\ ctx' = [ctx EXCEPT !.indexMM = IndexesAtStart \o Pushed(Selected.entries)]

MoRejects ==
    /\ state_ = "MO" /\ Mismatches # {}
    /\ Enter("MO", "FIND_RULE")
    /\ ctx' = [ctx EXCEPT
                 !.indexMM = IndexesAtStart
                   \o Pushed(SubSeq(Selected.entries, 1, First(Mismatches) - 1)),
                 !.selected = Null]

(* An element past the end of index_MM reads as any byte.                  *)
st_cda ==
    /\ Enter("CDA", "GEN")
    /\ ~LsbThrows(Selected.entries)
    /\ \E garbage \in IF ReadsPastIndexes(Selected.entries) THEN 0 .. 255 ELSE {0} :
         ctx' = [ctx EXCEPT
                  !.residue = FlattenSeq([i \in DOMAIN Selected.entries |->
                                Sent(Selected.entries, i, garbage)])]

st_gen ==
    /\ Enter("GEN", "IDLE")
    /\ ~PayloadThrows(Selected)
    /\ ctx' = [ctx EXCEPT !.out = [rule |-> Selected.id, residue |-> ctx.residue],
                          !.arrived = FALSE]

(* The id of a rule in freed memory reads as what is left there.           *)
st_nocompress ==
    /\ Enter("NOCOMPRESS", "IDLE")
    /\ \E id \in IF ctx.selected = Dangling THEN {default_ID, 255} ELSE {Selected.id} :
         ctx' = [ctx EXCEPT !.residue = WholePacket(ctx.raw), !.arrived = FALSE,
                           !.out = [rule |-> id, residue |-> WholePacket(ctx.raw)]]

StepPasses ==
    \/ st_idle \/ st_parse \/ st_find_rule \/ FindDefaultRule
    \/ st_mo \/ MoRejects \/ st_cda \/ st_gen \/ st_nocompress

(* An exception that main() does not catch, or a read of freed memory.     *)
StepThrows ==
    \/ state_ = "PARSE" /\ ParserThrows(ctx.raw)
    \/ state_ = "CDA" /\ LsbThrows(Selected.entries)
    \/ state_ = "CDA" /\ ReadsPastIndexes(Selected.entries)
    \/ state_ = "GEN" /\ PayloadThrows(Selected)
    \/ state_ = "NOCOMPRESS" /\ ctx.selected = Dangling

=============================================================================
