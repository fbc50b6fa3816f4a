------------------------- MODULE MCCompressionTest -------------------------
(***************************************************************************)
(* Rules and packets for TLC: rules that differ in operators, actions,     *)
(* directions and what of a packet they match, and packets that fit none,  *)
(* the first or a later one of them.                                       *)
(***************************************************************************)
EXTENDS CompressionTest

B(n, w) == [i \in 1 .. w |-> (n \div 2^(w - i)) % 2]
Z(w) == [i \in 1 .. w |-> 0]

Header(tclass, flow, hops, port) ==
    [fid \in {<<"version", "ip">>, <<"trafficclass", "ip">>, <<"flowlabel", "ip">>,
              <<"length", "ip">>, <<"nextheader", "ip">>, <<"hoplimit", "ip">>,
              <<"prefix", "source">>, <<"iid", "source">>,
              <<"prefix", "destination">>, <<"iid", "destination">>,
              <<"port", "source">>, <<"port", "destination">>,
              <<"length", "udp">>, <<"checksum", "udp">>} |->
       CASE fid[1] = "version" -> B(6, 4)
         [] fid[1] = "trafficclass" -> B(tclass, 8)
         [] fid[1] = "flowlabel" -> B(flow, 20)
         [] fid[1] = "nextheader" -> B(17, 8)
         [] fid[1] = "hoplimit" -> B(hops, 8)
         [] fid = <<"port", "destination">> -> B(port, 16)
         [] fid[1] \in {"prefix", "iid"} -> Z(64)
         [] OTHER -> B(5683, 16)]

Packet(header, udp, size) == [header |-> header, udp |-> udp, size |-> size]

SomePackets ==
    { Packet(Header(149, 5, 64, 5683), TRUE, 48),
      Packet(Header(149, 5, 255, 5684), TRUE, 49),
      Packet(Header(150, 9, 64, 5683), FALSE, 48),
      Packet(Header(149, 5, 64, 5683), TRUE, 44) }

Entry(fid, di, mo, msb, cda, tv) ==
    [fid |-> fid, di |-> di, fixed |-> TRUE, mo |-> mo, msb |-> msb, cda |-> cda, tv |-> tv]

Rule(id, idLen, entries) ==
    [id |-> id, idLen |-> idLen, nature |-> "compression", entries |-> entries]

Default == [id |-> 0, idLen |-> 0, nature |-> "no-compression", entries |-> <<>>]

Hops == <<"hoplimit", "ip">>
TClass == <<"trafficclass", "ip">>
DevPort == <<"port", "dev">>
Flow == <<"flowlabel", "ip">>

(* Hop limits by index, and a port that only some packets have.            *)
ByIndex ==
    Rule(1, 8, << Entry(Hops, "bi", "match-mapping", 0, "mapping-sent", <<B(1, 8), B(64, 8), B(255, 8)>>),
                  Entry(DevPort, "bi", "equal", 0, "not-sent", <<B(5683, 16)>>) >>)
(* The hop limits in another order, and the low bits of the traffic class. *)
OtherIndex ==
    Rule(2, 8, << Entry(Hops, "up", "match-mapping", 0, "mapping-sent", <<B(255, 8), B(64, 8)>>),
                  Entry(TClass, "bi", "msb", 1, "lsb", <<B(128, 8)>>),
                  Entry(DevPort, "bi", "ignore", 0, "value-sent", <<B(0, 16)>>),
                  Entry(<<"length", "udp">>, "bi", "ignore", 0, "compute", <<B(0, 8)>>) >>)
(* An index that is pushed for a field sent as it is, and then another.    *)
OutOfStep ==
    Rule(3, 8, << Entry(TClass, "bi", "match-mapping", 0, "value-sent", <<B(149, 8), B(150, 8)>>),
                  Entry(Hops, "bi", "match-mapping", 0, "mapping-sent", <<B(255, 8), B(64, 8)>>) >>)
(* An index sent that was never looked up, and more matched than there is. *)
NoIndex == Rule(4, 8, << Entry(Hops, "bi", "ignore", 0, "mapping-sent", <<B(1, 8), B(2, 8)>>) >>)
TooWide == Rule(5, 8, << Entry(Flow, "bi", "msb", 24, "lsb", <<Z(4) \o B(5, 20)>>) >>)
Downlink == Rule(6, 8, << Entry(Hops, "down", "ignore", 0, "not-sent", <<B(64, 8)>>) >>)
SameId == [ByIndex EXCEPT !.idLen = 7]

SomeNewRules == {OtherIndex, OutOfStep, NoIndex, TooWide, SameId, ByIndex}
SomeFiles == {<<Default, ByIndex>>, <<ByIndex, Downlink>>}

=============================================================================
