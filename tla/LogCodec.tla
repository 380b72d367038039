------------------------------- MODULE LogCodec -------------------------------
(***************************************************************************)
(* What an object is after it was saved and loaded: the encoders and       *)
(* decoders of BLF, ASC and PCAP (src/src/log), and the headers of the     *)
(* Ethernet port (src/src/hw/eth.rs).  A payload is how many bytes it has  *)
(* and how many of them are the original ones, the rest being zero; the    *)
(* bytes of a FlexRay row are kept, for its ASC line is read by counting.  *)
(* A trip is a save and a load in one format; any trips may follow one     *)
(* another (--convert, or a recording made while a recording is replayed). *)
(***************************************************************************)
EXTENDS Integers, Sequences

CONSTANTS
    Absent,       \* Option::None
    Lengths,      \* of CAN payloads, to 64 for CAN FD
    Payloads,     \* of FlexRay rows
    Names,        \* of FlexRay frames: subset of {Absent, "word", "blank", "hex"}
    Vlans, Prios, \* of the VLAN tags: subsets of 0 .. 4095 and 0 .. 7
    MaxTags,      \* VLAN tags on the wire
    UntaggedBlf,  \* may an Ethernet frame without a tag go through a BLF file?
    MaxTrips      \* bound

ASSUME CodecAssumption ==
    /\ Lengths \subseteq 0 .. 64
    /\ \A p \in Payloads : p \in Seq(0 .. 255) /\ Len(p) <= 254
    /\ Names \subseteq {Absent, "word", "blank", "hex"}
    /\ Vlans \subseteq 0 .. 4095 /\ Prios \subseteq 0 .. 7 /\ MaxTags \in Nat
    /\ Absent \notin {"word", "blank", "hex", "c", "s"} \cup Nat

VARIABLES object,  \* what the program holds
          file,    \* the one written of it: its format and record
          first,   \* history: the object before any trip
          via      \* history: the formats it went through

codecVars == <<object, file, first, via>>

-----------------------------------------------------------------------------
\* can/frame.rs
Dlc2Len(code) == IF code <= 8 THEN code
                 ELSE IF code <= 12 THEN 4 * (code - 6)
                 ELSE IF code <= 15 THEN 16 * (code - 11) ELSE 64
Len2Dlc(len) == CHOOSE code \in 0 .. 15 :
                    Dlc2Len(code) >= len /\ \A less \in 0 .. code - 1 : Dlc2Len(less) < len
Least(a, b) == IF a < b THEN a ELSE b
Greatest(a, b) == IF a > b THEN a ELSE b

\* The frames the drivers, the senders and the readers make (CanFrame).
CanFrames ==
    LET frame(class, len, ext, dir, brs, esi) ==
            [kind |-> "can", class |-> class, channel |-> 1, ext |-> ext, len |-> len,
             bytes |-> IF class = "remote" THEN 0 ELSE len, dir |-> dir, brs |-> brs, esi |-> esi]
    IN  {frame("error", 0, FALSE, dir, FALSE, FALSE) : dir \in {"Rx", "Tx"}}
        \cup {frame(class, len, ext, dir, FALSE, FALSE) :
                class \in {"data", "remote"}, len \in Lengths \cap 0 .. 8, ext \in BOOLEAN, dir \in {"Rx", "Tx"}}
        \cup {frame("fd", len, ext, "Rx", brs, esi) :
                len \in Lengths, ext \in BOOLEAN, brs \in BOOLEAN, esi \in BOOLEAN}

FrRows == {[kind |-> "fr", bus |-> bus, ab |-> ab, crc |-> crc, payload |-> payload, name |-> name] :
             bus \in {0, 1}, ab \in 0 .. 2, crc \in {0, 5}, name \in Names,
             payload \in Payloads}

\* EthFrame: of a session, or off the wire.
Session(vlan) == [kind |-> "eth", bus |-> 1, dir |-> "Tx", vlan |-> vlan, tpid |-> Absent, cut |-> FALSE]

\* VLAN tags on the wire, the outermost first; a TCI holds the priority too.
Tci(tag) == tag.id + 4096 * tag.prio
Tags == UNION {[1 .. n -> [tpid : {"c", "s"}, id : Vlans, prio : Prios]] : n \in 0 .. MaxTags}

\* frame_from_l2 (hw/eth.rs) and decode_ethernet_ex (blf.rs): the last tag as it
\* stands.  ethernet_frame (pcap.rs): the first, without its priority.
LastTag(tags) == IF tags = <<>> THEN [tpid |-> Absent, vlan |-> Absent]
                 ELSE [tpid |-> tags[Len(tags)].tpid, vlan |-> Tci(tags[Len(tags)])]
FirstTag(tags) == IF tags = <<>> THEN [tpid |-> Absent, vlan |-> Absent]
                  ELSE [tpid |-> tags[1].tpid, vlan |-> tags[1].id]

Captured(tags) == [kind |-> "eth", bus |-> 1, dir |-> "Rx", vlan |-> LastTag(tags).vlan,
                   tpid |-> LastTag(tags).tpid, cut |-> FALSE]
FromPcap(tags, cut) == [kind |-> "eth", bus |-> 0, dir |-> "Rx", vlan |-> FirstTag(tags).vlan,
                        tpid |-> FirstTag(tags).tpid, cut |-> cut]

Objects == CanFrames \cup FrRows
           \cup {Session(vlan) : vlan \in {Absent} \cup Vlans}
           \cup {Captured(tags) : tags \in Tags}
           \cup {FromPcap(tags, cut) : tags \in Tags, cut \in BOOLEAN}

-----------------------------------------------------------------------------
\* BLF: error_ext_event, fd64_event, classic_event; fr_rcv_event; ethernet_event.
\* Mutant: the data length is the DLC code.
CanToBlfByCode(f) ==
    CASE f.class = "error" -> [obj |-> "error", channel |-> f.channel + 1]
      [] f.class = "fd" -> [obj |-> "fd64", channel |-> f.channel + 1, valid |-> Len2Dlc(f.len),
                            ext |-> f.ext, dir |-> f.dir, brs |-> f.brs, esi |-> f.esi, bytes |-> f.bytes]
      [] OTHER -> [obj |-> "can", channel |-> f.channel + 1, remote |-> f.class = "remote",
                   dlc |-> f.len, ext |-> f.ext, dir |-> f.dir, bytes |-> Least(f.bytes, 8)]
CanToBlf(f) ==
    CASE f.class = "error" -> [obj |-> "error", channel |-> f.channel + 1]
      [] f.class = "fd" -> [obj |-> "fd64", channel |-> f.channel + 1, valid |-> f.len, ext |-> f.ext,
                            dir |-> f.dir, brs |-> f.brs, esi |-> f.esi, bytes |-> f.bytes]
      [] OTHER -> [obj |-> "can", channel |-> f.channel + 1, remote |-> f.class = "remote",
                   dlc |-> f.len, ext |-> f.ext, dir |-> f.dir, bytes |-> Least(f.bytes, 8)]
FrToBlf(r) == [obj |-> "fr", cluster |-> r.bus, mask |-> r.ab + 1, crc |-> r.crc, payload |-> r.payload]
EthToBlf(f) == [obj |-> "eth", channel |-> f.bus, dir |-> IF f.dir = "Tx" THEN 1 ELSE 0,
                tpid |-> IF f.tpid = Absent THEN "c" ELSE f.tpid,
                tci |-> IF f.vlan = Absent THEN 0 ELSE f.vlan]

\* decode_error_ext, decode_fd_message_64, decode_can_msg; decode_fr_rcv;
\* decode_ethernet.
CanFromBlf(o) ==
    LET len == CASE o.obj = "error" -> 0
                 [] o.obj = "fd64" -> Least(o.valid, 64)
                 [] OTHER -> IF o.remote THEN Dlc2Len(o.dlc % 16) ELSE Least(o.dlc, 8)
    IN  [kind |-> "can", channel |-> o.channel - 1, len |-> len,
         class |-> CASE o.obj = "error" -> "error" [] o.obj = "fd64" -> "fd"
                     [] OTHER -> IF o.remote THEN "remote" ELSE "data",
         bytes |-> IF o.obj = "error" \/ (o.obj = "can" /\ o.remote) THEN 0 ELSE Least(len, o.bytes),
         ext |-> IF o.obj = "error" THEN FALSE ELSE o.ext,
         dir |-> IF o.obj = "error" THEN "Rx" ELSE o.dir,
         brs |-> o.obj = "fd64" /\ o.brs, esi |-> o.obj = "fd64" /\ o.esi]
FrFromBlf(o) == [kind |-> "fr", bus |-> o.cluster, crc |-> o.crc, payload |-> o.payload, name |-> Absent,
                 ab |-> CASE o.mask = 1 -> 0 [] o.mask = 2 -> 1 [] OTHER -> 2]
EthFromBlf(o) == [kind |-> "eth", bus |-> o.channel, dir |-> IF o.dir \in {1, 2} THEN "Tx" ELSE "Rx",
                  vlan |-> o.tci, tpid |-> o.tpid, cut |-> FALSE] \* no writer leaves the TPID out

\* ASC: AscWriter::write and parse_classic, parse_fd.
CanToAsc(f) == [channel |-> f.channel + 1, class |-> f.class, ext |-> f.ext, dir |-> f.dir, brs |-> f.brs,
                esi |-> f.esi, code |-> IF f.class = "error" THEN 0 ELSE Len2Dlc(f.len), len |-> f.len, bytes |-> f.len]
CanFromAsc(l) ==
    LET len == CASE l.class = "error" -> 0
                 [] l.class = "fd" -> Least(Greatest(Dlc2Len(l.code), l.len), 64)
                 [] OTHER -> Dlc2Len(l.code)
    IN  [kind |-> "can", class |-> l.class, channel |-> l.channel - 1, ext |-> l.ext, len |-> len,
         dir |-> l.dir, brs |-> l.class = "fd" /\ l.brs, esi |-> l.class = "fd" /\ l.esi,
         bytes |-> IF l.class \in {"error", "remote"} THEN 0 ELSE Least(len, l.bytes)]

\* AscWriter::write_fr: the tokens after the direction, numbers in hex.  A name
\* with blanks is left out; one of two hex digits reads as a number.
Num(n) == [num |-> n, word |-> Absent]
Word(w) == [num |-> IF w = "hex" THEN 171 ELSE -1, word |-> w]
FrToAsc(r) == [a |-> r.ab # 1, b |-> r.ab # 0,
               rest |-> (IF r.name \in {Absent, "blank"} THEN <<>> ELSE <<Word(r.name)>>)
                        \o <<Num(Len(r.payload)), Num(Len(r.payload))>>
                        \o [i \in DOMAIN r.payload |-> Num(r.payload[i])]]

\* parse_fr_rmsg: the first two numbers with that many bytes behind them.
FrFromAsc(l) ==
    LET counts == {j \in 1 .. Len(l.rest) - 1 :
                     /\ l.rest[j].num \in 0 .. 254 /\ l.rest[j + 1].num \in 0 .. 254
                     /\ Len(l.rest) >= j + 1 + l.rest[j + 1].num
                     /\ (l.rest[j + 1].num = 0) => (l.rest[j].num = 0)
                     /\ \A i \in j + 2 .. j + 1 + l.rest[j + 1].num : l.rest[i].num \in 0 .. 255}
        at == CHOOSE j \in counts : \A i \in counts : j <= i
        len == Least(l.rest[at].num, l.rest[at + 1].num)
        words == {i \in 1 .. at - 1 : l.rest[i].word # Absent}
    IN  [kind |-> "fr", bus |-> 0, crc |-> 0, payload |-> [i \in 1 .. len |-> l.rest[at + 1 + i].num],
         ab |-> IF l.a /\ l.b THEN 2 ELSE IF l.b THEN 1 ELSE 0,
         name |-> IF words = {} THEN Absent
                  ELSE l.rest[CHOOSE i \in words : \A j \in words : i <= j].word]

\* PCAP: eth_l2_bytes and ethernet_frame.
EthToPcap(f) == IF f.vlan = Absent THEN <<>>
                ELSE <<[tpid |-> IF f.tpid = Absent THEN "c" ELSE f.tpid,
                        id |-> f.vlan % 4096, prio |-> f.vlan \div 4096]>>
EthFromPcap(tags) == FromPcap(tags, FALSE)

-----------------------------------------------------------------------------
TakenBy(fmt) == CASE fmt = "blf" -> {"can", "fr", "eth"} [] fmt = "asc" -> {"can", "fr"} [] fmt = "pcap" -> {"eth"}

Saved(fmt, o) == CASE fmt = "pcap" -> EthToPcap(o)
                   [] fmt = "asc" -> IF o.kind = "can" THEN CanToAsc(o) ELSE FrToAsc(o)
                   [] OTHER -> IF o.kind = "can" THEN CanToBlf(o) ELSE IF o.kind = "fr" THEN FrToBlf(o) ELSE EthToBlf(o)
Loaded(fmt, kind, r) ==
    CASE fmt = "pcap" -> EthFromPcap(r)
      [] fmt = "asc" -> IF kind = "can" THEN CanFromAsc(r) ELSE FrFromAsc(r)
      [] OTHER -> IF kind = "can" THEN CanFromBlf(r) ELSE IF kind = "fr" THEN FrFromBlf(r) ELSE EthFromBlf(r)

CodecInit == object \in Objects /\ file = Absent /\ first = object /\ via = <<>>

Save(fmt) ==
    /\ file = Absent /\ Len(via) < MaxTrips
    /\ object.kind \in TakenBy(fmt)
    /\ (fmt = "blf" /\ object.kind = "eth" /\ object.vlan = Absent) => UntaggedBlf
    /\ file' = [fmt |-> fmt, kind |-> object.kind, rec |-> Saved(fmt, object)]
    /\ UNCHANGED <<object, first, via>>
Load ==
    /\ file # Absent
    /\ object' = Loaded(file.fmt, file.kind, file.rec)
    /\ via' = Append(via, file.fmt)
    /\ file' = Absent
    /\ UNCHANGED first

CodecNext == Load \/ \E fmt \in {"blf", "asc", "pcap"} : Save(fmt)

CodecSpec == CodecInit /\ [][CodecNext]_codecVars

-----------------------------------------------------------------------------
\* The fields a format has a place for.
Carried(fmt, o) ==
    CASE o.kind = "can" -> {"class", "channel", "ext", "len", "bytes", "brs", "esi"}
                           \cup (IF fmt = "blf" /\ o.class = "error" THEN {} ELSE {"dir"})
      [] o.kind = "fr" -> {"ab", "payload"}
                          \cup (IF fmt = "blf" THEN {"bus", "crc"}
                                ELSE IF o.name = "blank" THEN {} ELSE {"name"})
      [] OTHER -> {"vlan"} \cup (IF o.tpid = Absent THEN {} ELSE {"tpid"})
                  \cup (IF fmt = "blf" THEN {"bus", "dir"} ELSE {})

\* An object that went through any formats one after another is the one it was,
\* in every field that all of them have a place for (README.md, "the same
\* frames"); and a format it has been through takes nothing more of it.
SurvivesTrips ==
    /\ \A field \in {f \in DOMAIN first : \A i \in DOMAIN via : f \in Carried(via[i], first)} :
         object[field] = first[field]
    /\ \A i \in DOMAIN via : object.kind \in TakenBy(via[i]) =>
         LET again == Loaded(via[i], object.kind, Saved(via[i], object)) IN
         \A field \in Carried(via[i], object) : again[field] = object[field]

\* The same packet is the same frame whether it came over the port, from a PCAP
\* or out of a BLF, as far as a flow is told by it (EthFlow: the VLAN).
SameFlowEverywhere == \A tags \in Tags : LastTag(tags) = FirstTag(tags)

\* Any trips through log files leave of an object what they can.
ObjectsSurvive == SurvivesTrips /\ SameFlowEverywhere
=============================================================================
