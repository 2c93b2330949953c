--------------------------- MODULE IpReassembler ---------------------------
(***************************************************************************)
(* Fragmentation and reassembly of IPv4 datagrams at a subnet gateway,     *)
(* gateway/ip_reassembler.rs.  compose_ipv4_packet cuts a datagram into    *)
(* fragments in the buffer that holds it: the header of each fragment is   *)
(* written over the end of the one before.  IpReassembler collects the     *)
(* fragments of a datagram, which come in any order, again, or not at all. *)
(*                                                                         *)
(* A datagram is the sequence 1 .. payload_len, so that a cell that is     *)
(* lost, moved or overwritten shows; a header is HeaderLen cells.  One     *)
(* datagram is followed: packets of different identifications share        *)
(* nothing, and identifications are not reused within the timeout.         *)
(***************************************************************************)
EXTENDS Naturals, Sequences, FiniteSets, SequencesExt

CONSTANTS MaxPayload,   \* bound on payload_len
          HeaderLen,    \* 20 bytes
          Unit,         \* of the fragment offset field, 8 bytes
          PayloadMtu    \* a multiple of it, 1280 bytes

ASSUME FragAssumption == PayloadMtu % Unit = 0

VARIABLES payload_len,
          buf,               \* of compose_ipv4_packet
          fragment_offset,   \* local of compose_ipv4_packet
          wire,              \* fragments sent
          packet,            \* IpPacket: [total_length, fragments]
          assembled          \* results of add_fragment

fragVars == <<payload_len, buf, fragment_offset, wire, packet, assembled>>

Unknown == 0   \* total_length: None
NoPacket == [total_length |-> Unknown, fragments |-> <<>>]
Datagram == [i \in 1 .. payload_len |-> i]

FragInit ==
    /\ payload_len \in 1 .. MaxPayload
    /\ buf = [i \in 1 .. HeaderLen + payload_len |-> IF i <= HeaderLen THEN 0 ELSE i - HeaderLen]
    /\ fragment_offset = 0
    /\ wire = {}
    /\ packet = NoPacket
    /\ assembled = {}

-----------------------------------------------------------------------------
(* What is sent after the header at the offset from of the buffer.         *)
PayloadOf(b, from, len) == SubSeq(b, from + HeaderLen + 1, from + HeaderLen + len)

(* An iteration of compose_ipv4_packet: the header is written in place and *)
(* the slice sent.  A datagram of one piece is no fragment.                *)
ComposeFragment ==
    LET next == Min({fragment_offset + PayloadMtu, payload_len})
        len == next - fragment_offset
        written == [i \in DOMAIN buf |->
                       IF i \in fragment_offset + 1 .. fragment_offset + HeaderLen THEN 0 ELSE buf[i]]
    IN  /\ fragment_offset < payload_len
        /\ buf' = written
        /\ wire' = wire \cup {[offset |-> fragment_offset \div Unit,
                               more_fragments |-> next # payload_len,
                               payload |-> PayloadOf(written, fragment_offset, len)]}
        /\ fragment_offset' = next
        /\ UNCHANGED <<payload_len, packet, assembled>>

IsPacketFragmented(p) == p.offset # 0 \/ p.more_fragments

(* Mutant: fragments are never dropped.                                    *)
OverlapsNone(f, g) == FALSE

(* IpPacket::add_fragment: the two overlaps that make it drop a fragment.  *)
Overlaps(f, g) ==
    \/ f.offset <= g.offset /\ g.offset < f.offset + Len(f.data)
    \/ g.offset <= f.offset /\ f.offset < g.offset + Len(g.data)

WithFragment(fragments, g) ==
    IF \E f \in Range(fragments) : Overlaps(f, g) THEN fragments ELSE Append(fragments, g)

IsComplete(p) ==
    /\ p.total_length # Unknown
    /\ p.total_length = FoldLeft(LAMBDA sum, f : sum + Len(f.data), 0, p.fragments)

(* The fragments copied to their offsets in a packet of zeros.             *)
Assemble(p) ==
    [i \in 1 .. p.total_length |->
        LET at == {f \in Range(p.fragments) : i \in f.offset + 1 .. f.offset + Len(f.data)}
        IN  IF at = {} THEN 0 ELSE LET f == CHOOSE f \in at : TRUE IN f.data[i - f.offset]]

(* What is left of a packet after a fragment.                              *)
PacketAfter(p) == IF IsComplete(p) THEN NoPacket ELSE p

(* add_fragment, for a fragment that arrives, perhaps not the first time.  *)
AddFragment(p) ==
    LET fragment == [offset |-> p.offset * Unit, data |-> p.payload]
        added == [total_length |-> IF p.more_fragments THEN packet.total_length
                                   ELSE Len(p.payload) + fragment.offset,
                  fragments |-> WithFragment(packet.fragments, fragment)]
    IN  /\ p \in wire /\ IsPacketFragmented(p)
        /\ packet' = PacketAfter(added)
        /\ assembled' = IF IsComplete(added) THEN assembled \cup {Assemble(added)} ELSE assembled
        /\ UNCHANGED <<payload_len, buf, fragment_offset, wire>>

(* A datagram of one piece reaches the proxy as it is.                     *)
ReceiveWhole(p) ==
    /\ p \in wire /\ ~IsPacketFragmented(p)
    /\ assembled' = assembled \cup {p.payload}
    /\ UNCHANGED <<payload_len, buf, fragment_offset, wire, packet>>

(* remove_expired_packets, for a packet without a fragment for 10 s.       *)
RemoveExpired ==
    /\ packet # NoPacket
    /\ packet' = NoPacket
    /\ UNCHANGED <<payload_len, buf, fragment_offset, wire, assembled>>

FragNext ==
    \/ ComposeFragment \/ RemoveExpired
    \/ \E p \in wire : AddFragment(p) \/ ReceiveWhole(p)

FragSpec == FragInit /\ [][FragNext]_fragVars

-----------------------------------------------------------------------------
(* Whatever order fragments come in, and however often, and whatever the   *)
(* timeout discards: what is handed on is the datagram, cell by cell, so   *)
(* neither the in-place headers of compose_ipv4_packet nor reassembly      *)
(* damage it.                                                              *)
AssembledIntact == assembled \subseteq {Datagram}
=============================================================================
