----------------------------- MODULE FramePath -----------------------------
(***************************************************************************)
(* The first frame of an AF_XDP run, from the launch (Launch) through the  *)
(* ARP lookup and write_frame (xdp/frame.rs, with SimdCopy for the         *)
(* payload) to the XDP program (ebpf/runperf_xdp.c) and the header the     *)
(* sink reads (xdp/sink.rs).  The program also meets frames of other       *)
(* hosts.  A frame is the fields the two receivers look at.                *)
(***************************************************************************)
EXTENDS Launch, SimdCopy

CONSTANTS
    FrameSize,      \* FRAME_SIZE: bytes of a UMEM frame
    AddressWords,   \* 16-bit halves of IPv4 addresses
    ForeignLens     \* lengths of frames of other hosts

ASSUME FrameAssumption ==
    /\ FrameSize \in Nat /\ FrameSize < 65536
    /\ AddressWords \subseteq Nat /\ \A w \in AddressWords : w < 65536
    /\ ForeignLens \subseteq Nat

VARIABLES
    arp, lookups,   \* the entry in /proc/net/arp, lookups of this loop without an answer
    frame           \* on its way; NoFrame before

netVars == <<arp, lookups, frame>>
pathVars == <<pc, job, copyVars, netVars>>

ETH_HDR == 14
IPV4_HDR == 20
IPV6_HDR == 40
UDP_HDR == 8
OUTER_HDR == ETH_HDR + IPV4_HDR + UDP_HDR

U16 == 65536   \* where a 16-bit field wraps

NoFrame == [own |-> FALSE, etype |-> "none", proto |-> 0, ihl |-> 0, total |-> 0,
            udpLen |-> 0, words |-> << >>]

PathInit ==
    /\ LaunchInit /\ CopyInit
    /\ arp \in {"absent", "incomplete", "complete"} /\ lookups = 0
    /\ frame = NoFrame

-----------------------------------------------------------------------------
(* Addresses.                                                               *)

\* No such interface, or one without an IPv4 or a MAC address.
NoAddress ==
    /\ pc = "resolve" /\ lookups = 0
    /\ pc' = "error"
    /\ UNCHANGED <<job, copyVars, netVars>>

Lookup(give_up) ==
    /\ pc = "resolve"
    /\ lookups' = IF arp = "complete" THEN 0 ELSE lookups + 1
    /\ pc' = IF arp = "complete" THEN "queues" ELSE IF give_up THEN "error" ELSE "resolve"
    /\ UNCHANGED <<job, copyVars, arp, frame>>

\* A slip: the last of the five sleeps is not followed by a lookup.
ResolveServerMacSlip == Lookup(lookups = 4)

\* resolve_server_mac: one lookup, then five more with 60 ms before each.
ResolveServerMac == Lookup(lookups = 5)

\* Other traffic, or the neighbour itself, changes the entry.
ArpChanges ==
    /\ pc = "resolve"
    /\ arp' \in {"absent", "incomplete", "complete"} \ {arp}
    /\ UNCHANGED <<pc, job, copyVars, lookups, frame>>

-----------------------------------------------------------------------------
(* The frame.                                                               *)

\* The ten words of a header without options.
SumWords(w) == w[1] + w[2] + w[3] + w[4] + w[5] + w[6] + w[7] + w[8] + w[9] + w[10]

\* Ends when nothing is carried: two rounds, for at most 2^16 words.
Fold16(sum) == (sum % U16) + (sum \div U16)

\* A slip: the carry of the first round is not folded in.
Ipv4ChecksumSlip(words) == 65535 - (Fold16(SumWords(words)) % U16)

Ipv4Checksum(words) == 65535 - Fold16(Fold16(SumWords(words)))

\* The words of the IPv4 header; the template has no length and no checksum.
Ipv4Words(ip_tot, cksum, a) ==
    <<17664, ip_tot, 0, 16384, 64 * 256 + 17, cksum, a[1], a[2], a[3], a[4]>>

StampedWords(ip_tot, addresses) ==
    Ipv4Words(ip_tot, Ipv4Checksum(Ipv4Words(ip_tot, 0, addresses)), addresses)

PayloadLen == Larger(job.len, HDR)

\* The header is complete; whether payload and all fit in the UMEM frame is
\* what the slice the payload is copied to checks.
WriteHeaderIf(fits) == \E addresses \in [1..4 -> AddressWords], l \in Levels :
    LET total == OUTER_HDR + PayloadLen
        udp_len == (UDP_HDR + PayloadLen) % U16
    IN  /\ pc = "running" /\ job.engine = "xdp_client"
        /\ frame' = [own |-> TRUE, etype |-> "ipv4", proto |-> 17, ihl |-> 5, total |-> total,
                     udpLen |-> udp_len,
                     words |-> StampedWords((IPV4_HDR + udp_len) % U16, addresses)]
        /\ IF fits THEN pc' = "copy" /\ CopyStart(PayloadLen, l)
                   ELSE pc' = "abort" /\ UNCHANGED copyVars
        /\ UNCHANGED <<job, arp, lookups>>

WriteHeaderSlip == WriteHeaderIf(TRUE)

WriteHeader == WriteHeaderIf(OUTER_HDR + PayloadLen <= FrameSize)

CopyPayload == pc = "copy" /\ CopyStep /\ UNCHANGED <<pc, job, netVars>>

FrameWritten ==
    /\ pc = "copy" /\ cpc = "done"
    /\ pc' = "wire"
    /\ UNCHANGED <<job, copyVars, netVars>>

\* The sink's NIC receives a frame of another host.
ForeignFrame ==
    /\ pc = "running" /\ job.engine = "xdp_sink"
    /\ \E etype \in {"ipv4", "ipv6", "vlan"}, proto \in {6, 17}, ihl \in {5, 6}, total \in ForeignLens :
         frame' = [NoFrame EXCEPT !.etype = etype, !.proto = proto, !.ihl = ihl, !.total = total]
    /\ pc' = "wire"
    /\ UNCHANGED <<job, copyVars, arp, lookups>>

-----------------------------------------------------------------------------
(* The XDP program and the sink.                                            *)

Has(f, n) == f.total >= n

\* A slip: options are not looked for.
RedirectsSlip(f) ==
    \/ f.etype = "ipv4" /\ f.proto = 17 /\ Has(f, ETH_HDR + IPV4_HDR + UDP_HDR)
    \/ f.etype = "ipv6" /\ f.proto = 17 /\ Has(f, ETH_HDR + IPV6_HDR + UDP_HDR)

\* dns_xdp_client: the checks in their order, each before the bytes it reads.
Redirects(f) ==
    /\ Has(f, ETH_HDR)
    /\ \/ /\ f.etype = "ipv4" /\ Has(f, ETH_HDR + IPV4_HDR)
          /\ f.proto = 17 /\ f.ihl = 5
          /\ Has(f, ETH_HDR + IPV4_HDR + UDP_HDR)
       \/ /\ f.etype = "ipv6" /\ Has(f, ETH_HDR + IPV6_HDR)
          /\ f.proto = 17
          /\ Has(f, ETH_HDR + IPV6_HDR + UDP_HDR)

\* A queue without a socket in XSKS passes what it is asked to redirect.
XdpProgram ==
    /\ pc = "wire"
    /\ \E slot \in BOOLEAN : pc' = IF Redirects(frame) /\ slot THEN "redirected" ELSE "passed"
    /\ UNCHANGED <<job, copyVars, netVars>>

HDRSSlip == OUTER_HDR + 4

\* Where rx_loop looks for the stream header.
HDRS == OUTER_HDR

RxLoop ==
    /\ pc = "redirected"
    /\ pc' = IF Has(frame, HDRS + 16) THEN "parsed" ELSE "counted"
    /\ UNCHANGED <<job, copyVars, netVars>>

Ended ==
    /\ \/ pc \in {"usage", "version", "error", "refused", "panic", "abort", "passed", "parsed", "counted"}
       \/ pc = "running" /\ job.engine \in {"udp_server", "tcp_server", "udp_client", "tcp_client"}
    /\ UNCHANGED pathVars

PathNext ==
    \/ LaunchNext /\ UNCHANGED <<copyVars, netVars>>
    \/ NoAddress \/ ResolveServerMac \/ ArpChanges \/ WriteHeader \/ CopyPayload \/ FrameWritten
    \/ ForeignFrame \/ XdpProgram \/ RxLoop \/ Ended

PathSpec == PathInit /\ [][PathNext]_pathVars

-----------------------------------------------------------------------------
\* Where the payload of frame f really starts.
PayloadAt(f) == ETH_HDR + UDP_HDR + IF f.etype = "ipv4" THEN 4 * f.ihl ELSE IPV6_HDR

\* A frame that has been written lies within its UMEM frame, and the 16-bit
\* length fields of both headers say what it carries: no --len makes them wrap
\* (frame.rs:55-75 with gen.rs:39, 95).
LengthsTrue ==
    pc \in {"copy", "wire"} /\ frame.own =>
        /\ frame.total <= FrameSize
        /\ frame.udpLen = UDP_HDR + length
        /\ frame.words[2] = IPV4_HDR + UDP_HDR + length

\* The header checksum of every frame written verifies: the words, checksum
\* included, add up to 65535 when all carries are folded in, for every length and
\* every address (frame.rs:62-70, 79-86).
ChecksumVerifies == frame.own => Fold16(Fold16(SumWords(frame.words))) = 65535

\* A frame of the generator is one the XDP program of the sink redirects, and
\* the sink finds the stream header where the generator put it (gen.rs:95,
\* runperf_xdp.c:33-58, sink.rs:88-90).
OwnFramesParsed ==
    frame.own /\ pc \in {"wire", "passed", "redirected", "parsed", "counted"} =>
        Redirects(frame) /\ PayloadAt(frame) = HDRS /\ pc # "counted"

\* Only frames with a whole UDP header are redirected.  All UDP is, so the sink
\* also reads a stream header out of frames that have none: at the payload of
\* an IPv4 frame, inside the headers of an IPv6 frame (sink.rs:88-97).
RedirectedIsUdp ==
    pc \in {"redirected", "parsed"} =>
        /\ frame.proto = 17 /\ PayloadAt(frame) <= frame.total
        /\ PayloadAt(frame) # HDRS <=> frame.etype = "ipv6"

\* An answer that is in the table after the last of the five sleeps, however
\* late, is used: the run is given up only after six lookups without one
\* (frame.rs:116-124).
GivesUpLate ==
    [][pc = "resolve" /\ pc' = "error" => lookups = 0 \/ (lookups' = 6 /\ arp # "complete")]_pathVars
=============================================================================
