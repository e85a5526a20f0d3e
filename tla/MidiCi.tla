------------------------------- MODULE MidiCi -------------------------------
(* The messages of MIDI-CI, as the headers write them into a buffer           *)
(* (cmidi2.hpp): discovery, protocols, profiles, properties and inquiries.    *)
(* A request names the function and its arguments: `to` the device, `version`, *)
(* `from` and `dest` the MUIDs, four bytes, and what is its own. A number of  *)
(* more than one byte is its bytes, the low one first.                       *)
EXTENDS Integers, SequencesExt

CONSTANT Inquiries   \* what is written

VARIABLE written_ci  \* the last inquiry and its bytes, or none yet

Nothing == [does |-> "nothing"]
Everyone == <<127, 127, 127, 127>>
WholeBlock == 127

\* CMIDI2_CI_SUB_ID_2_...: a refusal has the number of an acknowledgement.
SubId ==
  [discovery |-> 112, discovery_reply |-> 113, invalidate_muid |-> 126, ack |-> 127, nak |-> 127,
   negotiation |-> 16, negotiation_reply |-> 17, protocol_set |-> 18, test_i2r |-> 19, test_r2i |-> 20, confirm |-> 21,
   profile_inquiry |-> 32, profile_inquiry_reply |-> 33, profile_on |-> 34, profile_off |-> 35,
   profile_enabled |-> 36, profile_disabled |-> 37, profile_data |-> 47,
   property_capabilities |-> 48, property_capabilities_reply |-> 49, has_data |-> 50, get_data |-> 52, get_data_reply |-> 53,
   set_data |-> 54, set_data_reply |-> 55, subscribe |-> 56, subscribe_reply |-> 57, notify |-> 63,
   process_capabilities |-> 64, process_capabilities_reply |-> 65, midi_report |-> 66, midi_report_reply |-> 67,
   midi_report_end |-> 68]

\* cmidi2_ci_direct_uint16_at()
Direct16(v) == <<v % 256, (v \div 256) % 256>>
\* cmidi2_ci_7bit_int14_at(), _int21_at() and _int28_at()
SevenBits(v, n) == [i \in 1..n |-> (v \div 128 ^ (i - 1)) % 128]
Common(to, sub, version, from, dest) == <<126, to, 13, sub, version>> \o from \o dest

Discovery(q) ==
  Common(WholeBlock, SubId[q.does], q.version, q.from, IF q.does = "discovery" THEN Everyone ELSE q.dest)
    \o q.manufacturer \o Direct16(q.family) \o Direct16(q.model) \o q.revision \o <<q.categories>> \o q.largest \o <<q.path>>
    \o (IF q.does = "discovery" THEN <<>> ELSE <<q.block>>)
InvalidateMuid(q) == Common(WholeBlock, SubId[q.does], q.version, q.from, Everyone) \o q.target
AckNak(q) ==
  Common(q.to, SubId["ack"], q.version, q.from, q.dest) \o <<q.class, q.status, q.data>> \o q.details \o Direct16(Len(q.text)) \o q.text

-----------------------------------------------------------------------------
(* Protocols and profiles, each of five bytes. *)

\* Mutated form of Listed: the number of them is not written.
ListedPlain(infos) == FlattenSeq(infos)

\* cmidi2_ci_protocols(), and the lists of a profile inquiry's reply.
Listed(infos) == <<Len(infos)>> \o FlattenSeq(infos)
ProtocolNegotiation(q) == Common(WholeBlock, SubId[q.does], 1, q.from, q.dest) \o <<q.authority>> \o Listed(q.protocols)
ProtocolSet(q) == Common(WholeBlock, SubId[q.does], 1, q.from, q.dest) \o <<q.authority>> \o q.protocol
ProtocolTest(q) == Common(WholeBlock, SubId[q.does], 1, q.from, q.dest) \o <<q.authority>> \o q.data
ProtocolConfirm(q) == Common(WholeBlock, SubId[q.does], 1, q.from, q.dest) \o <<q.authority>>

\* cmidi2_ci_try_parse_new_protocol(): the type of the protocol, or 0.
ParsedProtocol(bytes) ==
  IF Len(bytes) = 19 /\ SubSeq(bytes, 1, 5) = <<126, 127, 13, SubId["protocol_set"], 1>> THEN bytes[15] ELSE 0

ProfileInquiry(q) == Common(q.to, SubId[q.does], 1, q.from, q.dest)
ProfileInquiryReply(q) == Common(q.to, SubId[q.does], 1, q.from, q.dest) \o Listed(q.enabled) \o Listed(q.disabled)
ProfileSet(q) == Common(q.to, SubId[q.does], 1, q.from, q.dest) \o q.profile
ProfileReport(q) == Common(q.to, SubId[q.does], 1, q.from, Everyone) \o q.profile
ProfileData(q) ==
  Common(q.to, SubId[q.does], 1, q.from, q.dest) \o q.profile \o Direct16(Len(q.data)) \o <<0, 0>> \o q.data

-----------------------------------------------------------------------------
(* Properties: a header, and data in chunks; and inquiries of the process. *)

PropertyCapabilities(q) == Common(q.to, SubId[q.does], 1, q.from, q.dest) \o <<q.requests>>
PropertyCapabilitiesReply(q) ==
  Common(WholeBlock, SubId[q.does], q.version, q.from, q.dest) \o <<q.requests, q.major, q.minor>>
Chunk(q) == Direct16(q.chunks) \o Direct16(q.chunk) \o Direct16(Len(q.data)) \o q.data
\* cmidi2_ci_property_common()
PropertyCommon(q) ==
  Common(q.to, SubId[q.does], 1, q.from, q.dest) \o <<q.request>> \o Direct16(Len(q.header)) \o q.header \o Chunk(q)

\* cmidi2_ci_property_data_common(): the size of the header, to the base 255; the
\* questions that carry no data are one chunk.
PropertyData(q) ==
  Common(WholeBlock, SubId[q.does], q.version, q.from, q.dest)
    \o <<q.request, Len(q.header) % 255, Len(q.header) \div 255>> \o q.header
    \o Chunk(IF q.does \in {"get_data", "set_data_reply"} THEN [q EXCEPT !.chunks = 1, !.chunk = 1, !.data = <<>>] ELSE q)

\* A question, an answer and a report have the number of the question.
ProcessInquiry(q) ==
  CASE q.does = "process_capabilities" -> Common(WholeBlock, SubId[q.does], q.version, q.from, q.dest)
    [] q.does = "process_capabilities_reply" -> Common(WholeBlock, SubId[q.does], q.version, q.from, q.dest) \o <<q.features>>
    [] q.does \in {"midi_report", "midi_report_reply"} ->
         Common(q.to, SubId["process_capabilities"], q.version, q.from, q.dest) \o <<q.control, q.system, 0, q.controllers, q.notes>>
    [] q.does = "midi_report_end" -> Common(q.to, SubId[q.does], q.version, q.from, q.dest)

-----------------------------------------------------------------------------
Written(q) ==
  CASE q.does \in {"discovery", "discovery_reply"} -> Discovery(q)
    [] q.does = "invalidate_muid" -> InvalidateMuid(q)
    [] q.does \in {"ack", "nak"} -> AckNak(q)
    [] q.does \in {"negotiation", "negotiation_reply"} -> ProtocolNegotiation(q)
    [] q.does = "protocol_set" -> ProtocolSet(q)
    [] q.does \in {"test_i2r", "test_r2i"} -> ProtocolTest(q)
    [] q.does = "confirm" -> ProtocolConfirm(q)
    [] q.does = "profile_inquiry" -> ProfileInquiry(q)
    [] q.does = "profile_inquiry_reply" -> ProfileInquiryReply(q)
    [] q.does \in {"profile_on", "profile_off"} -> ProfileSet(q)
    [] q.does \in {"profile_enabled", "profile_disabled"} -> ProfileReport(q)
    [] q.does = "profile_data" -> ProfileData(q)
    [] q.does = "property_capabilities" -> PropertyCapabilities(q)
    [] q.does = "property_capabilities_reply" -> PropertyCapabilitiesReply(q)
    [] q.does = "has_data" -> PropertyCommon(q)
    [] q.does \in {"get_data", "get_data_reply", "set_data", "set_data_reply", "subscribe", "subscribe_reply", "notify"} -> PropertyData(q)
    [] q.does = "number" -> SevenBits(q.value, q.bytes)
    [] OTHER -> ProcessInquiry(q)

Init == written_ci = [inquiry |-> Nothing, bytes |-> <<>>]

\* The application writes an inquiry: none depends on an earlier one.
Write(q) ==
  /\ written_ci.inquiry = Nothing
  /\ written_ci' = [inquiry |-> q, bytes |-> Written(q)]
Next == \E q \in Inquiries : Write(q)
Spec == Init /\ [][Next]_written_ci

-----------------------------------------------------------------------------
\* A device tells any two inquiries apart, which their lists, headers, chunks and
\* texts of any length must not prevent, and each number is its own
\* (cmidi2_ci_message_common() and its callers).
ToldApart ==
  LET q == written_ci.inquiry
  IN q # Nothing => \A r \in Inquiries : Written(r) = written_ci.bytes => r = q

\* All of an inquiry goes into a system exclusive: what is encoded in seven bits
\* stays so, with the lengths that the functions add (cmidi2_ci_direct_uint16_at()).
SafeInSysex == \A i \in DOMAIN written_ci.bytes : written_ci.bytes[i] < 128

\* The parser finds the protocol of a request to change it, and takes nothing else
\* for one (cmidi2_ci_try_parse_new_protocol()).
ProtocolFound ==
  LET q == written_ci.inquiry
  IN ParsedProtocol(written_ci.bytes) = IF q.does = "protocol_set" THEN q.protocol[1] ELSE 0
=============================================================================
