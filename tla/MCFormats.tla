------------------------------ MODULE MCFormats ------------------------------
(* What has no thread of its own, one of them used at a time: the two formats *)
(* that the library translates to, UMP and files, the packets, the buffers of *)
(* packets and the inquiries that the headers write, the remote control, the *)
(* show protocols, and the search for a port. One message of each way through the converter, a   *)
(* sysex of one packet, of several, and of as many bytes as the index counts *)
(* (IndexSize is 20); one event of each way through the writer, up to one    *)
(* track more than the header counts; a display of two rows of two; ports    *)
(* whose names are alike, and searches that know more or less of them.       *)
EXTENDS UmpConverter, Integers, TLC

CONSTANTS LastTrack, Events, MaxEvents, Noise,
  Columns, Texts, Positions, Times, Levels, Type, MaxChallenges, MaxCalls, Saved, Known, MaxPorts,
  Stations, Calls, Others,
  Requests, Inquiries,
  Payloads, Fillers, Singles, Messages7, Writings, DataSets, ChunkSize, Room, MaxOthers, StreamRoom, Listened,
  Firsts, Seconds, MergeRoom, Stray

VARIABLES tracks, written, file, fault
files == <<tracks, written, file, fault>>
VARIABLES current_state, type, to_device, from_device, device, challenges, calls, meant, reports
remote == <<current_state, type, to_device, from_device, device, challenges, calls, meant, reports>>
VARIABLES target, ports, closest, found
search == <<target, ports, closest, found>>
VARIABLES sender, call, told
show == <<sender, call, told>>
VARIABLES forge, added, spoken, progress, at, buffers, taken, merged
buffered == <<forge, added, spoken, progress, at, buffers, taken, merged>>
VARIABLES made, written_ci
built == <<made, written_ci>>

File == INSTANCE MidiFile
Remote == INSTANCE RemoteControl
Match == INSTANCE PortMatch
Show == INSTANCE ShowProtocols
Buffer == INSTANCE PacketStreams
Layout == INSTANCE PacketLayouts
Ci == INSTANCE MidiCi

MCMessages ==
  {<<144, 60, 64>>, <<228, 5, 66>>, <<193, 7>>, <<248>>, <<241, 33>>, <<242, 4, 5>>,
   <<176, 7, 127>>, <<176, 101, 0>>, <<176, 100, 127>>, <<176, 99, 1>>, <<176, 98, 2>>,
   <<176, 6, 12>>, <<176, 38, 0>>, <<176, 0, 1>>, <<176, 32, 2>>,
   <<240, 247>>, <<240, 126, 1, 2, 3, 4, 5, 247>>,
   [i \in 1..20 |-> CASE i = 1 -> 240 [] i = 20 -> 247 [] OTHER -> i]}

MCPackets ==
  {[type |-> 0, status |-> 32]}
    \cup {[type |-> 1, status |-> s, x |-> 1, y |-> 2] : s \in {241, 242, 246, 248, 252, 254}}
    \cup {[type |-> 2, status |-> s, channel |-> 3, x |-> v, y |-> v] :
            s \in {128, 144, 160, 176, 192, 208, 224}, v \in {0, 64, 127}}
    \cup {[type |-> 3, status |-> s, data |-> <<1, 2, 3>>] : s \in {0, 16, 48}}
    \cup {[type |-> 4, status |-> 32, channel |-> 2, x |-> 1, y |-> 2, d |-> <<3, 4>>],
          [type |-> 4, status |-> 16, channel |-> 2, x |-> 1, y |-> 2, d |-> <<3, 4>>]}

MCEvents ==
  {[tick |-> 1, m |-> <<144, 60, 64>>], [tick |-> 0, m |-> <<144, 60, 0>>],
   [tick |-> 128, m |-> <<192, 5>>], [tick |-> 0, m |-> <<240, 1, 2, 247>>],
   [tick |-> 16384, m |-> <<255, 1, 2, 65, 66>>], [tick |-> 2, m |-> <<255, 89, 2, 249, 1>>],
   [tick |-> 3, m |-> <<255, 47, 0>>], [tick |-> 0, m |-> <<247, 144, 1>>],
   [tick |-> 5, m |-> <<255, 1, 3, 255, 47, 7>>], [tick |-> 1, m |-> <<>>]}

MCTexts == {<<>>, <<126>>, <<65, 14, 15, 66, 65, 67, 68>>}
MCPositions == {-1, 0, 1, 4, 6}
MCTimes == {<<123, 59, 40, 29>>}

A == <<1, 2, 3, 4, 5>>
B == <<1, 2, 3, 4, 6>>
C == <<11, 2, 3, 4, 5>>
D == <<2, 3>>
Port(api, n, hardware, name, display) ==
  [api |-> api, port |-> n, container |-> hardware, device |-> hardware, manufacturer |-> <<>>, product |-> D,
   serial |-> <<>>, device_name |-> name, port_name |-> name, display_name |-> display]
MCKnown ==
  {Port("winmm", 0, 1, A, A), Port("winmm", 1, 1, A, A), Port("winmm", 0, 1, B, D), Port("winmm", 1, 2, C, A),
   Port("winmm", 2, 2, B, B), Port("jack", 0, 0, A, D), Port("jack", 1, 0, B, <<>>), Port("jack", 2, 0, D, A)}
MCSaved ==
  MCKnown \cup {[Port("winmm", -1, h, n, d) EXCEPT !.product = p] : n \in {A, <<>>}, d \in {A, <<>>}, h \in {0, 1}, p \in {D, <<>>}}
          \cup {Port("unspecified", -1, 0, B, <<>>)}

Station(protocol, id, format) == [protocol |-> protocol, device_id |-> id, format |-> format]
MCStations ==
  [desk |-> Station("mmc", 127, 0), deck |-> Station("mmc", 2, 0), board |-> Station("msc", 127, 127),
   lamp |-> Station("msc", 2, 1), horn |-> Station("msc", 6, 16), veejay |-> Station("mvc", 0, 0), wall |-> Station("mvc", 2, 0)]
MCCues == {<<<<49>>, <<>>, <<>>>>, <<<<>>, <<>>, <<>>>>, <<<<49, 46, 53>>, <<50>>, <<>>>>, <<<<49>>, <<50>>, <<51, 51>>>>,
           <<<<>>, <<50>>, <<51>>>>, <<<<49>>, <<>>, <<51>>>>}
MCCalls ==
  {[protocol |-> "mmc", command |-> c, time |-> <<>>] : c \in {1, 6, 13}}
    \cup {[protocol |-> "mmc", command |-> 68, time |-> <<1, 30, 45, 24, 0>>]}
    \cup {[protocol |-> "msc", command |-> c, time |-> <<>>, cues |-> q] : c \in {1, 6, 11, 16, 30}, q \in MCCues}
    \cup {[protocol |-> "msc", command |-> 4, time |-> <<0, 1, 2, 3, 0>>, cues |-> q] : q \in MCCues}
    \cup {[protocol |-> "mvc", does |-> d, channel |-> c, x |-> 5, y |-> y] :
             d \in {"enable", "disable", "trigger_clip", "stop_clip", "set_control", "select_clip"}, c \in {1, 16}, y \in {0, 127}}
    \cup {[protocol |-> "mvc", does |-> "set_playback_speed", channel |-> 3, x |-> v, y |-> 0] : v \in {0, 8192, 16383}}

\* Too short, of another address, damaged, without a checksum, unknown.
Other(protocol, bytes, means) == [protocol |-> protocol, bytes |-> bytes, means |-> means]
MVCOn(to) == <<[protocol |-> "mvc", what |-> "enable", target |-> to, data |-> <<>>]>>
MCOthers ==
  {Other("mmc", <<240, 127, 127, 6, 68, 247>>, <<>>), Other("mmc", <<240, 127, 127, 6, 68, 6, 2, 1, 1, 1, 1, 1, 247>>, <<>>),
   Other("mmc", <<240, 127, 127, 6, 64, 247>>, <<>>), Other("msc", <<240, 127, 127, 2, 1, 247>>, <<>>),
   Other("msc", <<240, 127, 127, 2, 1, 4, 1, 1, 247>>, <<>>), Other("msc", <<240, 127, 127, 2, 1, 12, 49, 247>>, <<>>),
   Other("msc", <<240, 127, 127, 2, 1, 1, 49, 0, 0, 0, 50, 247>>,
         <<[protocol |-> "msc", what |-> 1, target |-> 127, data |-> <<1, <<>>, <<<<49>>, <<>>, <<>>>>>>]>>),
   Other("mvc", <<240, 126, 127, 12, 1, 16, 0, 0, 1, 247>>, MVCOn(127)),
   Other("mvc", <<240, 126, 127, 12, 1, 16, 0, 0, 1, 112, 247>>, <<>>),
   Other("mvc", <<240, 126, 127, 12, 1, 16, 1, 0, 1, 110, 247>>, <<>>), Other("mvc", <<248>>, <<>>)}

\* What is built: values within and beyond the width of a field.
Ask(kinds, arguments) == {[does |-> d, a |-> x] : d \in kinds, x \in arguments}
Headed(tails) == {h \o t : h \in {<<0, 9>>, <<19, 31>>}, t \in tails}
Wide == {<<0, 0, 0, 0>>, <<255, 255, 255, 255>>, <<128, 0, 0, 1>>}
MCRequests ==
  Ask({"endpoint_discovery"}, {<<1, 1, 31>>, <<1, 2, 32>>, <<1, 1, 63>>})
    \cup Ask({"endpoint_info"}, {<<1, 1, TRUE, 127, TRUE, FALSE, TRUE, FALSE>>, <<1, 1, FALSE, 127, FALSE, TRUE, FALSE, TRUE>>})
    \cup Ask({"device_identity"}, {<<<<0, 1, 2, 3>>, 4, m, 6, m, <<7, 8, 9, 10>>>> : m \in {0, 127}})
    \cup Ask({"endpoint_name", "product_instance_id", "function_block_name"}, {[i \in 1..14 |-> i + 60], [i \in 1..14 |-> IF i = 14 THEN 0 ELSE i + 60]})
    \cup Ask({"stream_configuration_request", "stream_configuration_notification"}, {1, 2} \X BOOLEAN \X BOOLEAN)
    \cup Ask({"function_block_discovery"}, {<<255, 1>>, <<0, 3>>})
    \cup Ask({"function_block_info"}, {<<b, 3, 3, 1, d, 2, 1, 0, 255>> : b \in BOOLEAN, d \in {0, 3}})
    \cup Ask({"start_of_clip", "end_of_clip", "noop", "meta_end_of_track"}, {<<>>})
    \cup Ask({"jr_clock", "jr_timestamp", "dctpq"}, {<<0>>, <<32768>>, <<65535>>}) \cup Ask({"dcs"}, {<<1>>, <<65535>>, <<1048577>>})
    \cup Ask({"system"}, {<<5, 242, 3, 127>>, <<21, 242, 131, 127>>, <<5, 243, 9, 0>>})
    \cup Ask({"midi1_note_off", "midi1_note_on", "midi1_paf", "midi1_cc", "midi1_pitch_bend_split"}, Headed({<<60, 127>>, <<188, 128>>}))
    \cup Ask({"midi1_program", "midi1_caf"}, Headed({<<60>>, <<188>>}))
    \cup Ask({"midi1_pitch_bend_direct"}, Headed({<<127>>, <<128>>, <<16384>>}))
    \cup Ask({"midi1_pitch_bend"}, Headed({<<-8192>>, <<-1>>, <<8191>>}))
    \cup Ask({"note_off", "note_on"}, Headed({<<60, 0, 32768, 1>>, <<188, 255, 65535, 65535>>}))
    \cup Ask({"paf", "cc", "per_note_pitch_bend_direct"}, Headed({<<n, d>> : n \in {0, 127, 128}, d \in Wide}))
    \cup Ask({"per_note_rcc", "per_note_acc"}, Headed({<<60, 255, d>> : d \in Wide}))
    \cup Ask({"rpn", "nrpn", "relative_rpn", "relative_nrpn"}, Headed({<<1, 129, d>> : d \in Wide}))
    \cup Ask({"per_note_management"}, Headed({<<60, 3>>, <<60, 7>>, <<60, 0>>}))
    \cup Ask({"program"}, Headed({<<1, 127, 2, 3>>, <<2, 128, 2, 3>>}))
    \cup Ask({"caf", "pitch_bend_direct"}, Headed({<<d>> : d \in Wide}))
    \cup Ask({"pitch_bend"}, Headed({<<-1>>, <<0>>, <<65536>>})) \cup Ask({"per_note_pitch_bend"}, Headed({<<60, -1>>, <<60, 1>>}))
    \cup Ask({"set_tempo"}, Headed({<<d>> : d \in Wide})) \cup Ask({"set_time_signature"}, Headed({<<6, 8, 8>>, <<3, 4, 8>>}))
    \cup Ask({"set_metronome"}, Headed({<<24, 1, 2, 3, 4, 5>>, <<24, 1, 2, 3, 5, 4>>}))
    \cup Ask({"set_key_signature"}, Headed({<<1, 255, 3>>, <<0, 1, 3>>, <<4, 1, 3>>}))
    \cup Ask({"set_chord_name"}, Headed({<<1>> \o [i \in 1..18 |-> (i * 5) % 16], <<1>> \o [i \in 1..18 |-> i % 16]}))
    \cup Ask({"sysex7_direct"}, {<<2, s, 6, 1, 2, 3, 4, 5, 6>> : s \in {0, 16, 32, 48}}) \cup Ask({"mds_header"}, {<<2, 1, 257, 0, 514, 0, 257, 0, 0>>})
    \cup Ask({"event_note_on", "event_note_off"}, Headed({<<60, 65535>>, <<60, 65537>>})) \cup Ask({"event_program_change"}, Headed({<<60>>}))
    \cup Ask({"from_midi1_note_on", "from_midi1_note_off", "from_midi1_poly_pressure", "from_midi1_control_change"},
             {<<c, 60, v>> : c \in {0, 31}, v \in {0, 1, 63, 64, 126, 127}})
    \cup Ask({"from_midi1_aftertouch"}, {<<5, v>> : v \in 0..127}) \cup Ask({"from_midi1_program_change"}, {<<5, 60>>})
    \cup Ask({"from_midi1_pitch_bend"}, {<<5, 0>>})
    \cup Ask({"from_01_note_on", "from_01_note_off", "from_01_poly_pressure", "from_01_control_change"}, {<<5, 60, n>> : n \in -1..5})
    \cup Ask({"from_01_aftertouch", "from_01_pitch_bend"}, {<<5, n>> : n \in -1..5})
    \cup Ask({"channel_note_on", "channel_note_off", "channel_control_change", "channel_poly_pressure"}, {<<c, 60, 1>> : c \in {0, 1, 16, 17}})
    \cup Ask({"channel_program_change", "channel_aftertouch"}, {<<c, 60>> : c \in {1, 16}})
    \cup Ask({"channel_pitch_bend"}, {<<1, 127>>, <<1, 128>>, <<16, 16384>>})
    \cup Ask({"meta_channel"}, {<<256>>}) \cup Ask({"meta_tempo"}, {<<500000>>, <<16777216>>})
    \cup Ask({"meta_time_signature"}, {<<n, d, 24, 8>> : n \in {3, 6}, d \in {1, 2, 4, 8, 64}})
    \cup Ask({"meta_key_signature"}, (-8..8) \X BOOLEAN) \cup Ask({"song_position"}, {<<127>>, <<128>>, <<16383>>})
    \cup Ask({"write_7bit"}, {<<n>> : n \in {0, 127, 128, 16383, 16384, 2097152, 268435455}})

\* Streams of one, two and three packets, the tail of each of one byte more than
\* whole words, and one that nobody listens to.
MCPayloads == [s \in {1, 2, 5} |-> CASE s = 1 -> [i \in 1..14 |-> i] [] s = 2 -> [i \in 1..5 |-> 30 + i] [] s = 5 -> <<99>>]
MCFillers == {<<<<64, 144, 60, 0>>, <<255, 255, 0, 0>>>>}
MCSingles == {<<<<0, 32, 0, 9>>>>}
MCMessages7 == {<<240, 1, 2, 3, 4, 5, 6, 7, 247>>}
MCWritings == {[i \in 1..11 |-> i]}
MCDataSets == {[i \in 1..15 |-> 100 + i]}
Timed(t, e) == <<[time |-> t, event |-> "none", size |-> 4], [time |-> 0, event |-> e, size |-> 8]>>
Two == <<[time |-> 0, event |-> "b4", size |-> 4]>>
MCFirsts ==
  {<<>>, Timed(5, "a1"), Timed(5, "a1") \o Timed(3, "a2"), Timed(65535, "a1") \o Timed(65535, "a2"), Timed(0, "a1") \o Timed(9, "a2")}
MCSeconds ==
  {<<>>, Timed(5, "b1"), Two \o Timed(4, "b1") \o Timed(5, "b2"),
   Timed(7, "b1") \o Timed(0, "b2") \o <<[time |-> 8, event |-> "none", size |-> 4]>>, Timed(65535, "b1") \o Timed(9, "b2")}

\* Inquiries of every kind, their lists, headers, chunks and texts divided in
\* other places of the same bytes.
From == <<1, 2, 3, 4>>
Dest == <<5, 6, 7, 8>>
Five(n) == <<126, n, n, n, n>>
Kinds(kinds, fields) == {[does |-> d] @@ f : d \in kinds, f \in fields}
Heads(rest) == {[to |-> t, version |-> v, from |-> From, dest |-> d] @@ r : t \in {127}, v \in {2}, d \in {Dest, From}, r \in rest}
MCInquiries ==
  Kinds({"discovery"}, {[version |-> 2, from |-> From, manufacturer |-> <<1, 2, 3>>, family |-> f, model |-> m, revision |-> From,
           categories |-> 12, largest |-> Dest, path |-> 0] : f \in {1, 259}, m \in {1, 259}})
    \cup Kinds({"discovery_reply"}, Heads({[manufacturer |-> <<1, 2, 3>>, family |-> 1, model |-> 259, revision |-> From,
           categories |-> c, largest |-> Dest, path |-> 12 - c, block |-> 127] : c \in {0, 4, 8, 12}}))
    \cup Kinds({"invalidate_muid"}, {[version |-> 2, from |-> From, target |-> t] : t \in {From, Dest}})
    \cup Kinds({"nak"}, Heads({[class |-> 32, status |-> 1, data |-> 0, details |-> Five(1), text |-> t] : t \in {<<>>, <<0>>, <<65, 66>>}}))
    \cup Kinds({"negotiation", "negotiation_reply"},
           {[from |-> From, dest |-> Dest, authority |-> 9, protocols |-> p] : p \in {<<>>, <<Five(1)>>, <<Five(1), Five(2)>>}})
    \cup Kinds({"protocol_set"}, {[from |-> From, dest |-> Dest, authority |-> 9, protocol |-> <<t, 0, e, 0, 0>>] : t \in {1, 2}, e \in {0, 1}})
    \cup Kinds({"test_i2r", "test_r2i"}, {[from |-> From, dest |-> Dest, authority |-> 9, data |-> [i \in 1..48 |-> i - 1]]})
    \cup Kinds({"confirm"}, {[from |-> From, dest |-> Dest, authority |-> 9]})
    \cup Kinds({"profile_inquiry"}, {[to |-> t, from |-> From, dest |-> Dest] : t \in {1, 127}})
    \cup Kinds({"profile_inquiry_reply"}, {[to |-> 1, from |-> From, dest |-> Dest, enabled |-> e, disabled |-> d] :
           e \in {<<>>, <<Five(0)>>, <<Five(0), Five(0)>>}, d \in {<<>>, <<Five(0)>>, <<Five(0), Five(0)>>}})
    \cup Kinds({"profile_on", "profile_off"}, {[to |-> 1, from |-> From, dest |-> Dest, profile |-> Five(3)]})
    \cup Kinds({"profile_enabled", "profile_disabled"}, {[to |-> 1, from |-> From, profile |-> Five(3)]})
    \cup Kinds({"profile_data"}, {[to |-> 1, from |-> From, dest |-> Dest, profile |-> Five(3), data |-> d] : d \in {<<>>, <<0>>, <<0, 0>>}})
    \cup Kinds({"property_capabilities"}, {[to |-> 1, from |-> From, dest |-> Dest, requests |-> 4]})
    \cup Kinds({"property_capabilities_reply"}, Heads({[requests |-> 4, major |-> 0, minor |-> 1]}))
    \cup Kinds({"has_data"}, {[to |-> 127, from |-> From, dest |-> Dest, request |-> 1, chunks |-> 2, chunk |-> 1, header |-> h, data |-> d] :
           h \in {<<>>, <<1, 0>>}, d \in {<<>>, <<1, 0>>}})
    \cup Kinds({"get_data", "set_data_reply"}, Heads({[request |-> 1, chunks |-> 1, chunk |-> 1, header |-> h, data |-> <<>>] : h \in {<<>>, <<1, 0>>, <<1, 0, 1, 0>>}}))
    \cup Kinds({"get_data_reply", "set_data", "subscribe", "subscribe_reply", "notify"},
           Heads({[request |-> 1, chunks |-> n, chunk |-> 1, header |-> h, data |-> d] : n \in {1, 2}, h \in {<<>>, <<1, 0>>, <<1, 0, 1, 0>>}, d \in {<<>>, <<1, 0>>, <<1, 0, 1, 0>>}}))
    \cup Kinds({"process_capabilities"}, Heads({<<>>})) \cup Kinds({"process_capabilities_reply"}, Heads({[features |-> f] : f \in {0, 1}}))
    \cup Kinds({"midi_report"}, Heads({[control |-> c, system |-> 1, controllers |-> 3, notes |-> n] : c \in {0, 1, 127}, n \in {0, 1}}))
    \cup Kinds({"midi_report_end"}, Heads({<<>>}))
    \cup Kinds({"number"}, {[value |-> v, bytes |-> 2] : v \in {0, 127, 128, 16383}} \cup {[value |-> v, bytes |-> 4] : v \in {0, 16384, 268435455}}
           \cup {[value |-> v, bytes |-> 3] : v \in {128, 2097151}})

\* The choice of a search does not matter while something else is used.
NoSearch == target = Port("winmm", 0, 1, A, A)

MCInit == Init /\ File!Init /\ Remote!Init /\ Match!Init /\ Show!Init /\ Buffer!Init /\ Layout!Init /\ Ci!Init
Formats == Init /\ File!Init /\ UNCHANGED <<vars, files>>
Protocols == Remote!Init /\ Show!Init /\ UNCHANGED <<remote, show>>
Headers == Buffer!Init /\ Layout!Init /\ Ci!Init /\ UNCHANGED <<buffered, built>>
Searches == NoSearch /\ Match!Init /\ UNCHANGED search
MCNext ==
  \/ Searches /\ Headers /\ Protocols /\ File!Init /\ Next /\ UNCHANGED files
  \/ Searches /\ Headers /\ Protocols /\ Init /\ File!Next /\ UNCHANGED vars
  \/ Searches /\ Headers /\ Formats /\ Show!Init /\ Remote!Next /\ UNCHANGED show
  \/ Searches /\ Headers /\ Formats /\ Remote!Init /\ Show!Next /\ UNCHANGED remote
  \/ Searches /\ Formats /\ Protocols /\ Layout!Init /\ Ci!Init /\ merged.out = <<>> /\ Buffer!Next /\ UNCHANGED built
  \/ Searches /\ Formats /\ Protocols /\ Buffer!Init /\ Ci!Init /\ Layout!Next /\ UNCHANGED <<buffered, written_ci>>
  \/ Searches /\ Formats /\ Protocols /\ Buffer!Init /\ Layout!Init /\ Ci!Next /\ UNCHANGED <<buffered, made>>
  \/ Formats /\ Headers /\ Protocols /\ Match!Next
MCSpec == MCInit /\ [][MCNext]_<<vars, files, remote, search, show, buffered, built>>

\* What goes through the converter of an output comes back, what was selected
\* before never changes it for good, and an input says the same in either
\* protocol (UmpConverter, RoundTrip, Recovers, InputsAgree).
ConverterKeeps == RoundTrip /\ Recovers /\ InputsAgree

\* What is built is read back, and told apart from everything else (PacketLayouts,
\* ReadsBack, Distinct, WellFormed; MidiCi, ToldApart, SafeInSysex, ProtocolFound).
PacketsKeep == Layout!ReadsBack /\ Layout!Distinct /\ Layout!WellFormed /\ Ci!ToldApart /\ Ci!SafeInSysex /\ Ci!ProtocolFound

\* Buffers keep the packets, streams and sequences that are put into them
\* (PacketStreams, WalkSees, StreamsApart, MessagesWhole, MergeKeeps).
BuffersKeep ==
  /\ forge # <<>> \/ added # <<>> => Buffer!WalkSees /\ Buffer!StreamsApart /\ Buffer!MessagesWhole
  /\ Buffer!MergeKeeps

\* What a file keeps, and a damaged one (MidiFile, RoundTrip, DamageContained).
FilesKeep == File!RoundTrip /\ File!DamageContained

\* The remote control and its surface agree (RemoteControl, Agree, Follows), and
\* so do the stations of a show (ShowProtocols, Understood).
RemoteFollows == Remote!Agree /\ Remote!Follows /\ Show!Understood

\* ... of every cue (ShowProtocols, CuesKept).
ShowCuesKept == Show!CuesKept

\* ... and light what is pressed (RemoteControl, LightsFollow).
RemoteLightsFollow == Remote!LightsFollow

\* A port is found again (PortMatch, StillThere, PluggedAgain).
PortFoundAgain == Match!DistanceRight /\ Match!StillThere /\ Match!PluggedAgain

\* ... and one that is called nearly the same (PortMatch, FuzzyCounts).
PortFuzzyCounts == Match!FuzzyCounts
=============================================================================
