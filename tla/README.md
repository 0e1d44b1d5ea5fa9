# A specification of libnemesi

libnemesi is the client side of RTSP/RTP: an application opens a presentation by
URL, plays, pauses, seeks and closes it, and takes frames out of a buffer that
the library fills from the network. This directory holds TLA+ models of the
library's core, the TLC configurations that check them and proofs that TLAPS
checks. Paths below are under `src/libnemesi-0.6/`.

Three words are used strictly. *Checked* means that TLC explored every state of
the small instance named. *Proved* means that TLAPS checked a proof for every
value of the constants. *Counterexample* means that TLC found a behaviour of the
code, as modelled, that breaks the property.

## 1. The system

### Threads

| thread | code | runs |
|---|---|---|
| application | `rtsp/rtsp.c`, `rtp/rtp_buffer.c` | commands, `rtsp_wait`, `rtp_fill_buffer` |
| RTSP | `rtsp/rtsp_state_machine.c` `rtsp()` | reads replies, runs the state machine |
| RTP | `rtp/rtp_thread.c` `rtp()` | `rtp_recv` for each readable session |
| RTCP | `rtcp/rtcp.c` `rtcp()` | timed reports, reads reports and BYE |

They share the controller (`rtsp_thread`, whose `comm_mutex` and `cond_busy` guard
only the flag `busy`), the session tree, the pool of packet slots (`fl_mutex`,
`cond_full`) and a playout list per source (`po_mutex`).

### Components

| component | state | operations | interacts with | what is hard | correct when |
|---|---|---|---|---|---|
| buffer pool, playout lists (`bufferpool/`) | free list, slot memory, doubly linked list of indices per source | `bpget`, `bpenlarge`, `bpfree`, `bprmv`, `poadd` | RTP thread adds, application removes | two mutexes, realloc under a reader, ordering across wraps, pool at its limit | slots are shared out, lists sound and sorted, waits end |
| RTP reception (`rtp/rtp_recv.c`, `rtp_thread.c`) | `rtp_ssrc_stats`, `done_seek` | `rtp_recv`, `rtp_update_seq` | pool, lists, seek | numbers that wrap, probation, errors half way | what is played is in order |
| playing and seeking (`rtp/rtp_buffer.c`, parsers, `rtsp_seek`) | position in the tail packet | `rtp_get_pkt`, `rtp_rm_pkt`, `rtp_rm_all_pkts` | lists, without the lock | the tail looked up twice, unlocked pointers | drains the queue; the unlocked pointer and the second look at the tail do not hold (section 3) |
| RTSP commands (`rtsp/rtsp.c`) | `busy`, `response_id` | `rtsp_open` … `rtsp_close`, `rtsp_wait`, `rtsp_uninit` | RTSP thread | replies overtaking commands, several callers, cancellation | waits end with the right answer |
| RTSP state machine (`rtsp/rtsp_state_machine.c`, `rtsp_handlers.c`, `rtsp_internals.c`, `rtsp_sessions.c`, `rtsp_send.c`) | `status`, `wait_for`, the static cursor, the session queue, the connection | a handler per reply, `rtsp_reinit`, `rtsp_clean` | commands, server, RTP/RTCP threads | partial failure of a chain of requests, redirects, lost connections | client and server agree, nothing dangling, nothing leaked |
| sources (`rtp/rtp_ssrc_queue.c`) | source, active and conflict queues, counts of members | `rtp_ssrc_check`, `rtp_ssrc_init`, the walk of the active queue | RTP and RTCP threads, application | lookup without, creation with the lock; loops and collisions | each source once, walked only when whole |
| RTCP (`rtcp/`) | event queue, statistics, report blocks | schedule, report, check and parse datagrams, SDES, BYE | RTP statistics, unlocked | statistics that change under a report, counters that wrap, lengths that do not add up | no event lost, reports right, no read past what was checked |
| transport negotiation (`rtp/rtp_transport.c`, `rtsp/rtsp_transport.c`, SETUP in `rtsp_send.c`, `rtsp_handlers.c`) | `rtp_transport` of a session, sockets, table of channels | `rtp_transport_set`, `_get`, `set_transport_str`, `get_transport_str`, `sock_bind` | server, RTSP and RTP threads | ports taken or random, replies that change what was asked | the client listens where the server sends |
| media path (`rtsp_internals.c`, `rtp_thread.c`, `rtp_buffer.c`) | `in_buffer`, socketpairs, playout lists | `full_msg_rcvd`, `remove_pkt`, routing of channels, `rtp_recv`, `rtp_fill_buffer` | all threads, one behind the other | a stream cut anywhere, every stage blocks on the next | nothing waits for ever, frames come out whole |
| depacketizers (`parsers/`) | partial frame per source | `h264_parse` … | `rtp_get_pkt`, `rtp_rm_pkt` | lost fragments | no frame mixed or twice |
| payload types (`rtp/rtp_payload_type.c`, `parsers/rtpparsers.c`, `*_init_parser`, `set_rtsp_media`) | static and allocated definitions, tables of parsers | announce, name, configure, init, clean | description, RTP thread, other controllers of the process | tables and definitions the process has once, half-made sessions | each format has its parser and configuration, definitions have one owner or none |
| parsing of SDP text, licences, utilities, other socket wrappers, examples | | | | see section 6 | |

`PROJECT.json` has one entry per component, with its status, and the list of
hazards, each at its line.

## 2. Modules

| module | models | extends |
|---|---|---|
| `RtpSequence` | `rtp_init_seq`, `rtp_update_seq` as operators on `rtp_ssrc_stats` | |
| `PlayoutList` | `bufferpool/` as operators on a pool and a list | |
| `PlayoutBuffer` | RTP thread and player over the two modules above | `PlayoutList`, `RtpSequence` |
| `PlayoutBufferProofs` | theorems of `PlayoutBuffer`, and that it implements `PlayoutQueue` | `PlayoutBuffer`, `NaturalExtrema`, `FiniteSetTheorems`, `TLAPS` |
| `PlayoutQueue` | what the playout buffer promises (abstract) | |
| `PlayoutQueueProofs` | theorems of `PlayoutQueue` | `PlayoutQueue`, `TLAPS` |
| `RtspControl` | commands, RTSP thread and server | |
| `RtspControlProofs` | theorems of `RtspControl` | `RtspControl`, `TLAPS` |
| `SsrcQueue` | sources, made and walked by three threads | |
| `SsrcQueueProofs` | theorems of `SsrcQueue` | `SsrcQueue`, `NaturalExtrema`, `FiniteSetTheorems`, `TLAPS` |
| `RtcpPacket` | the numbers of a report, the check of a datagram, the interval, as operators | |
| `Rtcp` | RTCP thread against the RTP thread's statistics | `RtcpPacket` |
| `RtcpProofs` | theorems of `Rtcp` | `Rtcp`, `NaturalExtrema`, `TLAPS` |
| `NaturalExtrema` | two lemmas: least and greatest elements | `TLAPS` |
| `RtspTransport` | the parameters of a transport and the Transport header, as operators | |
| `Depacketizers` | the parse function of every format, as operators | |
| `MediaPath` | from SETUP to frames, over the two modules above | `RtspTransport`, `Depacketizers` |
| `PayloadTypes` | definitions and parsers of several presentations at once | |
| `MediaPathProofs` | the theorem of `MediaPath` | `MediaPath`, `NaturalExtrema`, `TLAPS` |
| `PayloadTypesProofs` | theorems of `PayloadTypes` | `PayloadTypes`, `FiniteSetTheorems`, `SequenceTheorems`, `TLAPS` |
| `MC…` | constants of the configurations | |

A definition followed by the word *Mutant* in its comment is a plausible bug of
the definition below it. No specification uses it; `PROJECT.json` says which
property notices it.

### PlayoutBuffer and the code

An action is one critical section, or one stretch of unlocked code between two.

| actions | code |
|---|---|
| `Get`, `GetWaits` | `bpget`: pop a slot, enlarging the pool if it must, or wait on `cond_full` |
| `RecvFrom`, `RecvError`, `BadHeader` | `recvfrom`, the header check and `rtp_ssrc_check` in `rtp_recv` |
| `Track`, `SeekDone` | the case `SSRC_KNOWN`: two looks at `done_seek` with `rtp_update_seq` between |
| `Add`, `SetLength`, `Free` | `poadd`, the store of `pktlen` after it, `bpfree` |
| `Collide` | the case `SSRC_COLLISION` (`CollisionSpec` only) |
| `Fill`, `GetPkt`, `TakePointer`, `UsePacket`, `ReadTail`, `RmPkt` | `rtp_fill_buffer`, `rtp_get_pkt`, the parser, `rtp_rm_pkt` (tail looked up again) and `bprmv` |
| `StartSeek`, `MarkSeek`, `RemoveAllPkts`, `Play` | `rtsp_seek` from the answer to PAUSE to the call of `rtsp_play` |

`po[s]` is `playout_buff`, index for index; `bp` is `buffer_pool`, with the number
of reallocations (`moved`) for the address of the slots. A packet is its position
in what its source sent (`ext`) plus the number in its header (`ext` modulo
`RTP_SEQ_MOD`); the modelled library looks at the header only. `played` and `leaked` are
history variables that no guard reads.

`ScanStop` translates the scan of `poadd` with the list's own `cycles`, and
`AddAfter` its insertion on the *tail* side of the element found, including the
write through index -1: `Store` drops a write outside the vector.

### RtspControl and the code

| variable | code |
|---|---|
| `status`, `busy`, `wait_for`, `response_id`, `rtsp_queue`, `in_buffer`, `fd`, `rtp_th` | the fields of `rtsp_thread` |
| `comm_mutex`, `cond_busy` | the mutex and the threads blocked in `pthread_cond_wait` |
| `cursor` | `static_sess` and `static_med` of `get_curr_sess` |
| `CSeq` | the counter in each session |
| `rtsp` | the RTSP thread: where it is, whom `rtsp_reinit` returns to, cancelled or not, and (`freed`) whether `clean_rtsp_th` has freed buffers whose pointers it has not reset |
| `app` | each application thread: where it is, its command, the answer it was given |
| `opened`, `fds`, `wire`, `server` | connections, requests and replies in flight, what the server set up and plays |
| `fault` | the code used memory that was freed or never allocated |

A command is `Accept` (mutex, `busy`, test of the status), `Point`
(`get_curr_sess(GCS_INIT)`), `Send` (request, `wait_for`), because the RTSP thread does not take
`comm_mutex` around a reply and may run between any two of them. `rtsp_open` is
`Accept`, `Connect`. A refused command is `Refuse`, which clears `busy` as the code
does. `rtsp_wait` is `Sleep`, `Signalled`, `Unlocked`, and `Return`, which reads
`response_id` after the mutex is released. One reply is one step of the RTSP
thread (`Described`, `SetUpNext`, `SetUpDone`, `NextSession`, `LastSession`, `TornDown`,
`ParamAnswered`, `Reject`, `Unsuccessful`, …); what follows it and an application
can see is split at the points where it can: `ClearCursor` and `Unbusy` after the change of status,
and `rtsp_reinit` as `FreeSessions`, `FreeBuffers`, `CloseConnection`, `Wipe`, `Release` (clears
`busy`, signals), `Forget`. `rtsp_play` of what plays already is allowed, as in the code
(`rtsp.c:617`), where the event `"replay"` says that the application does it (`Replays`). `rtsp_pause` and `rtsp_stop` are the same command.
`rtsp_seek` is a pause whose wait goes on to a play.

Once `fault` is set the model stops: what the program does then is undefined. A property about what happens in the
end claims nothing behind a fault: `UninitEndsIfUnread` starts at a cancellation that does not hit `rtsp_reinit` between
freeing and resetting (`Cancels`), where `rtsp_clean` frees again.

Left out of `RtspControl`:

- partial messages and interleaved data (messages arrive whole here; `MediaPath` cuts them), the
  text of requests, licences, failed allocations, a null URL;
- a controller without hints (`rtsp_state_machine.c:97` would then read through a null pointer);
- a visible failure of a write: the senders return -1, their callers take only
  other values for errors, and a request on a broken connection is lost;
- the split of a handler's test and clearing of `wait_for`: one step;
- the reads of the freed RTP structure in `rtsp_reinit`: the thread identifiers in it
  were zeroed before. Starting threads on it is a `fault`;
- a second controller in the same process, which shares the static cursor.

`BadSdp` (299) stands for a 200 whose description cannot be parsed.

Left out of `PlayoutBuffer`: the commands `bpget` gives the shell when the pool is
full (the wait is modelled), jitter and frame-rate estimates, the branch of
`rtp_get_pkt` for a payload type nobody defined, and `rtp_fill_buffers` with the mutex
`syn`, which is in `SsrcQueue`.

### SsrcQueue and the code

| variable or action | code |
|---|---|
| `ssrc_queue`, `active`, `next_active`, `conf_queue`, `local_ssrc` | the fields of `rtp_session`; a source is its number in the order of allocation |
| `src` | `rtp_ssrc`: addresses, whether `po` and the RTCP address are set, `probation`, `bad_seq`; `by`, `counted` and `tracked` are history |
| `syn` | the mutex of the session; `th` is where the RTP and the RTCP thread are |
| `Compare`, `Check`, `Look`, `Known` | `rtp_ssrc_check`: comparison with `local_ssrc`, then the lock taken and given back, then the walk of the queue without it |
| `Collide`, `Renew` | the session's own identifier: known conflict, or a new identifier |
| `Link`, `LinkFails`, `Fill`, `Poinit` | `rtp_ssrc_init`: allocation and linking, then the address, then `poinit`, under the lock |
| `CountRead`, `CountWrite` | `senders++` and `members++` of the two threads, read and written |
| `StartProbation`, `Track`, `Enqueues` | the probation of a new source is set (`rtp_recv.c:323`), then counted down: `rtp_update_seq` seen as what it does to probation, and `rtp_init_seq` linking the source into the active queue |
| `Parse`, `SdesRead`, `SdesWrite` | an RTCP compound, packet by packet: SDES tests and sets `probation`, BYE clears `run` |
| `FillBuffers`, `Filled`, `Walk` | `rtp_fill_buffers` with the mutex `syn` of the RTP thread, and the walk `rtp_next_active_ssrc` |

What a number does to the tracking is computed in `RtpSequence`; here a packet follows the last
one, jumps, follows a jump, or is any other. `LoopArrives` is a report of the
session that comes back to it from another address.

### Rtcp and the code

`stats` has the fields of `rtp_ssrc_stats` that a report reads; `RtpCycles`, `RtpMax`, `RtpCount`
are the three writes of `rtp_update_seq` and `rtp_recv`, and `ReadCycles`, `ReadMax`, `ReadReceived`,
`KeepReceived`, `Report` the reads and writes of `rtcp_build_rr`, in the order of the code.
None is under a lock. `head` is the event queue with the ticks each event has left;
`rtcp_schedule` is the insertion with its special case for exactly one earlier event.
`Recv` and `Parse` walk a datagram word by word: a datagram is the header found at each
word, so that a length that does not add up leads to a word that is not a header. `ghost`
records what was true, and whether the RTP thread moved while a report was made. Widths are
`Word`, `RTP_SEQ_MOD`, `Fraction` and `LostMax`, as in C: a negative `lost_interval` is a large number.

### RtspTransport, Depacketizers, MediaPath and the code

| actions of `MediaPath` | code |
|---|---|
| `SetupUdp`, `SetupTcp` | `send_setup_request`: ports given, counted up or random, the results of `sock_bind` looked at or not as the code does; or a socketpair and two channels |
| `handle_setup_response` | the reply's Transport header applied (`get_transport_str`), the sockets connected to what it says |
| `SendUdp`, `SendTcp`, `SendReport`, `Command`, `Reply` | server and application (the server is modelled from how the client uses it) |
| `rtsp_recv`, `handle_packet`, `handle_reply` | the connection read in parts, `full_msg_rcvd`, `remove_pkt`, the search of the channel table and the blocking write into a socketpair |
| `Select`, `rtp_recv`, `rtcp_recv` | the loops of the RTP and the RTCP thread over readable sockets |
| `rtp_fill_buffer`, `Parse` | the timestamp of the oldest packet, then the parser as long as it answers EAGAIN |

A packet's payload is a sequence of numbered pieces of what was captured, so that a property
can ask which pieces a frame is made of. `Junk` is memory that holds nothing of the stream: `mpa_parse`
copies it when it follows a stale pointer. Sources, numbers and the pool's lists
belong to `PlayoutBuffer`: a session has one active source here and its list is a queue.

### PayloadTypes and the code

Each presentation has a controller that goes through `phase`: the tables of parsers are cleared
and filled (`ClearInits`, `FillInits`: two steps, since another controller may look between them), the
description becomes sessions one format and one attribute at a time (`NewMedium`, `Announce`, `Med`,
`Rtpmap`, `Fmtp`, `NextMedium`, after `set_rtsp_media`), `Start`, `InitNext`, `NextSession` and `Run` are
`rtp_thread_create`, `Close`, `Clean` and `Closed` the end of the RTP thread, `Drop` and `Forget` the end
of sessions that never had one: `rtsp_reinit` frees the media, and nobody refers to their sessions any more.
`rtppt` of a session is the list of announced formats with the addresses they were announced with. `pos[p]` stands for the loop
variables: the medium (or session) and what of it comes next, its formats first and then its
attributes. `def` maps addresses to definitions: a
standard one is at its number, for all sessions of the process. A freed definition
stays in `def`, marked, so that a use of it is seen (`fault`). The init functions are
functions of the attributes; an attribute is the set of parameters it has and whether
each can be read (or is a `config` of odd length, which the MPEG-4 parsers pass over).

## 3. Runs

Bounds. The sequence space has 8 numbers instead of 65536, `MAX_DROPOUT` 3,
`MAX_MISORDER` 2, `MIN_SEQUENTIAL` 2 as in the code. That keeps the order
0 < `MAX_DROPOUT` < `RTP_SEQ_MOD - MAX_MISORDER` < `RTP_SEQ_MOD` on which `rtp_update_seq`
branches. A pool of 2 + 2 slots makes each step of `bpget` happen: popping, growing,
waiting. Lists of up to four packets have a head, a tail and a middle. `MaxExt`,
`MaxSeeks`, `MaxOpens` and `MaxCalls` bound the behaviour and appear in guards only.

`SsrcQueue` allocates two sources (`MaxSources`): one thread finds what the other makes, or
both make one; a third allocation fails, which the code handles. Addresses are the
server's and another one. `Rtcp` has words of 64, sequence numbers of 4 and fractions
of 8 values, so that three packets wrap the number, a negative loss wraps the word and a
loss is clamped; six datagrams cover one that is right, lengths that overshoot,
an old version, a single packet and unknown types. `MediaPath` has a stream of two to seven packets
per format, with every kind of packet its parser tells apart; the connection holds
four parts and sockets and pools one packet, the smallest sizes at which every stage is full
and blocks. Descriptions of `PayloadTypes` announce one or two of six types, so that each one is
announced once, twice, again by `a=med`, as a standard or as a dynamic one, and refused.

Where the bounds stop the system, deadlock is not checked; that nothing waits for ever is
a property of its own (`WaitEnds`, `UninitEndsIfUnread`, `CommandsEnd`, `AllPlayed`). `Sources`
and `RtcpReports` check deadlock as well.

### Runs that pass

| run | instance | states | shows |
|---|---|---|---|
| `PlayoutInOrder` | one source, duplicates, pool 2 to 4 slots, numbers 5,6,7,0,1 | 200 041 | the lists stay sound through growth, a full pool and a wrap, the two threads implement `PlayoutQueue`, and playing never goes back |
| `PlayoutShared` | two sources, pool 1 to 3, loss, failing `recvfrom`, bad headers, one seek | 1.14 M | no slot is lost, freed twice or linked while free; what a failed `recvfrom` leaks is counted, and is all that leaks |
| `PlayoutSeek` | one source, loss, fixed pool of 3, two seeks at any time, packets in flight while a seek is under way, fairness | 163 999 | the RTP thread never waits for ever; what arrived is played |
| `ControlTalk` | one thread that waits and may play what plays already, sessions of 2 and 1 media, refused connections and requests, fairness | 4 783 | client and server agree when nothing is under way; every reply is awaited and 200 means that the command was carried out, but for a play of what plays already; nothing is lost or used after it was freed, and every wait ends |
| `ControlKeeper` | a second thread sends GET_PARAMETER; refusals, redirects, bad descriptions, hang-ups | 118 705 | `status` never says connected without sessions and RTP thread, except within `rtsp_reinit` |
| `ControlUninit` | `rtsp_uninit` at any step of the RTSP thread, a second thread with GET_PARAMETER, refusals, broken connections, fairness | 27 561 | the thread leaves no connection, session or RTP thread; it ends, but for `ControlUninitRead` below and a cancellation within `rtsp_reinit` |
| `Sources` | one sender on both channels, the session's reports looping back, allocations that fail, fairness | 467 139 | each thread makes a source once; the application walks whole sources only; the active queue is the sources that came off probation and a BYE ends the stream, until a source is restarted; members and senders are not overcounted |
| `RtcpReports` | three sessions, one source that sends and one that reports, all datagrams | 987 242 | no event is lost or doubled; no header is parsed that was not checked; every report the RTP thread did not disturb is right |
| `MediaPath` | 23 scenes: every format with loss and inside the connection, given and random ports, a group, two media with commands between their packets; fairness | 73 588 | the client listens where the server sends; frames come out as they were sent, or, with loss, in order, once and unmixed; neither a command nor a frame waits for ever |
| `Payloads` | two presentations at once, seven descriptions, connections that end early, symmetry | 139 665 | a definition is in one table or freed, or its session was dropped; none is used after it was freed; each format plays with the parser it names and the configuration it was given |

`ControlTalk` opens once. A second presentation on the same controller always
faults (`ControlReopen`), so there is nothing to check behind it.

### Runs that find a disagreement

Both break one property, which states what a comment of the source says; `PROJECT.json` quotes it under `findings`.

| run | property | what happens |
|---|---|---|
| `PlayoutLate` | `SoundLists` | packets 3, 5, then 4: `poadd` links 4 on the tail side of 3 and leaves `potail` at 3; seen from the head the list is 5, 3, 4, seen from the tail 3, 5 |
| `ControlReinit` | `ReinitReported` | `rtsp_play` of what plays already: the reply is not taken, the controller is reinitialized, and `rtsp_wait` reports 0 or 200, never `RTSP_Reinitialized` |

### Counterexamples outside the list of runs

These configurations are kept because each one explains why a passing run has the bounds
it has, or why a property has the condition it has. Each breaks the one property of its
.cfg. The first six break what a comment of the source says, which the comment of the property quotes.

| cfg | property | what happens |
|---|---|---|
| `PlayoutGrows` | `PointerStable` | the pool is enlarged, and moved by `realloc`, while a parser reads through the pointer of `rtp_get_pkt`. The code lets it grow to 50 times its first size (`include/bufferpool.h:66`) |
| `PlayoutStolen` | `RemovesWhatItUsed` | a late packet becomes the tail between the parser and `rtp_rm_pkt`, which looks `potail` up again: it is removed unread, and the packet that was read stays |
| `ControlTeardown` | `AllTornDown` | one TEARDOWN for the first session, then the connection is closed; `include/rtsp.h:68-70` says one per medium |
| `ControlUninitRead` | `UninitEnds` | the thread is cancelled (asynchronously) between reading a reply and handling it: `rtsp_clean` waits for that reply again, and `rtsp_uninit` with it |
| `PayloadAgain` | `AnnouncedLive` | a type announced twice: the first entry of `announced_fmts` keeps the address of a definition that was freed |
| `PayloadAttributes` | `AttributesFit` | the array is enlarged to the *minimum* of what is needed and three (`rtp/rtp_payload_type.c:353`): the fourth attribute is behind its end |
| `ControlReopen` | `RtpThreadLinked` | the RTP structure was freed by the thread of the first presentation |
| `ControlTwoWaiters` | `WaitEnds` | two threads wait, `pthread_cond_signal` wakes one, and the other sleeps for ever |
| `SourcesRestart` | `WalkAlwaysEnds` | an active source is restarted (two packets after a jump, or SDES) and linked to itself: the walk does not end |
| `RtcpStarved` | `EveryoneReports` | an event is put before the only earlier one: of two sessions one always reports first |
| `MediaPorts` | `Listening` | two media at random ports that are the same; the result of `sock_bind` is not looked at |
| `MediaOneThread` | `CommandsEnd` | the thread that reads frames waits for a reply behind packets that nobody takes: all threads wait |
| `MediaStall` | `AllPlayed` | a Vorbis stream changes its codebook ("it could change across packets", `parsers/rtp_vorbis.c:43`): the packet is refused, not removed, and nothing behind it is played |
| `PayloadShared` | `OwnPrivateData` | two sessions with MPV share the static definition and with it the buffer where a frame is joined, though `include/rtp.h:287` calls the definitions the session's |
| `PayloadFreed` | `NothingFreedIsUsed` | an attribute of a standard type: `rtp_clean` frees it and keeps the pointer, and the next session frees it again |
| `PayloadRace` | `ParserReady` | a new controller clears the process-wide table while another one makes sessions: a parser has no private data |

More properties fail under the constants of a configuration above, or with the change named, and have no configuration of their own:

| property | constants of | what happens |
|---|---|---|
| `SortedLists` | `PlayoutInOrder` from `FirstExt = 7`, no faults | 0 follows 65535 during probation: `rtp_update_seq` compares after promotion to int, and no cycle is counted |
| `CountsMembers` | `PlayoutLate` with `CollisionSpec`, no faults | a packet with a known SSRC from another address: `bprmv` unlinks a slot that no list holds |
| `LengthIsOfPacket` | `PlayoutSeek` | a packet is read between `poadd` and the store of its length |
| `SeekClearedByReset` | `PlayoutSeek` | `done_seek` set between the two looks is cleared without a reset |
| `PlaysAfterSeek` | `PlayoutSeek` | a packet held during a seek is linked after the lists are emptied |
| `EveryReplyAwaited` | `ControlKeeper` | GET_PARAMETER overwrites `wait_for` of a command under way |
| `NoFault` | `ControlReinit` with `Hanging` | the server hangs up, and the sessions are freed between a command's test of the status and its use of them |
| `NoFault` | `ControlUninit` | the thread is cancelled within `rtsp_reinit`, and `rtsp_clean` frees again what was not reset |
| `WaitEnds` | `ControlTalk` with `Broken` and `MaxOpens = 2` | after a read error the RTSP thread is gone; a later command waits for ever |
| `OneSourceEach` | `SourcesRestart` | both threads miss, and each makes a source for the SSRC |
| `QueuedIsPlayed` | `SourcesRestart` with `FirstSsrcs = {x}` | a sender uses the session's identifier: its source is made, but its probation is never started, so its packets are queued and not played |
| `ByeAlwaysEnds` | `SourcesRestart` | a BYE before the first packet: the application waits for that packet, not for the end |
| `DuplicatesDoNotCount` | `RtcpReports` | more packets than expected in an interval: the unsigned loss is large and the fraction is not 0 |
| `H264OneTimestamp` | `MediaPath` | a unit whose end is lost stays in the buffer and is put before the next whole unit |
| `NoJunk` | `MediaPath` with scene `OneMpa`, stream `Fragmented`, sockets and pool of 2 | MPEG audio in fragments: `mpa_parse` copies from the pointer of the first packet after it was removed |

### Fairness

Each property under fairness names threads that the code keeps running; what a thread
may wait for is in the guards of its actions.

`PlayoutBuffer`: weak fairness of each thread. A thread with an enabled step is
runnable; what it may wait for (a mutex held for one action, `cond_full`) is in its
guards. The fair run has losses and no failing `recvfrom`, so the RTP thread can step only when
a packet really arrives.

`RtspControl`: weak fairness of each application thread once it is inside a command (it need not
give commands), of the RTSP thread, and of the server answering a request on a
connection that is up. The last one is an assumption about the network: without it
the code, which has no timeout, waits for ever in `rtsp_wait`. A server may also break the
connection, if `Events` says so, in place of answering.

`SsrcQueue`: weak fairness of the RTP thread, the RTCP thread and the application. Nobody is
bound to send anything.

`Rtcp`: weak fairness of the start, of time, of a report in the making and of reading and
parsing. `HandleEvent` has strong fairness: the thread looks at its events when no socket is readable,
and senders of RTCP wait seconds between reports. The listed properties of `RtcpReports` are safety
properties and need none of this.

`MediaPath`: weak fairness of the RTSP and the RTP thread, of the parser once it was called, of the
server's reply and of the RTCP thread's reads; strong fairness of `rtp_fill_buffer` for each medium: the application
asks the sessions in turn, and a session may be empty at some of its turns. The server need
not send.

`PayloadTypes` states none: its properties are about safety.

## 4. Proofs

Every theorem is about any values of the constants that satisfy the `ASSUME`s of its module.
Some have a hypothesis on top, a named operator on constants only, because the property fails without it; the
counterexample is named next to it. Each hypothesis holds of the constants of the run that checks the property.

| theorem | states | hypothesis |
|---|---|---|
| **`PlayoutQueueProofs`** | | |
| `TypeCorrect` | `[]TypeOK` | `KeysAssumption` |
| `SlotsAccounted` | `[]OnePlaceEach`: the places are disjoint and together all slots | `KeysAssumption` |
| `NeverGoesBack` | the action property `PlayedInOrder` of the queue | `KeysAssumption` |
| **`PlayoutBufferProofs`** | | |
| `TypeCorrect` | `[]TypeOK` | `Tame` |
| `ListsSound` | `[]SoundLists` | `Tame` |
| `ListsSorted` | `[](SortedLists /\ CountsMembers)` | `Tame` |
| `SlotsShared` | `[]SlotPartition` | `Tame` |
| `Refinement` | `ImplementsQueue`, that is, `PlayoutQueue`'s `Spec` under the mapping | `Tame` |
| `PlaysForward` | the action property `PlayedInOrder` | `Tame` |
| **`RtspControlProofs`** | | |
| `TypeCorrect` | `[]TypeOK` | |
| `StaysConnected` | `[]Connected` | no `"uninit"` |
| `ServerAgrees` | `[]Agreed` | `Alone` |
| `RepliesAwaited` | `[]EveryReplyAwaited`, which exempts the answer to a play of what plays already | `Alone` |
| `KeepsEverything` | `[]NothingLost` | `Alone` |
| `ReportsTheTruth` | the action property `AnswersTheCommand`, with the same exemption | `Alone` |
| `LeavesNothing` | `[]NothingLeft` | `OneConnection` |
| **`SsrcQueueProofs`** | | |
| `TypeCorrect` | `[]TypeOK` | |
| `OncePerThread` | `[]MadeOncePerThread` | |
| `WalkIsSafe` | `[]WalksWholeSources` | |
| `NeverOvercounts` | `[]NotOvercounted` | |
| `WalkMeetsTheTracked` | `[]ActiveQueueSound` | |
| **`RtcpProofs`** | | |
| `TypeCorrect` | `[]TypeOK`: the fields of a report fit their widths, whatever the RTP thread does meanwhile | |
| `EventsKept` | `[]OneEventEach` | |
| `ParsesTheChecked` | `[]ParsesWhatWasChecked` | |
| `UndisturbedReportsAreRight` | the action property `QuietReportsAreRight` | |
| **`PayloadTypesProofs`** | | |
| `Owned` | `[]EveryDefinitionOwned` | |
| `Ready` | `[]ParserReady` | `MadeFirst` |
| `NothingFreed` | `[]NothingFreedIsUsed` | `AttributesDefined` |
| `TypeCorrect` | `[]TypeOK` | |
| **`MediaPathProofs`** | | |
| `Listens` | `[]Listening` | `Orderly` |

### The queue

In `PlayoutQueue` a slot moves between `free`, `held`, a queue, `lost` and `unused`; each
action removes it from one place and adds it to another, so that disjointness and
the union are invariant together. `Enqueue` takes any number that is not queued, as `poadd` does; that the numbers come in order is a
guard of `Next` (`ComesInOrder`), the assumption on the network. Playing forward needs it, and that the least is dequeued. `Promises` is all of it and the types; it is inductive, one lemma
to an action. `KeysAssumption` says that packets are numbered by naturals from 0; no run instantiates the
queue by itself, `PlayoutInOrder` checks it as the property `ImplementsQueue`. That playing never goes back follows from it: what was played last changes only to the number of a
queued packet (`PlaysTheQueued`).

### The playout buffer, and that it implements the queue

A list is a vector of links in each direction. `Chain(f, start, q)` says that the sequence `q` is what
a walk along `f` from `start` meets, without meeting a slot twice; `PoList` that the two directions meet the same
slots in opposite orders, as many as `pocount`. The lemmas about chains say that a walk (`Nth`, `Walk`, `Linked`)
is the chain, that a pool is a chain of its free slots, and what `bpenlarge`, `bpget`, `bpfree`, `poadd` at the head,
`podel` and `rtp_rm_all_pkts` make of chains. Walks are recursive functions on natural numbers: that what
the code finds is what the chain says is shown from a least number at which they differ (`NaturalExtrema`), since the
library's induction cannot be used (below).

The inductive invariant `Inv` has nine parts: the types; the free list and the playout lists are chains (`PoolOK`,
`ListsOK`) and share the slots out (`SlotPartition`); where the two threads are says what they hold (`ThreadsOK`: among
others, that the tail the reader found stays the tail until it removed it, which the refinement needs); packets are
linked in the order of sending, none of them behind what was played (`OrderOK`, `HeldOK`); and the tracking follows
the stream: `cycles` and `max_seq` of a known source are the position of the last packet seen (`FollowOK`), the number
of the head with the list's `cycles` is its position (`HeadOK`), which is why `poadd` finds a new packet newer than the head.

`Tame` is: no packet comes late, and either the numbers do not wrap (`MaxExt < RTP_SEQ_MOD`; any loss, duplicates, errors and
seeks), or they do, in a stream in which every packet arrives, with no seek and no wrap within the probation of `MIN_SEQUENTIAL = 2`
packets. What it excludes breaks the lists: late packets (`PlayoutLate`, `PlayoutStolen`), a wrap in the probation (`SortedLists` in section 3). A
wrap *after* loss or a seek is beyond the proof only: how far the number jumps is then between `MAX_DROPOUT` and the restart
rules of `rtp_update_seq`; `PlayoutInOrder` covers a complete stream that wraps, `PlayoutShared` loss and seeks
without a wrap. Duplicates are in both.

`Refinement`: the initial states map to initial states, and each of the actions of `PlayoutBuffer` has a lemma that says
which action of `PlayoutQueue` it is, or that it changes nothing the mapping shows: taking a slot is `Take` in one stretch
(`Get`), `Add` is `Enqueue` or, for a duplicate, nothing until `Free` is `Discard`, a failed `recvfrom` is `Lose`, `RmPkt`
is `Dequeue`, `RemoveAllPkts` is `Clear`. `Inv` is what makes the steps match: that the slot unlinked at the tail holds the least
key of the queue, and that what is linked at the head is above all keys and what was played.

### The controller

`Connected` is not inductive: the last SETUP reply sets the status without a look at the
queue, and `CloseConnection` relies on what came before. The strengthening
`ConnectedInv` adds that the sessions are live while a SETUP reply is awaited (except
inside `rtsp_reinit`, which clears `wait_for` before it returns) and that the status is INIT once
the connection is closed. Each step of the RTSP thread has a lemma; one lemma says that no command sets the
status or the queue. With `rtsp_uninit` the invariant is lost: a cancellation inside
`rtsp_reinit` starts it again from the top, hence the assumption. `Connected` exempts the stretch of `rtsp_reinit`
between freeing the sessions and resetting the status, which a command may meet (`NoFault` in section 3).

`Alone` is one application thread that waits after each command (no keeper), one presentation, and a server that may
refuse a connection or any request, but stays up; any number of sessions, media and commands, among them plays of what plays already. Such a play is the
one command whose reply no handler takes (`rtsp_state_machine.c:481`): `EveryReplyAwaited` and
`AnswersTheCommand` exempt it. The theorems under `Alone` rest on
`TalkInv`: at any moment the conversation is in one of eight stages (`Fresh`, `Asking`, `Arriving`, `Arrived`, `Settling`, `Settled`,
`Closing`, `Over`), and in each of them the cursor, `wait_for`, `CSeq`, the request or reply in flight, what the server
has set up and plays (`Doing`) and where the application is fit together. A request is sent with the cursor at what the reply
will be handled for, so that every medium is set up once and every session played once; the wait returns 200 only behind the stage
that carried the command out. Each condition is needed: two waiting threads (`ControlTwoWaiters`), a keeper (`EveryReplyAwaited`
under the constants of `ControlKeeper`), a second presentation (`ControlReopen`), a server that hangs up
or a failing read (section 3). It is the setting of `ControlTalk`.

`OneConnection` is at most one connection (a second `rtsp_open` may run into the `rtsp_clean` of a thread that ended with a read
error) and no redirect (which makes another connection and loses the descriptor of the first); any threads, `rtsp_uninit` at any step, refusals, hang-ups and read errors. `LeftInv` says that the only open descriptor is
`fd`, that the RTP thread runs on sessions in the queue only (`RunsOnSessions`), and what `rtsp_reinit` has undone at each of its
stretches (`Emptied`), so that a cancellation in the middle of it, after which it starts again, ends with the same. It is the setting of
`ControlUninit`.

### Sources

`IInv` adds to the types the `Structure` (the queue holds the sources in the order of allocation, and what threads and
application have in hand is in it) and the `Identities`. The look-up is not under the lock, so that it is not
enough that the queue has no source of the SSRC when one is linked. What holds is about
one thread: since it looked and missed, it has not made that source, and nobody
renames a source, so a second source of the SSRC can only be the other thread's. `WInv` adds why a walk is
safe: who makes a source holds the mutex (`MakesUnderLock`); a source is incomplete only while it is being
made (`Unfinished`); a thread locks and unlocks the mutex before it looks, so the sources the RTP thread knows
by their RTP address are complete when it does, and those the RTCP thread makes meanwhile have none
(`LookSees`, `NoSender`, `Answer`); and only such a source is tracked and linked into the
active queue (`TrackedWhole`, `QueueTracked`). An SDES packet between the start of probation and `rtp_update_seq` makes a source active
with its first packet, which rests on no earlier look-up; for it `PInv` keeps that a source on probation has its playout buffer or is being
made (`HasBuffer`, `SdesKnows`), and that the RTP thread has noted its address (`RtpKnows`). That the look-up returns a match if there is one needs
the greatest number that matches: `GreatestExists` of `NaturalExtrema`, from the well-foundedness of the naturals.

`CInv` is why nothing is overcounted although counters are read and written in two steps: what a counter holds, or a thread
is about to write, leaves room for each source that is made and not yet counted (`Room` counts the sources and takes off what each thread
still owes). A lost update only makes it less. `AInv` is the active queue as a sequence of all sources tracked once; a source
enters it at its head. That a walk reaches those and no others is shown on the least set closed under the links.

### RTCP

`IInv` is `TypeOK`, `Standing` (where the RTCP thread is says which locals hold what) and `OneEventEach`. The event is
removed and inserted in one handler, so that the proof needs what insertion does at every place
`rtcp_schedule` may choose: `InsertHolds`, `TailHolds`, and that the place exists (`PassedExists`, by `LeastExists`). That the queue is
not sorted does not matter for it. `OnChain` is the invariant of the parsing: the header it stands on is of version 2 and, in a
compound datagram, the check's walk from the next one ends at the end of the datagram. `ChainEnd` is a recursive function over words; that
it is what its equation says is shown by building it backwards from the last word (`FollowsExist`).

`BooksKept` is the invariant behind `UndisturbedReportsAreRight`. It relates, for each source, what the packets say
(the history `ghost`) to the statistics both threads use. `Tallied`: what was received is counted, and no packet stands for more than
two numbers. `Extended`: the extended number, with the packet the RTP thread has in hand, is as far from the base as packets were
meant, modulo the width of a word. `Carried`: if the last report was undisturbed, what it kept (`expected_prior`, `received_prior`) is
what was meant and received by then; the two are kept at different lines of `rtcp_build_rr`, so that the invariant says which of them is new at
each. `Undisturbed`: while no packet came since the report was begun, what it has read so far is what the statistics
still say. A report may follow a disturbed one, whose kept values are wrong: then the cumulative number of losses is right and the fraction
claims nothing. That the fraction is the one of the packets needs that the losses of an interval, shifted by the
width of the fraction, fit in a word: fewer than 2^24 losses between two reports, which `SessionsAssumption` says of the
bound of the packets (`2 * MaxPackets * Fraction <= Word`). A sequence number has more than two values, 2^16 in the code.

### Payload types

`OInv` is about places: a place is a dynamic payload type of a session. What a place refers to is allocated and not freed
(`LiveIn`), no two places refer to the same definition (`OneOwnerIn`), what is allocated has a place, as long as no session was dropped (`NoOrphanIn`), and the next
address is new (`FreshIn`); static definitions are everybody's. It needs no hypothesis. Announcing a type twice or again by `a=med`
keeps it. Dropping the sessions of a description that was refused, or whose connection ended before an RTP thread was there to clean them up, leaves
definitions without a place: that leak is in the code, and `EveryDefinitionOwned` allows it, and no other. It is about definitions and the
tables `ptdefs` only. What else a second announcement loses are the attributes and private data of the definition it
frees, and the entry of `announced_fmts` keeps its address (`PayloadAgain`).

`RInv` adds the tables: an init function is registered for a format if and only if its parser is (`Tables`, `MatchingIn`), what a
parser plays was announced (`AnnouncedIn`), and the formats up to the cursor of `rtp_thread_create` have their private data
(`Inited`). `MadeFirst`, a constant of the module, says that no controller is made while another one's media are set up; without
it the property fails (`PayloadRace`).

`FInv` says that what is allocated has its attributes not freed, and that no static definition has any (`KeptIn`), and that the formats and attributes the
cursor passed have been announced (`Passed`). `AttributesDefined` is about descriptions: an `fmtp` stands behind the announcement
of its type, which is dynamic, or behind an `rtpmap` that ends the loop. An attribute of a standard type is freed twice
(`PayloadFreed`), and one of a type nobody announced goes through a null pointer. The
descriptions of `Payloads` satisfy it.

### The way of the media

`PInv` says what SETUP has given out: descriptors from the lowest on, two to a medium (`SocketsOK`); ports upwards from
the first even one (`UdpOK`), or channels from 0, with the table in the order of the newest first (`TcpOK`); the request that waits names the two ports or channels of its
medium, and `way` of a medium whose reply came is where its two descriptors are bound. `TransportOK` keeps the delivery: whether a socket
is bound again is decided by the transport *after* the reply is read into it, so that the proof needs that no parameter of any reply
changes `DELIVERY` (`ReplyKeepsDelivery`, for replies of any length) and that the reply for a group sets the port it is bound to
(`GroupPort`). From `PInv`, a port has one owner (`OwnerIs`) and the first entry of the table that has a channel is the right one (`RouteIs`).

`Orderly` is about scenes and servers: the server keeps to the channels asked for, and no other program holds a port the media may ask for
(the result of `sock_bind` is not looked at); one medium may start from any port but the last, which is odd, and be in a group; several are unicast
with a first port that was given, and do not go past the last port there is. Media that all take random ports can get the same (`MediaPorts`); beyond the last
port the numbers start from 0, where the choice is random again. It is the setting of `MediaPath`.

### Assumptions, and what is only model-checked

The proofs assume the `ASSUME`s of the modules, which every run evaluates, and the hypotheses above. The `ASSUME`s say what the constants
are (sets of identifiers apart from `Null`, widths that fit in one another) and nothing about behaviour.

Only model-checked:

- all liveness (`WaitEnds`, `AllPlayed`, `ByeEnds`, `UninitEndsIfUnread`, `CommandsEnd`): fairness and `ENABLED` are beyond the prover;
- `WholeUnits` and `SoundFrames` of `MediaPath`: parsers fold over packets and pieces, and what a fold computes for every
  input is an induction over data, whose theorems take operators as parameters that no installed prover instantiates;
- `Configured` of `PayloadTypes`, for the same reason (`SelectSeq` and its last match over the attributes).

The type invariant of `MediaPath` is there for the reader and is no property of a run; those of
`PlayoutQueue` and `PlayoutBuffer` are proved.

## 5. Plan

Done: the playout buffer and its abstract queue, the RTSP controller, sources, RTCP, transport
negotiation, the path of the media with all depacketizers, payload types; theorems about
all of them and the refinement of the queue. What would add most next:

1. `PlayoutBuffer` under `SsrcQueue`: sources that come off probation with packets queued, so that slots
   held by a source that never becomes active are seen.
2. Two controllers sharing the cursor of `get_curr_sess`.
3. An abstract media path (frames in, frames out, with loss) that `MediaPath` implements.

## 6. Not modelled

- The text of SDP descriptions, requests, headers and URLs, and of SDES items; licences (`cc/`); printing; base64
  and time helpers (`nms_timeval_add` carries only above 1000000 microseconds); `utils/transport.c`;
  the socket wrappers of netembryo but `sock_bind`. They are sequential conversions or pure I/O.
- SCTP, which is built only where its headers are found, and `rtp_def_frmr.c`, which no build lists.
- Allocation failures, except of sources; the error path of `realloc` in `mpa_parse`.
- `RtspControl`, `MediaPath`: RTCP reports of the client sent back through the connection (`rtsp_state_machine.c:261-292`); a
  Content-Length that `body_exists` finds in the *following* message (`rtsp_internals.c:31`); bytes of a
  packet's header that equal a line end; an interleaved packet of length 0, which waits for the next read.
- `RtspTransport`: the channels are in a union with the addresses in the code; a session uses one kind only.
- `SsrcQueue`: sources are never freed while a session lives, as in the code; expiry by timeout does
  not exist there.
- `Rtcp`: `last_sr` and `dlsr`, the average size, APP packets (which are only logged).
- `PayloadTypes`: clock rates, channels and frame-rate fields. Leaks that are visible in the code and no property of a run: the
  attributes and private data of a definition that is announced again (`rtp_payload_type.c:285` frees the definition alone), and the private
  data of all parsers but MPEG audio, since `parsers_uninits` is set by nobody else.
- `RtcpPacket`: the check of the padding of a single packet, so that more datagrams are let through than in the code; the items within an SDES
  packet, whose lengths `rtcp_sdes.c:85` follows unchecked.
- `SsrcQueue`: within `rtp_update_seq`, counting `probation` down and testing it are one step.
- `rtp_get_n_pkt`, `bpkill`, the accessors and the examples.
