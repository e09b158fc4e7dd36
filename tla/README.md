# beatermp in TLA+

beatermp is a headless multiplayer server for the racing game BeaterCore
(`src/crates/server`), a wire codec (`src/crates/codec`) and a bridge that lets
Steam clients reach the server (`src/crates/steam`).  This directory holds
TLA+ models of the parts that keep state, configurations that check them with
TLC on small instances, and proofs, checked by TLAPS, that the most important
properties hold on every instance.  File and line references are to the
repository; `main.rs` alone means `src/crates/server/src/main.rs`.

## 1. The system

### How it runs

The server is one process with one thread.  `Server::run` (main.rs:1523)
receives a datagram, or gives up after 10 ms, handles it to completion, then
fires the timers that are due: once a second `tick` evicts clients that were
silent for 15 s, resends unacknowledged packets and pings everyone; at 20 Hz
the phantom host's car is streamed while a race is on; and a race is ended
when its scheduled end or the grace period after the first finish has come.
So handlers never interleave with each other.  What does interleave is what
the clients send: any client may send any event in any order, datagrams are
lost, duplicated and reordered, and a client may fall silent at any moment.
Nothing is persisted.

### Components

| component | state | operations | interacts with | hard part | correct when |
|---|---|---|---|---|---|
| Lobby and race state machine (main.rs) | per client: entry, name, garage, `ready`, `racing`, `finished`; `racing`, `race_go_at`, `first_finish`, `race_end_at`, `last_finish_time` | datagram arrives, ClientInfo, GarageState, Ready, CrossedFinish, Disconnect; `start_race`, `settle_finish`, `end_race`, `remove_client` | the tick evicts; admin commands start races and kick; votes choose the next map | leaves, latecomers and evictions of several clients at once in the middle of a race; back-to-back races | a race starts with the whole ready lobby, goes once its field has confirmed, ends exactly when the field is home, the clock runs out or the lobby empties, and leaves nothing behind |
| Map rotation and votes (main.rs) | `map_index`, laps per entry, votes | `!vote`, `tally`, `vote_leader`, `upcoming`, `set_map` | end of a race, leaves | ties, leavers' votes, changes during a race | a switch takes a majority, the leader follows a race, members know the race that would start |
| Admin commands (main.rs) | `admin_code`, admin flags | `!reqadmin`, `!admin`, `!map`, `!laps`, `!start`, `!kick` | all of the above | a code burnt by someone else; commands during a race | only who redeemed their own code is an admin |
| Reliable transport of the server (main.rs) | per client: `next_seq`, `pending`, `processed`, `inbound`, `next_ordered`, `next_chunk` | `send_reliable`, resend in `tick`, Ack, Reliable | carries every event but car states and pings | lost acks, duplicates older than the window, giving up, chunked events | each event is handled whole and once |
| Join handshake and roster sync (main.rs) | what each client was told of the others | ServerInfo, PlayerJoined, garage commits, PlayerLeft, LobbyChangeMap | lobby, transport | two clients joining at once; a client evicted while alive | everyone in the lobby agrees who is in it |
| Event relay and routing (main.rs, codec) | the streams it reads from and writes to | `handle_event`, `handle_unreliable`, `relay_twin`, `broadcast_twin`, `broadcast_verbatim`, `lobby_peers` | lobby, transport, codec | pieces of several events interleaved and repeated; re-tagging changes how an event is cut | what a game hears of another is what the other said, under its name; a stream has no gap |
| Garage visits (main.rs) | list of waiting visitors at each entry | RequestVisitGarage, VisitGarageResponse, UpdateLocation, StopGarageVisit | leaves | answers name no visitor; the owner leaves, the visitor returns or asks again before the answer; events overtake each other | a visitor gets the answers it asked for and no other; the lobby sees where everyone is |
| Phantom host car state (main.rs) | `race_go_at` | 20 Hz stream | race | none, no state depends on it | |
| Grid slots, maps, parking tables (main.rs, maps.txt, parking.txt) | constant tables | slot of each racer in `start_race` | race | more racers than poses | two cars do not share a pose |
| Command line, sockets (main.rs) | none | | | none | |
| Wire codec (codec/src/lib.rs) | none | encode, parse, the broadcast twins, layouts of the events | all | lengths, options and offsets; a cut datagram | a datagram reads as the frame it was made from and as no other |
| Steam bridge, translation (steam/src/translate.rs) | per peer: `next_seq`, `forwarded`, `inbound` | `from_steam`, `from_beatermp` | server transport, Steam | sends once and ignores acks; drops the ordered index; outlives the server's entry | each event is forwarded whole, once and to its own game |
| Steam bridge, runtime (steam/src/main.rs) | `peers`, `next_peer_id`, a socket for each | connect, disconnect, the two relay loops | Steam callbacks, loopback | a disconnect the server is not told of; a port used again | nothing is lost but what the loopback drops; a player leaves with its game |
| Offline tools (tools/) | | | not part of the running system | | |

`PROJECT.json` lists the same components with what is modelled of each, and
the hazards, each at its line, with the properties that would catch it.

## 2. The modules

| module | what it is |
|---|---|
| `Rotation` | pure operators: tallying votes, the leader, the entry after a race, a majority |
| `RaceLobby` | the server's lobby, race, rotation and admin state; one action per handler, command and timer |
| `RaceCycle` | what the server promises about races: a race takes the lobby, is not disturbed, and ends |
| `MCRaceLobby` | client sets and symmetry for TLC |
| `RaceLobby_proofs` | types, the invariant of the race, votes and admins, and that RaceLobby implements RaceCycle |
| `Link` | the reliability layer in one direction: sender, network, receiver |
| `Delivery` | what the link promises: every event handed over is handled at most once, and in the end once |
| `Link_proofs` | types, that nothing is forgotten early, applied twice or delivered in part, and that Link implements Delivery's steps |
| `JoinSync` | who is told of whom: the handshake, the roster and the cars each client knows of |
| `MCJoinSync` | symmetry for TLC |
| `JoinSync_proofs` | types, that ids are not reused, and who knows of whom |
| `SteamBridge` | the bridge process between Steam's connections and the server's port, and the server's side of it |
| `SteamBridge_proofs` | types, that a game hears only its own, and that its messages are accounted for |
| `SteamBridgeHeard_proofs` | what a game hears: each event once, in order, and all that is acknowledged |
| `GarageVisits` | visits to another player's garage: requests, answers, returns, and what the lobby is told |
| `GarageVisits_proofs` | types, that a list of visitors is never stale, that no answer is unasked, and that the lobby is told where everyone is |
| `Wire` | pure operators: frames, chunks, twins and car states as bytes |
| `Relay` | the server as a relay of those bytes, between two streams of datagrams |
| `Relay_proofs` | that datagrams read back as what they were made of, types, and that the streams are dense and what is heard was said |
| `SequenceFacts` | lemmas about queues and sequences that four of the proof modules share |

`Link` and `Delivery`, and `RaceLobby` and `RaceCycle`, are a detailed and an
abstract specification of the same thing.  `Relay` extends `Wire`, `RaceLobby`
extends `Rotation`.  `SteamBridge` puts the server's sender of `Link`, cut down
to what its questions need, together with the bridge's receiver and the second
hop behind it, which may fail.  `JoinSync` and `GarageVisits` take from `Link` what it shows,
that an event is handled at most once, and in `GarageVisits` also that it is
handled in the end.

### RaceLobby and the code

`clients: HashMap<SocketAddr, Client>` is modelled field by field.  A Boolean
or optional field is the set of clients that have it (`info`, `lobby` for
`garage`, `ready`, `racers` for `racing`, `finished`, `admin`), `vote` is a
function.  `racing`, `goSent` (`race_go_at`), `graceOn` (`first_finish`),
`endDue` (`race_end_at`), `lastFinish`, `map` and `laps` are the server's own
fields.  `results`, `hostTime` and `told` record the messages that properties
are about: the finish times announced in the race, and the upcoming race each
lobby member was last told of.  The other messages are left out.

Every handler is one action with all it calls inside: `Ready` may start the
race, `CrossedFinish` settles it, `RemoveClients` drops the entries of one
client (Disconnect, `!kick`) or of several (the tick) and ends the race if the
lobby emptied or settles it.  `EndTimer` and `GraceRunsOut` are the two timers
of the event loop; time itself is left out: a timer that is set may fire at
any moment.  The code evicts timed-out clients one after the other inside one
tick; the order does not matter to the state the model keeps, so the model
removes them together.  An admin code is right or wrong; a map is named by
its number; both are refused outright for clients outside the lobby, as only
chat of lobby members is heard.

### Link and the code

The sender is `send_reliable` (one packet per chunk, numbered from 1), `tick`
(drop what was resent `MAX_RESENDS` times, and so sent 16 times with the code's
15, resend the rest) and the Ack handler.  A packet sent less than a second before the tick is not resent; the
server reads the clock once for the tick and again for the resend, so even a
packet resent by the previous tick may be skipped, and the model lets the tick
skip any packet sent since the last one.  The receiver is the Reliable handler:
it acknowledges, drops numbers among the last `Window` processed (256 in the
code), and counts the chunks of an event.  The Steam bridge's `Peer::deliver`
is the same receiver with an unbounded memory; `SteamBridge` has it.  The game's client is not in the repository: where it is the sender
or the receiver it is assumed to do as the server does.  The network is a set
of copies: a copy may be received again, in any order, or lost.  Bytes are
counted in chunks.

An event the sender gives up on, and a window that is too narrow for the load,
do break the promise of `Delivery`; the constants say when they do not:

* `MaxLost <= MaxResends` in the run: there are fewer losses than sends of any
  one packet.  The safety properties, and the theorems, need no such bound.
* `Lifetime` bounds the load.  Fewer than `Lifetime` packets are sent while one
  packet is still in use (unacknowledged, or with a copy in the network), and
  `2 * Lifetime - 1 <= Window`.  With the code's window of 256 that is 128
  packets while one packet is in use, about 17 s with all its resends.  This is the
  direction from a client to the server, whose reliable events are few: the
  receiver in the other direction, the Steam bridge, forgets nothing, and needs
  to, since avatar states alone are relayed reliably at up to 20 Hz a player.
  Beyond that load a retransmit is applied twice; the mutant of `AppliedOnce`
  remembers one number less, and TLC finds it.

### JoinSync and the code

The server's side is `id`, `named` (`info`) and `lobby` (`garage`) of each
entry; `Entry` is the insertion at the top of `handle`, `Welcome` the
`server_info` and commits of ClientInfo, `CommitTargets` the recipients of
`broadcast_reliable`, `LobbyAfter` and `Told` the removal and PlayerLeft of
`remove_client`.  Ids are bounded by `MaxIds`; a client that would need one more does
nothing.  Events reach a client once each and in any order, as `Delivery`
promises (only the commit of a garage that arrives is sent ordered); giving up on one is not modelled.
The client is the game, which is not in the repository.  It is assumed to send
ClientInfo until it has ServerInfo, then its garage, again whenever the car
changed, and to list and show what the events say.  `TimeOut` covers a client
that died and one that is alive and was only silent.  The latter comes back
under a new id with no name, may have missed any of what it was owed, and may be
`deaf`: the new entry numbers its packets from 1, and the comment at
`Client.next_seq` says that a client drops numbers it does not expect.  A client
that restarts on its old address before it is evicted is not modelled.
`overlapped` records the pairs of ids that were both between ClientInfo and
garage: the first of them to finish is listed by ServerInfo or PlayerJoined to
nobody who was still in the handshake, so the other sees its car and not its name.

### SteamBridge and the code

`peers` is the bridge's map of the same name: each peer has its socket's port
and the fields of translate.rs (`next_seq`, `forwarded`, `inbound`).  The main
loop of steam/src/main.rs is one action per event and per datagram:
`Connected`, `Disconnected`, `RelayUp` (`from_steam`), `RelayDown`
(`from_beatermp` and `deliver`, the ack first, then `HandToSteam`).  Steam may
refuse an event, on a connection that is up as on one that is down; the bridge
only logs that, and `refused` records it.  Of the server there is what the
bridge can see: `Handle` is the top of `handle` with the Ack and Reliable cases,
`SendReliable`, `Resend`, `GiveUp` and `TimeOut` are the sender, the tick's
resend, its giving up after `MaxResends` and its eviction.  `givenUp` records
the packets it has given up on.  A packet is what `deliver` looks at: its event, its piece and
how many there are, its chunk id.  The loopback delivers in order and may drop
a datagram (`Drop`, when a socket buffer is full); it neither duplicates nor
reorders.  A send of the bridge to the server that fails is a dropped datagram too.
The tick waits a second before it resends and both loops read their sockets
every few milliseconds, so a packet is only sent again when neither a copy nor
an ack of it is on its way.  `heard` is what Steam was handed for each game and
`handled` what the server took from it; Steam itself delivers reliably and in
order.  Numbers are never capped in the code; `MaxPeers`, `MaxClients`,
`MaxSaid`, `MaxPackets` and `MaxLost` bound the behaviours.

Two constants say what the environment may do.  `MayStall`: a game that stays
connected may send nothing for 15 s; the run `bridge_stall` allows it.
`MayReusePorts`: a new socket may get the port of a peer that has just gone,
before the server has timed that client out.  Nothing prevents it, but systems
do not hand out ports that were just in use, and no document says anything of it.
The run and four of the theorems exclude it; with it, TLC finds
`UpwardAccounted`, `HeardByItsOwner` and `HeardInOrderUnlessDropped` violated,
as the server takes the new game for the old one.

### GarageVisits and the code

`visitors` is the list at each entry.  `RequestVisitGarage`,
`VisitGarageResponse` and `Tagged` are the arms of `handle_event`, `Join` the
GarageState that puts a client into the lobby, `RemoveClient` the removal of
the entry with its list.  `toClient` are the events on the ordered stream to a
client that a game acts on, in order; `told` is what each client was last
told of where another is, which the same stream brings in the same order and
is therefore recorded as it is sent.  `toServer` are events on their way from a
client: the server ignores their order, so `Receive` takes any of them, and
`overtaken` records that it took a later one first.  A broadcast that a player
has entered is two events with the same content, and so is the return to the
hub; they count as one.  The games are not in the repository: a game asks for one garage
at a time, from a player list that may be out of date, may leave before it is
answered, and answers every request (the comment at main.rs:1351 says so).

### Wire and Relay and the code

`Wire` is the part of the codec that every datagram passes: `Encode` and
`Parse` are `encode` and `parse` field by field (`Parse` is where the cursor
stands at each field and what it refuses), `Pieces` is `chunks`, `WithPiece`
the copy into the reassembly buffer, `WithSender`, `EncodeReadyBroadcast` and
`EncodeCarBroadcast` the re-tagging, `Twins` the table of broadcast twins.  Bytes are digits of a number
system with base `Base`.  The layouts of the other events are pure functions,
which the crate's own round-trip tests cover.

`Relay` has a stream from each game to the server and one from the server to
each game.  `Handle` is the Reliable and Unreliable cases of `handle`,
`HandleEvent` and `HandleUnreliable` the functions of those names as far as
they pass something on; `HandleNamed` are the arms for events with a name.
A Ready that comes reliably is read as one byte and written as 0 or 1; one that
comes unreliably has its body passed on.  A payload of less than four bytes names no event,
and the server passes it on as it came, from outside the lobby too.  If it is
empty and came reliably, each member's stream has an ordered index of which no
packet tells.  A reliable datagram stays in its channel, so that it
may arrive any number of times and in any order; acks and giving up are
`Link`'s.  `Completed` and `AfterPacket` serve as the server's receiver and as
`Peer::deliver`, which do the same; other games are taken to read as the bridge
does.  The pace of avatars is not modelled: any of them may be dropped.

## 3. The runs

The race and link runs check deadlock: a client can always send, and in `link`
the tick can always fire.  The others do not (`CHECK_DEADLOCK FALSE`): once
the last id, message or packet of the bound is used up and everything on its
way has arrived, nothing is left to do.  Two workers are enough.

| run | instance | shows |
|---|---|---|
| `race` | three clients, one of them may become admin, one map | `RaceHasALobby`, `EndIsDueWhenAllAreHome`, `NothingLeftOfTheLastRace`, `GoWaitsForEveryone`, `StartIsUnanimous`, `ImplementsRaceCycle` (with its fairness), `AFinishEndsTheRace` |
| `commands` | two clients who vote, one may become admin, two maps, two lap counts | `TypeOK`, `LobbyKnowsTheNextRace`, `VotesAreForAnotherMap`, `RaceIsFixed`, `SwitchNeedsAMajority`, `VoteDecidesTheNextMap` |
| `link` | four packets, events of one or two chunks, one resend, one loss, window 3 | `TypeOK`, `AppliedOnce`, `DeliveredWhole`, `ResentUntilHeard`, `ImplementsDelivery` |
| `join_sync` | two clients, three ids | `TypeOK`, `OneSeesTheOther`, `MembersKnowEachOther`, `LeavesAreForTheGone` |
| `bridge` | two Steam connections after one another on one port, two client ids, two messages up, two packets down in events of one or two, one resend, one loss | `TypeOK`, `HeardOnce`, `HeardByItsOwner`, `AckedIsHeard`, `HeardInOrderUnlessDropped`, `UpwardAccounted`, `PlayersDoNotOutstayTheirGame`, `EventsAreHeard` |
| `visits` | three clients, one of whom comes late, two requests, one of them quits | `TypeOK`, `AnswersAreAskedFor`, `WaitingMeansAnAnswerIsComing`, `LobbySeesWhereEveryoneIs`, `EveryVisitorIsAnswered` |
| `relay` | two games, one joins, two events of seven kinds that fit or do not fit into a datagram, or payloads of no or three bytes | `TypeOK`, `HeardAsSaid`, `FramesAreUnambiguous`, `OrderedStreamIsDense` |

Bounds.  Three clients are a racer who acts, one who waits and a latecomer or
one who leaves with another; two suffice where one client's commands and
another's stay in the lobby are what matters.  Two voters and two maps show a
tie and a majority of one and of two; for more of both there is the proof.  One
race time suffices where times are only recorded; `host_last` uses two.
`Voters` and `Askers` say which clients use chat commands, so that each run
spends its states on its own question.
Races, votes and commands are unbounded in number: the states repeat.
In `link` four packets with window 3 are the least for which the receiver
forgets one, a two-chunk event may be cut by every other packet, and one loss
with one resend exercises giving up and loss of a packet or of its ack.  The
properties of `JoinSync` are of pairs, so two clients show them; three ids let
one of them come back.  In `bridge`, peers on different ports share nothing but the
server's input queue; two of them one after the other on one port are
the case that could mix them up.  A two-packet event, its loss and its resend
fit into two packets; more messages and packets are for the proofs.  With one
loss the server gives up only on the packets of a peer that has gone; giving up
on one that is there takes two, and is left to the proofs.  In `visits`
three clients are an owner and two visitors, or an owner, a visitor and an
onlooker, and two requests are two of one visitor, or one of each of two, or
each other's.  In `relay` a byte has eight values, a chunk ten of them, which
is enough for numbers of more than one digit in every field, for an event that
leaves in one datagram and arrives in two, and for one that is cut at other
places on its way out.

Five runs state what a comment or the README says and the code does not do
(`findings` in PROJECT.json has the quotations):

| run | what TLC finds |
|---|---|
| `grid_confirm` | the only racer who had not confirmed leaves at the grid; everyone left has confirmed and no RaceGo is sent, since only a Ready message looks |
| `host_last` | the slower finisher's message arrives first; the phantom host is announced ahead of that real finisher |
| `send_count` | a packet nobody acknowledges is sent once and then resent `MAX_RESENDS` times, one send more than the constant's comment says |
| `join_ghost` | a client leaves between ClientInfo and its garage; the lobby was told it joined and is not told it left |
| `bridge_stall` | a Steam player is silent for 15 s and comes back; the server numbers its packets from 1 again, and the bridge acknowledges and swallows them as retransmits |

Fairness.  `RaceLobby` assumes only that a timer that stays due fires: the
event loop wakes every 10 ms whatever arrives, and reads the timers each time
round.  Nothing is assumed of the clients, so nothing is claimed that needs
one to act.  `Link` assumes that the tick goes on firing, and that a copy that
stays in the network is received; losses are a step of their own and bounded.
`JoinSync` assumes no fairness and has no liveness property: what a client is
still owed counts as known.  `SteamBridge` assumes that bridge and server go on
reading their queues and that the tick goes on firing; both are loops that never
wait for anything but a few milliseconds.  That is all `EventsAreHeard` needs:
games are not assumed to say anything.  A resend that is due happens or the
packet is given up, and Steam may refuse an event: that it was heard or refused,
or that a packet of it was given up, is all that is claimed.
`GarageVisits` assumes that an event on its way is handled (`Receive`, what
`Link` shows) and that a game that is there handles what it is sent (`Hear`);
it assumes of no game that it asks, returns or stays.  `Relay` assumes
nothing: it only has safety properties.

Each property is paired with a small, plausible fault (`...Fault` operators
beside the definitions they vary, `mutants` in PROJECT.json) under which TLC
finds it violated.

## 4. The proofs

The theorems hold for any number of clients, maps, lap counts, race times,
games, messages, packets and losses.  The assumptions are those of the modules:
`NMapsAssumption` (the rotation is not empty; the command line falls back to
a default map), `InputsAssumption`, `NoCodeAssumption` (the value that stands
for no code is not a client), `LinkAssumption`, `RateAssumption`,
`BridgeAssumption`, `VisitAssumption`, `WireAssumption` (a byte has more than
four values, for the tags, and a datagram's size fits two of them: 1000 in the
code) and `RelayAssumption`.  Some theorems have further ones in their
statements:

* `GamesHearTheirOwn`, `MessagesAreAccounted`, `EventsAreHeardInOrder` and
  `AcknowledgedIsHeard` of `SteamBridge`: `MayReusePorts = FALSE`; the last one
  `MayStall = FALSE` too, as the run `bridge_stall` shows it must.
* `TypesHold`, `StreamsAreDense` and `HeardIsSaid` of `Relay`: in states with
  `NumbersFit`, that is, while no sequence number, chunk id or ordered index
  is more than four bytes hold, and no event is longer than that.  The code
  does not look out for more, and an id that came round again would be another
  event's.  All states of the run `relay` satisfy it.
* `HeardIsSaid`: `CARSTATE` is not among the events games send reliably, as the
  comment at main.rs:25 has it.  A reliable one would be re-tagged as any event
  and not be read as a car state.

`RaceLobby_proofs`.  `TypeCorrect` comes first; it needs that the leader of a
vote is a rotation entry.  None of the race properties is inductive alone, so
`RaceInv` conjoins them with how the sets nest: racers and finishers count
only during a race and racers are in the lobby, votes are of members.  With
that, `EndIsDueWhenAllAreHome` is preserved because every step that shrinks
the field or extends the finishers settles; a latecomer's or a re-created
entry's finish does not disturb it as it only concerns racers.  From
`RaceInvariant` follow `RaceNeedsALobby`, `EndIsDue`, `CleanBetweenRaces` and
`VotesMakeSense`, and the action properties `FieldAndMapAreFixed`,
`StartsAreUnanimous` and `GoWaits`; `LobbyIsTold` is inductive with the types.
Counting votes needs that the lobby is finite: it starts empty and grows by one
client a step (`LobbyIsFinite`), whatever the set of clients.  Then the tally of
a finite lobby with a vote in it has a leader, so after a race the map is one
with the most votes, or the next one of the rotation without any
(`VotesDecide`); and a map set by `!vote` has more than half of the lobby
behind it, of which the caster is one (`SwitchesTakeAMajority`).
`RefinesRaceCycle` shows that every step of RaceLobby is a step or a stutter
of RaceCycle: with a race on and nobody left in the field, `endDue` gives the
abstract `Finish` its guard.

`Link_proofs` builds three invariants on each other.  `LinkInv`: types, what
travels was sent, what is acknowledged was processed; `NeverForgottenEarly`
follows.  `WindowInv`: what is in use was sent among the last `Lifetime`
numbers, and whatever was processed after a packet still in use is its
neighbour.  If a copy arrived whose number was processed but is forgotten,
`2 * Lifetime - 1` distinct neighbours would have come after it, and there are
only `2 * Lifetime - 2`: `NothingIsAppliedTwice` by the pigeonhole principle.
`ChunkInv`: what is counted for an event is the number of its packets that
were processed, until all of them are; `EventsArriveWhole` and
`RefinesDelivery` (initial states and steps, hence at most once) follow.

`JoinSync_proofs`.  `IdsInv`: ids are distinct, everything on its way names ids
already given out, and a PlayerLeft on its way nobody who is there
(`LeaversAreGone`).  So what one client knows of another that stays is never
taken from it (`StepKeeps`), and it remains to look at who appears: sending a
garage shows the sender to every member who hears (`SomeoneSees`).
`MembersKnowEachOther` is not inductive alone: `KnowInv` adds that the asking
know the members and are listed by them, and that any two of the asking overlap
(`MembersKnow`).

`SteamBridge_proofs`.  `TypeInv` splits `TypeOK` into the state of Steam, of
the bridge, of the server and of what is on its way.  `OwnInv` says who owns
what: a port belongs to one peer that is there (`PortsOwned`), an id of the
server to one port and what is addressed to it to the peer on that port
(`IdsOwned`), and what a peer holds or has forwarded was said to its own game
(`GamesOwned`); `GamesHearTheirOwn` follows.  `UpInv` has that a peer numbers
without gaps and the numbers on its way or processed were said (`Numbered`,
`SaidByPeers`), from which each message is handled, on its way, or dropped by
the loopback, and never two of these (`MessagesAreAccounted`).

`SteamBridgeHeard_proofs` takes `TypeInv` and `OwnInv` from there.
`PacketInv` describes what was sent: the packets of an event are numbered one
after the other and are all there, they agree on how many they are and on the
chunk id, no two events share that id, and an entry is ahead of all it has sent.  `OnceInv` is why nothing is heard twice: once an event
was heard it is `Spent`, too few of its packets are left that the bridge has not
forwarded for it to be complete again, even if a fresh entry has reassembly
begin anew; each packet taken off the queue is one fewer.
`TurnInv`: the entries of one socket follow each other, and so do their copies
and what was heard of them.  `OrderInv`: unless something was dropped, every
packet sent has reached the peer or waits at its socket (`AllSent`), those that
wait for the first time do so in the order of sending (`QueueInOrder`), and none
of them is of an earlier event than one heard (`HeardBefore`);
`EventsAreHeardInOrder` follows.
For `AcknowledgedIsHeard`, `AckInv` says of every peer, its connection up or
down, that its entry is the one it has served all along (`Served`: every packet
no longer pending was forwarded or given up, and a forwarded event was handed
to Steam or is half read, `Counted`), or that no entry has sent it anything yet
(`Blank`), or that its game is gone or has said goodbye and it only acknowledges
what is still on its way (`Parted`).

`GarageVisits_proofs` has three invariants, each on top of `TypeOK`.
`WaitInv` adds that games that have not joined are silent; an owner's list and
the request or answer that will empty it then come and go in the same steps
(`NoStaleVisitors`).  `AskedInv` counts: the answers a visitor has had, those
coming, its requests on their way, and how often it stands in the list of
whoever holds the id are together no more than it asked.  Each handler moves
one unit from one of these to the next; that no id is held twice (`OneEach`)
keeps the lists apart.  `NoAnswerUnasked` drops the last two terms.
`SightInv` looks at the moves (requests and returns) on their way: they
alternate and end with where the player is (`InOrder`), and between them
everyone else sees the player where it was, in the hub if a request is next
(`InSight`).  An owner who left is not held against the server since ids are
not given out again (`PlacesKnown`).  `LobbyIsShownEveryone` is the case of
no move left.  `SequenceFacts` has what these need of appending to, removing
from and counting in a queue.

`Relay_proofs` begins with the codec.  The digits of a number, as `Le` takes
them off and `Word` puts them together, are compared one by one, which needs no
power of the base (`WordOfLe`, `LeOfWord`).  `At(buf, at, s)` says that the
bytes `s` stand in a buffer at a position; a frame's encoding is the
conjunction of where its fields stand, each behind the one before
(`ReliableAt`).  `Shape` is what `parse` tests, with nothing left over: a buffer
of that shape is the encoding of what it reads as, reads the same with bytes
after it, and is refused when cut anywhere.  Frames have it whatever their
numbers, so `FramesReadBack` needs no bound; that a frame reads as itself and
not as one whose numbers are equal in their lowest four bytes does (`RoundTrip`).
The pieces of a payload cover each of its bytes once (`PieceOfByte`), so an
event that has counted all its bytes has all its pieces, and is what was cut
(`WholeBytes`).
`RelayInv` then has, for either direction of each connection, the set of
events sent so far with the numbers they were given, no number to two of them:
the datagrams are exactly their packets (`Log`), the numbers a reader has seen
are theirs, and each event it has half read holds the pieces that are in at
their places (`ReadSoFar`).  The set is existentially quantified: it is no part
of the state, and each step extends it.  What a reader completes is one of
those events, which was said (`SaidBy`) or tells of what was said (`Told`: the
bytes of `broadcast_twin`, of `EncodeReadyBroadcast` and of `EncodeCarBroadcast`
read back as what they are made of behind its sender's id, chat and what names
no event as they came), whence `HeardIsSaid`; the set to each client has
no ordered index twice, and all of them unless an empty payload was said
(`Dense`, `EmptySaid`), whence `StreamsAreDense`.
`NumbersFit` only turns from true to false, which makes the implication
inductive; it holds in the beginning (`FirstNumbersFit`).

Only model-checked:

* the liveness properties (`AFinishEndsTheRace`, `PlayersDoNotOutstayTheirGame`,
  `EventsAreHeard`, `EveryVisitorIsAnswered`) and the fairness part of both
  refinements, which TLAPS does not reach;

Every other property of the passing runs is a theorem, those of `Relay` under the
conditions named above.

## 5. Not modelled

* The tables (`maps.txt`, `parking.txt`), the grid slots, the command line and
  the set-up of sockets: constants and lookups without behaviour over time.
* The phantom host's car and the pings: nothing reads what they leave.
* Chat text, and naming a map by a fragment of its label: commands arrive parsed.
* The layouts of events beyond those in `Wire`: pure functions with round-trip
  tests of their own.
* The map told to a joining client (ServerInfo, LobbyChangeMap): a race start
  carries its own.
* A client that restarts on its old address before it is evicted.
* The pace of avatars (`AVATAR_RELAY_INTERVAL`): the model may drop any of them.
* What a game makes of a gap in the ordered stream, where the server gave up on
  a packet or passed on an empty payload:
  the reader of that index is the game.
* The bridge's failed accepts, which it only logs, and its JSON log.
* `tools/`, which does not run with the system.

## 6. Plan

In order of importance; the modules above are done.

1. `RaceLobby` over a link that reorders: a Ready of the lobby that arrives at
   the grid, a finish that arrives in the next race, the Disconnect of a kick.
2. `JoinSync` with the map each client is told (ServerInfo, LobbyChangeMap), and
   a client that restarts on its old address.
3. `GridSlots`: the slot of each racer against its definition.
4. Proofs: that `Relay`'s numbers fit, from a bound on how many events are
   said (each is cut into boundedly many packets, and is passed on once); the
   types and the agreement of rosters of item 2.
