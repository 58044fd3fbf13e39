# A formal model of vps-rpc

vps-rpc is a distributed crawler node in Go. A node serves `Fetch` and
`BatchFetch` over QUIC, fetches the pages with browser-like TLS clients from the
addresses its own DNS pool has learnt, keeps that pool in a file, and exchanges
its records with peer nodes. This directory holds TLA+ models of that code, the
TLC runs that check them on small instances, and proofs, checked by TLAPS, of
what holds for every instance.

Contents: [the system](#the-system), [plan](#plan), [modules](#modules),
[runs](#runs), [proofs](#proofs), [fairness](#fairness),
[disagreements](#where-code-and-documents-disagree),
[what is not modelled](#what-is-not-modelled).

Check everything from this directory with `tlc -config <cfg> <MC module>` and
`tlapm DNSPoolProofs.tla` (and the other modules with theorems, see
[proofs](#proofs)); PROJECT.json lists the runs, the source lines each definition
stands for, and one mutation of the model for every property, which makes its run
fail.

## The system

### Components

**DNS pool: records and rotation** (`proxy/dns_pool.go`). State: `records`, per domain
the lists of IPv4 and IPv6 addresses, the black- and the whitelist and the rotation
index, under `mu`; `reservedIPPool` under `reservedMu`; `concurrentRequests` under
`concurrentMu`. Operations: `GetIPs` (resolves when lists are short or old), `NextIP`
and `NextIPs` (selection), `ReportResult` (403 bans, 200 unbans and vouches),
`ReportLatency`, `MergeFromPeer`, and the `save` every resolution ends in. Hard: every
operation extends the same lists; the index counts through a sequence whose length
changes with every ban; concurrent calls of `NextIP` cross three locks that are never
held together. Correct when: no address is listed twice or forgotten, bans are lifted
by reported successes alone, what is vouched for takes part, and addresses are served
in turn.

**DNS pool: file** (same file). State: the file, a temporary file, a timer of half a
second, the times of the last write and of the file last seen. Operations: `persist`
stops the timer and sets it again, `persistNow` writes and renames (from the timer,
from the peer synchronisation, from `Close`), `backgroundHotReload` loads the file
when another program changed it, `NewDNSPool` loads it at the start. Hard: several
writers with one temporary name, crashes between two steps of a write, writes that
fail, a timer that every change puts off, the poll looking at the pool's own writes.
Correct when: the file can always be loaded, nothing saved is lost, what is learnt is
saved once the changes pause, and a foreign edit is loaded.

**Fetch path** (`proxy/utls_client.go`). No lasting state but the clients it
caches; a fetch reads and changes the pool a dozen times: lookup, selection, a
race of two families, a check of the ban, a second selection, three attempts.
Hard: every answer is reported to the pool, by goroutines that may outlive the
fetch. Correct when: an address is banned for a status it gave itself, a ban is
lifted by a test of the address, and every fetch ends.

**HTTP clients** (same file). State: the process-wide map of prewarmed HTTP/2
clients by host and address, and a map of its own in each `UTLSClient`, made for
one request. Operations: `getOrCreateH2Client`, `getOrCreateH1Client`, and
`PrewarmSingleConnection`, which marks a target with a nil client while it dials.
Hard: marks are overwritten and deleted by whoever comes next. Correct when: a
target is prewarmed once at a time, and marks end.

**IPv6 source addresses** (`proxy/ipv6_pool.go`, `proxy/net_cap.go`). State: the
list, the index and per-address counts. Operations: `Refresh` every minute,
`GetHealthyNext`, `RecordSuccess`, `RecordFailure`, and the records of 403 and 429.
Hard: one index over a list that gets longer and shorter. Correct when: healthy
addresses take turns, unhealthy ones are skipped unless all are, and a fetch charges
one of them once at most. An address with five 403s stays out until it disappears
from the system and comes back: no time lifts the ban.

**Probe manager** (`proxy/probe_manager.go`). A goroutine that contacts every
address of every domain from time to time and reports, and a bounded queue with a
worker to which nothing submits. Correct when: closing it ends its goroutines.

**Crawler service and statistics** (`server/server.go`, `server/stats.go`).
State: `recent`, the URLs answered in the last seconds; counters; per batch a
channel of tokens and the answers. Operations: `Fetch` with its window,
`BatchFetch` with a goroutine per request. Correct when: batches keep to their
limit and put answers in their places, repeats are not fetched, requests are
counted once, calls return.

**Admin service** (`server/admin_server.go`). State: the registry of connections,
the running configuration. Reads statistics and resets them, changes limits,
lists logs.

**QUIC RPC server** (`server/quic_server.go`). Accepts connections and streams;
requests carry no type and are told apart by trying to decode them.

**Peer synchronisation** (`client/peer_client.go`, `client/peer_store.go`,
`server/peer_server.go`). State per node: peers known, connections, backoff times,
the marks of synchronisations under way, a file of peers; and what the PeerService
has heard of. Operations: a tick and each discovery start `syncWithPeer`, which
dials, asks for peers, exchanges records and merges them. Hard: concurrent calls
for one peer, late answers, restarts, connections that die and are not dialled again,
peers saved one by one under the lock that all calls need. Correct when: one
synchronisation per peer, peers are remembered, and peers and records spread.

**RPC client** (`client/client.go`, `client/retry.go`, `client/quic_client.go`,
`client/connection_pool.go`). A connection won in a race of two families,
retries, concurrent batches, a pool of gRPC connections whose state changes under
it. Correct when: a batch answers each request once, retries are used up before a
call gives up, dialling ends, and the pool accounts for what it has opened.

**Start and exit** (`main.go`). Connects the parts and closes them in deferred
calls, last first: peers, pool, probes. A goroutine of its own serves, and ends the
process when serving ends. Correct when: what was learnt is in the file afterwards,
and the exit comes to its end.

**The rest**: `config`, `logger` (with a bounded buffer of lines), `server/grpc_server.go`
(not started by `main`), `systemcheck`, `admin` (a client), generated `rpc`, and
command line tools, of which `cmd/seed_dns` and `tools/update_dns_pool.go` rewrite
the pool's file under a running node.

### How they interact

    client -- QUIC --> QUIC RPC server --> CrawlerServer --> UTLSClient.Fetch
                              |                                |  ^ NextIP, GetIPs
                              v                  ReportResult  v  | BlackWhite
    peers  -- QUIC --> PeerServiceServer ---- merge ---->   DNS pool <--> file
                                                               ^
             PeerSyncManager ---- MergeFromPeer, PersistNow ---+
             ProbeManager    ---- ReportResult, resolve -------+

All calls between components of one node are function calls on shared objects,
each of which locks for itself: an operation of one component is a sequence of
steps of others, and what was read in one lock section may have changed by the
next. That is where most of the hazards in PROJECT.json lie.

## Plan

In the order of importance for the program's own work, and with what is done:

1. `DNSPool`, the record of a domain and every operation on it; `DNSRotation`,
   its fairness; `NextIPReserve`, the concurrent half of `NextIP`. **Done**, with
   the proofs of `DNSPoolProofs` and `RotationProofs`.
2. `DNSPersist`, the file, against the abstract `DurableSet`. **Done**, with
   `DNSPersistProofs`.
3. `FetchPath`, a fetch with everything that happens to the pool meanwhile
   (composes `DNSPool`). **Done** for `Fetch`, `dialUTLS`, probes and prewarming
   as far as they reach the pool, with `FetchPathProofs`.
4. `PeerSync`, the peers. **Done**.
5. `CrawlerServer`, the service and its statistics. **Done**.
6. `RPCClient`, dialling, retries, batches, and `ConnectionPool`. **Done**.
7. What stands between a fetch and the network: `ClientCache`, the clients and
   their prewarming, and `SourcePool`, the source addresses. **Done**. They share no
   state with one another, so that the specification that would compose them says
   no more than both: `MCFetchPath` runs them beside a fetch.
8. `NodeExit`, the end of the process, composed with `DNSPersist`; `UpdateTool`, the
   tool that writes the pool's file beside the program. **Done**.
9. Proofs of the safety properties that were only model-checked. **Done**: every
   invariant and every action property of a passing run is a theorem, with no other
   hypothesis than the properties name themselves.
10. Refinements. **Done**: the rotation, the callers of `NextIP` and the fetches
   implement `DNSPool`, the file implements `DurableSet`, alone and with the exit,
   and the service implements `RequestLedger`. **Left**: an abstract specification
   of a bounded pool for `ConnectionPool`, and one of a set that only grows for what
   a node of `PeerSync` knows.

## Modules

Each module says at its head what it models, and each definition names the code it
stands for in PROJECT.json under `map`. Definitions called "mutant of" are
faulty variants, used by no specification: PROJECT.json pairs each with the
property it breaks.

| module | code | state and its counterpart | actions and their counterparts |
|---|---|---|---|
| `DNSPool` | `dns_pool.go` 384-905 | `rec` is `records[domain]`: `v4`, `v6`, `black`, `white`, `idx`; `NoRecord` when absent | `Save` is `resolveAndStore` with the `save` it ends in; `NextIPs`, `ReportResult`, `ReportLatency`, `MergeFromPeer` the methods of these names; `HotReload` is `loadFromDisk` |
| `DNSRotation` | the same | `last`, what the last selection handed out, is history | `Serve` is `NextIPs` remembered |
| `NextIPReserve` | `dns_pool.go` 664-905 | `reserved` is `reservedIPPool[domain]`, `asked` whether the window of `concurrentRequests` has seen a request, `call` each caller's place in `NextIP` | one action per lock section: `PopReserved`, `CheckWindow`, `FindRecord`, `TakeBatch`, `StoreBatch`, `TakeOne`; `Elsewhere` is all of `DNSPool` |
| `DNSPersist` | `dns_pool.go` 89-382, `main.go` | `mem`, `timer`, `lastPersist`, `fileModTime`, the two files, a program counter per goroutine in `persistNow` and for the poll; `mishaps`, what has befallen the file since the start, is history | `persistNow` is `Snapshot`, `Open`, `Write`, `Rename`, `Record`, with `WriteFails`, and `RenameFails` and `Remove`, for its error returns; `persist` is `Learn`, its timer `HalfASecond` and `Fire`; the poll `Look`, `Stat`, `Read`, `Replace`, `Restat` |
| `DurableSet` | abstract | what is known, what is stored, whether the program runs | `Learn`, `Save`, `Stop`, `Start` |
| `RequestLedger` | abstract | requests that ended, were counted, reported, missed | `End`, `CountPending`, `CountAtOnce`, `Reset` |
| `FetchPath` | `utls_client.go` 345-1016 | `fetch`, the locals of `Fetch` and `dialUTLS`, with the two goroutines of the race; `heard`, the last report, is history | the steps between two calls of the pool; `Resolution`, `Probe`, `Prewarm`, `OtherFetch` the rest of the node |
| `PeerSync` | `peer_client.go`, `peer_store.go`, `peer_server.go`, `quic_server.go` 128-420 | per node the peers known and stored, connections, backoff, marks; `unsaved`, the peers the file failed to take, is history; `heard`, the peers a PeerService has heard of; the records of each node | `Begin`, `Enter`, `Dial`, `GetPeers`, `AddPeer`, `SavePeer`, `AllAdded`, `Exchange`, `Merge` are `syncWithPeer` cut at its locks, its calls and its transactions; each call has its failure; `LinkDies` is a connection that dies of idleness or of the network; `Route` is the guess of what a request is |
| `CrawlerServer` | `server.go`, `stats.go`, `admin_server.go` | `recent`, the counters, the calls, per batch its tokens, workers and answers | `FetchBegins` to `FetchReturns` one call; `Acquire`, `WorkerAnswers`, `Leave` one goroutine of a batch; resets and registrations |
| `ClientCache` | `utls_client.go` 250-341, 547-660 | `shared` is `globalPrewarmedH2Clients`, `own` the `h2Clients` of each instance, `user` and `prewarmer` the goroutines | `LookShared`, `Adopt`, `FindOwn`, `BuildH2` are `getOrCreateH2Client` cut at its locks; `Prewarm`, `Prewarmed`, `PrewarmFails` are `PrewarmSingleConnection` |
| `SourcePool` | `ipv6_pool.go`, `net_cap.go`, the end of `UTLSClient.Fetch` | `addresses`, `stats`, `currentIndex` as in the code; `request`, the source each fetch is charged to; `turns` and `denials` are history | `Refresh`, `GetHealthyNext` and `Record` have the methods' names; `Begin`, `Answered`, `FallsBack`, `AllFailed` are the attempts of a fetch |
| `NodeExit` | `main.go` 53-146, the loops of `peer_client.go` and `probe_manager.go` | `main`, the deferred call it waits for; `loop`, the goroutines waited for; `owed` is history | `Signal`, `CloseDNSPool`, `CloseProbes`, `Return`; `ServeEnds`; `Elsewhere` is all of `DNSPersist` but its end |
| `UpdateTool` | `tools/update_dns_pool.go` | `tool`, where it is and what it writes | `ToolReads`, `ToolOpens`, `ToolWrites`; `Program` is all of `DNSPersist` |
| `ConnectionPool` | `connection_pool.go` | `connections`, `currentSize`; `net`, the state gRPC gives each; `getting`, who holds the lock and how far it has looked | one action per connection looked at: `LookReady`, `LookBroken`, `LookOther`; then `CreateConnection`, `DialFails` or `ReturnFirst`; `ClosePool` |
| `RPCClient` | `quic_client.go`, `retry.go`, `client.go` | dials and the channel of their results, the executor's counters, the batch with its channels | `StartDials`, `ReceiveConnection`, `ReceiveError`, `LaterDial`; `Execute`, `Fails`, `WaitEnds`; `Send`, `WorkerAnswers`, `Collect` |
| `MC...` | | values of the constants | |
| `...Proofs` | | | theorems, see [proofs](#proofs) |

What the modules abstract from, and why it is sound for their properties:

* One domain. Records of different domains share locks and nothing else; every
  operation names one domain.
* An address is a value; a status is 200, 403 or "any other", as `ReportResult`
  tells them apart. The orders in which a resolver may answer are all there.
* Go's iteration order over maps, which decides the order of merged lists, is a
  choice among all orderings.
* Time is a count where an interval is compared (`DNSPersist`, units of the
  100 ms margin) and otherwise a step that may happen (`HalfASecond`, `Expire`).
* The content of the pool in `DNSPersist` is the set of changes made to it.
  A write over a file that is longer leaves the end of the old content, `Torn`.
* A peer's records are facts, of which the long ones have a field of at least
  128 bytes: the length is what the routing of a request hangs on.
* A client of `ClientCache` is the target it dials; its fingerprint, whose request
  built it, and the connections it holds are left out.
* The percentages and counts `GetHealthyNext` decides by are compared as integers;
  429s and successes, which no decision reads, count among the requests only.
* `save` and `persist` are the business of `DNSPersist`: `DNSPool`, `FetchPath` and
  `PeerSync` leave the file out, except for `HotReload`.

## Runs

| run | question | instance | distinct states |
|---|---|---|---|
| `pool` | lists, bans, turns and batches under every order of operations; callers inside `NextIP` | 2 IPv4, 1 IPv6, batches of 1 and 8, any file at any time; 2 callers, 1 IPv4, 1 IPv6 | 136633 |
| `fetch` | a fetch while the pool changes; the maps of clients; source addresses | 2 IPv4, 1 IPv6, one fetch at a time and the reports of others; 2 targets, 2 instances, 2 prewarmings; 3 sources in 3 lists, 2 fetches | 165251 |
| `lifted` | is a ban lifted only when the address was contacted? (no) | as `fetch` | counterexample |
| `persist` | is the file whole and durable, is what is owed saved at the exit? | 2 changes, 2 writers, the poll, failing disk, kills, 2 loops | 1441009 |
| `persist_live` | is what is learnt saved at last, an edit taken over, does the exit end? | 2 changes, 1 writer, kills, times within and outside the margin; the exit, or the tool and an editor | 120130 |
| `persist_race` | is the file whole with two writers? (no) | as `persist`, nothing fails, no kill | counterexample |
| `own_write` | does the pool keep what it learnt while nobody edits the file? (no) | as `persist`, 1 writer, nothing fails, no kill | counterexample |
| `exit_lost` | is what was learnt by a signal in the file afterwards? (no) | the same | counterexample |
| `peers` | marks, memory and spreading of peers and records | a seed, a node with 2 goroutines, a node that is nobody's seed; 2 faults, backoff up to 2 | 131534 |
| `peers_routing` | is every exchange answered by the peer? (no) | as `peers`, 1 fault | counterexample |
| `server` | limits, answers, counters, the window, returning | 2 calls, a batch of 3 with a repeated URL, limit 2, 1 reset | 416128 |
| `client` | dials, retries, batches; the pool of connections | 2 families, 3 requests on 2 goroutines, 2 retries; 4 connections, 2 callers, size 2 | 571920 |

`pool`, `fetch`, `persist_live`, `peers` and `client` each explore several things
that share no variable, or do not meet: their initial states say which one is
explored (`explored`) and the others rest, so that the states add up and do not
multiply. A property of one holds trivially where another is explored, and is checked
where its own is. In `persist`, the changes and the writers are alike (`Alike`), which
TLC uses to look at one of each set of alike states: its properties name none of them
and none is a liveness property.

Why the bounds suffice for what each run is about:

* A batch of 8 over 2 or 3 addresses goes round several times and ends inside a
  round; an index at every place of a shrinking sequence occurs. Three addresses
  give a rotation in which skipping and repeating differ, two of one family one that
  `InTurn` speaks of. What depends on larger numbers is proved, not run
  (`BatchSpreads`, `OneFamilyInTurn`).
* Two callers interleave at every lock of `NextIP`; a third would find the same
  pool of reserved addresses in the same states.
* `persist` has two writers, since that many overlap: the timer's, the peer
  synchronisation's and that of `Close` meet two at a time at every step of the
  other. Both may fail, and the process may be killed between any two steps. `Moments`
  is one instant: the margin is compared with the times of the last write and of the
  file last seen, which after a start are 0 or this instant, so that the poll both
  loads and leaves the file. The two loops main waits for are one that it waits for
  before the pool is closed and one that it waits for afterwards.
* `persist_live` has two instants further apart than the margin of 100 ms: writes and
  edits fall within it and outside it. One writer is enough to be put off by changes,
  to be overtaken by the poll and to be waited for. The editor and the tool write one
  change, the program learns the other: with different edits the last would win, and
  nothing is promised of the others.
* `BanAfter` is 2 for the 5 of the code, `FewRequests` 1 for 20: with up to
  `MaxRequests` 2 requests an address is on either side of both and of the
  percentage. The listings are one of all addresses, one in another order without
  the second, and none.
* Two prewarmings and two requests of two instances find one another at every step
  of a mark; a second target tells an entry of one from that of another.
* A pool of 2 connections with 2 callers and 4 names has room for two that were
  dropped while they are still held.
* `peers`: two goroutines that may synchronise with the same peer at once are what
  `OneSyncPerPeer` is about. The third node is nobody's seed: the second one hears
  of it from the seed, after it has called the seed itself (`Introduce`, all of its
  call at once, since two concurrent calls of the second node are what is followed
  step by step). Two faults are two calls that fail one after the other, for which
  the wait doubles, or a failure and a kill, or two kills, at every step. Records are
  explored without kills, and with connections that die at any moment.
* A batch of three with a limit of two makes a goroutine wait for a token; the
  repeated URL meets its first fetch under way and answered.
* `MaxRetries` 2 with `MaxDelay` 3 gives a wait below the bound and one cut to it.

All runs look for deadlocks, and none has one: a program at rest can always be
given something to do. Limits of the models have names and are constants:
`Moments`, `MaxFaults`, `MaxBackoff`, `MaxFetches`, `MaxResets`, `MaxRegistered`,
`MaxRequests`.

### What befalls the file

The properties of the file are not true without exception of this code, and what
excepts them is in the model, not left out of it: `mishaps` remembers, from a start of
the program on, that writes overlapped (`"shared"`), that one failed (`"failed"`),
that another program wrote the file (`"edited"`) or that the poll loaded it
(`"reloaded"`). Each property names the mishaps it does not survive, and those only:

| property | holds until | survives |
|---|---|---|
| `WholeUnlessShared` | writes overlap | kills, failed writes, edits, the poll |
| `Durable` | writes overlap, an edit, or a load by the poll | kills, failed writes |
| `SavedAtExit`, `LearntIsSaved` | any of the four | |

The runs `persist_race` and `own_write` show that overlapping writes and the poll do
what the properties except: an empty file, and learnt addresses lost.

## Proofs

`DNSPoolProofs`. The invariant `PoolInv` says that the record, if any, is `Sound`:
well typed, its lists duplicate free, its whitelist listed. It is inductive as it
stands, but each operation is a composition of the same few helpers, so there is a
lemma per helper ("`Listing` keeps a record sound") from which those per operation
follow. `TypeCorrect`, `ListsDuplicateFree` and `WhitelistListed` are its parts;
`AddressesKept` (`NeverForgets`) and `BansKept` (`UnbannedOnlyBy200`) are action
properties: lemmas of the same shape about what helpers add and remove.
Assumptions: the address families are finite and disjoint, answers, offers and
files contain addresses, and the lists in a file repeat none (its whitelist may
name addresses that are not listed: loading lists them).

`RotationProofs`, the addresses of a domain. `RotationIsPool` maps the rotation to
the pool by forgetting `last`, so its invariants carry over. `BatchSpreads` needs
facts on remainders: two numbers less than n apart have different remainders modulo
n. `OneFamilyInTurn` says that consecutive selections from a record without IPv6
addresses continue one another through every interleaving, whatever addresses there
are (`TurnInv`: the index is where the last call left it, and no larger than the
number `save` compares it with); of a record with both families it is false of the
code (see below), and `InTurn` does not claim it.

The callers of `NextIP`. `ReserveIsPool`: each of their steps calls one operation of
the pool or none, so everything proved of `DNSPool` holds under all their
interleavings. `ReserveInv` says that what is set aside, and what each caller carries
to be set aside, is `Even` (no address comes back before each other one had its
turn) and, until a reload, known to the pool. Evenness is what a batch is born with,
by the facts on remainders, and what taking its head leaves. `SetAsideEvenly` and
`KnownReturned` follow. `NextIPPromise` is what `FetchPath` assumes of `NextIP` when
it uses it in one step: a listed address comes back, or none, and none only if the
record left behind has no candidate.

The source addresses. The draws remembered since the list in use last changed run
through that list from some start and the index is where the next one is
(`RoundFrom`); with that, `SourcesTakeTurns` is the same fact on remainders. Which
addresses are in use is computed by a loop over a list, `HealthyAddresses`, about
which the proof needs that its result lists the healthy ones in their order
(`FilterFacts`). That is an induction: the library's rule takes an operator as a
parameter, which no prover here can instantiate, so `SetInduction` states it for a
set of numbers and is proved from the least element of its complement (`Least`).
For the same reason the loop is a recursive function in the model: `SelectSeq` is a
closed book to the provers. `DeniedSpared` needs the types and that
the history `denials` counts what `stats` does (`AsDenied`). `ChargedOnce` is that the
statistics of an address change at the end of a fetch only, those of one address, by
one request: once at most, for a fetch whose body breaks off charges none, and of the
address `Fetch` draws (`utls_client.go:878`), not the one its connection has left from.

`FetchPathProofs`. `FetchInv` is the pool's invariant, the types of a fetch, and
that a goroutine races only with an address to race with. A step then either leaves
the bans alone (lookups, selections, failures) or is one report of one address, whose
effect on the bans is a lemma of the pool (`ReportResultKeeps`); so `BannedForItself`
reduces to what each kind of step reports, which is of the address it heard from
except in the last resort. Of lifting there is no theorem: a lookup lifts bans of
addresses nobody has contacted, as the run `lifted` shows. `FetchIsPool` shows that fetches,
like the callers of `NextIP`, do nothing to the record but what the pool offers.

`DNSPersistProofs`. All of it is about any number of writers, edits, failing writes,
kills and the poll. `PersistInv` adds to the types that a file once seen stays
(`FileThere`), without which reading `file.mtime` has no value. `FileStaysWhole`
(`WholeUnlessShared`): until writes overlap, one writer at most is on its way
(`OneCarries`), and what it has open is the temporary file, blank until it writes and
its own data afterwards (`TmpIsOwn`), so what is renamed is whole. Overlap is a fact of
the behaviour, remembered in `mishaps`, and no restriction of the writers.

`FileIsDurable` shows that `DNSPersist` implements the safety part of `DurableSet`
until writes overlap, another program writes the file or the poll loads it, and again
from the next start on. The invariant is that the file is part of the pool while the
program runs and that who is on the way to the file carries something in between
(`StoredIsKnown`, `CarriedIsBetween`); every step is then an abstract one, none, or
such a mishap. Failed writes and kills are none.

The exit: a step of `NodeExit` is one of `DNSPersist`, or the end of the process on
the error `Serve` returns (`NodeIsPool`). The lemmas above are proved of
`NextOrEnd`, which allows that end, so that `ExitKeepsFileWhole` and `ExitIsDurable`
follow. `OwedIsSaved` (`SavedAtExit`) follows what is owed on its way: in the pool
until it closes, then with the writer of `Close`, then in the file
(`OwedOnTheWay`), as long as nothing befalls the file: a write under way when `Close`
begins to write overlaps with it, one that fails is not repeated, and then nothing is
promised. `ToolLeavesTypes` is about `UpdateTool`, with any writers, polls and edits: whenever
the tool truncates the file and writes it in place, no truncated or mixed content
gets into the pool. What was in the file may be lost, and is not claimed.

`CrawlerServerProofs`. `ServerInv` adds to the types what each batch has at each
moment (its tokens are as many as the goroutines inside, and those past their fetch
have put their answer in its place), that the counters add up, and that an answered
URL in its window is in `recent` from the moment its answer is stored. Counting
tokens and calls uses the cardinality lemmas of `FiniteSetTheorems`. `LimitKept`,
`AnswersInPlace` and `StatisticsAddUp` are its consequences, `WindowRespected` an
action property from it. Assumption: there are URLs (`SomeURLs`), since what a call
holds before it starts is one. `LedgerKept` maps the service to `RequestLedger`:
visits that ended and are not counted are the calls in `Counting`, and what no
counter and no report has was missed between reading and resetting. So each visit is
counted once and none comes back, which the sums of `CountsAddUp` alone do not say.

`RPCClientProofs`. Dialling, retrying and batches share no variable and have an
invariant each. Dials that have ended are as many as the results received and those
in the channel (`DialsPending`), so when all are received all have failed:
`GivesUpAfterAll`. A call that waits has an attempt left (`CallInv`): `RetriesUsed`.
Every answer belongs to a goroutine that is past its fetch and to no other answer or
response (`AnswersApart`), so a full list of responses has each request once, an
injection of a finite set into itself: `BatchAnswered`. Assumption: cancellation is
no error worth retrying (`RetryableAreErrors`). For `ConnectionPool`, `ConnInv` is
`AccountsForAll` with the types: the list repeats nothing, and removing at an index
what has just been looked at there keeps the counter, the list and what is open
together (`RemoveAtFacts`): `PoolAccounts`. Assumption `NamesSuffice`: there are
names enough for a new connection to be another one than those open or held, as
every connection `grpc.DialContext` makes is.

`PeerSyncProofs`. `OneSyncPerPeer` is inductive with the types: a lemma each for a
call that enters, one that ends, and one that stays with its peer. `PeersRemembered`
needs that the file keeps up with the memory (`FileKeepsUp`): a known peer is in the
file, its transaction has failed, or a call is in that transaction. One call of a node
at a time holds the manager's lock while it adds and saves (`LockHeldOnce`), one peer
after the other (`OneAtATime`), so a kill finds one peer at most that is known and not
saved. Saving all peers after adding them all is the mutant that breaks it.

`ClientCacheProofs`. A target being dialled has exactly one goroutine, and an entry
of the shared map, the mark or a client, until that goroutine ends (`CacheInv`): a
second one never finds the entry absent.

Only model-checked: the ten liveness properties, since fairness and `ENABLED` are out
of the prover's reach (`EveryCallReturns`, `EveryFetchEnds`, `LearntIsSaved`,
`ExitCompletes`, `EditIsLoaded`, `SeedsIntroduce`, `LongRecordsSpread`,
`EveryCallAnswered`, `EveryUseEnds`, `MarksEnd`); and the counterexamples, which are
the business of TLC. No theorem has a hypothesis but the named assumptions on
constants; where a property has exceptions, its statement names them.

## Fairness

* `ReserveSpec`: weak fairness of each call. A goroutine that holds a lock or waits
  for none runs on; the locks are held for a few lines.
* `FetchSpec`: weak fairness of the fetch and of both goroutines of the race. All
  they wait for is the network, and every dial and request has a timeout.
* `DNSPersist`: weak fairness of the timer, of each writer, of the poll and of the
  exit after `Close`. Time passes, timers fire and file operations return. `persist`
  stops the timer and sets it anew at every change: `Learn` takes it from `"due"`
  back to `"armed"`, so that weak fairness of `Fire` promises nothing while changes
  keep coming, and `LearntIsSaved` claims nothing then. Not of `Tick`,
  `Crash`, `Close` or `Start`: nobody has to stop or start the node.
* `PeerSync`: weak fairness of each synchronisation's steps (10 s timeouts; who holds
  the lock saves finitely many peers) and of the end of a backoff; strong fairness of
  `Begin`, because the ticker starts a synchronisation for each peer again and again,
  while the model's few goroutines are taken by other peers in between. Not of
  failures, kills or `LinkDies`: a connection may live or die, and a dead one is never
  dialled again, so that `SeedsIntroduce` and `LongRecordsSpread` end where it dies.
* `ClientCache`: weak fairness of each prewarming, which has a deadline of 5 seconds.
  Not of requests, and not that anything is prewarmed.
* `SourcePool`, `ConnectionPool`: none; only safety is claimed.
* `NodeExit`: as `DNSPersist`; weak fairness of the end of a round, whose calls have
  timeouts; strong fairness of `Stops`, because Go's `select` chooses at random
  between a tick and the closed channel, so that it cannot choose the tick for ever;
  strong fairness of the deferred calls, which in the model compete for the few
  writers, while main in the code writes in its own goroutine. Nothing is assumed of
  `ServeEnds`: the exit completes without it.
* `UpdateTool`: as `DNSPersist`, and the tool comes to its end once it has read.
* `CrawlerServer`: weak fairness of calls and of the goroutines of a batch: a
  fetch has a timeout. A reset or a registration need not happen.
* `RPCClient`: weak fairness of dialling (timeouts), of the executor, of the batch
  and of its goroutines: the server answers or the connection is closed.

## Where code and documents disagree

Shown by runs, and quoted in PROJECT.json:

* `exit_lost`: on a signal main closes its listener, whose `Serve` returns an error
  for which another goroutine ends the process, before main has written the pool.
* `persist_race`: two writers share one temporary file, and the pool's file may be
  empty for a moment.
* `own_write`: the poll reads the time of the last write before it looks at the file,
  takes the pool's own write in between for another program's, and loads it over what
  was learnt since its snapshot (comments at `dns_pool.go:272` and `289`).
* `lifted`: a lookup reports a 200 for every address it finds, which lifts the ban of
  one nobody has contacted (`README.md:8`, `docs/DESIGN_DECISIONS.md:7`: only a local
  test does).
* `peers_routing`: an exchange of short records is taken for a fetch.

Met while modelling and translated as they are, without a run of their own:

* `dns_pool.go:503`: a merge white-lists every address a peer sends, tested by this
  node or not (the comment at 475 says that it leaves the lists alone, and
  `docs/DESIGN_DECISIONS.md:7` that they follow this node's own tests).
* `dns_pool.go:629`: `GetAllDomainsAndIPs` offers banned addresses a peer vouched for,
  while the comments at 612 and 620 exclude the blacklist; only `PrewarmConnections`
  asks for them, and nothing calls that.
* `dns_pool.go:457`: with two families a resolution that adds an address moves the
  rotation (comment at 454: the index is kept).
* `dns_pool.go:722`: a burst that arrives before its batch is stored gets the same
  address (comment at 674: each request a different one).
* `dns_pool.go:692`: an address set aside is handed out though banned since
  (785 filters only when it is set aside).
* `dns_pool.go:248`: a write that fails is logged, and not repeated until something
  else changes; `LearntIsSaved` and `SavedAtExit` except it.
* `dns_pool.go:163`: changes less than half a second apart put off the write for as
  long as they come; a kill loses all of them.
* `dns_pool.go:256`: a writer whose rename fails removes the temporary file, which may
  be another one's by then.
* `dns_pool.go:145`: the modification time is read again after the file is loaded:
  an edit in between is never loaded, nor is one within 100 ms of a write of the pool
  (comment at 272); `EditIsLoaded` is about an edit that finds neither under way.
* `utls_client.go:862`: the second selection after a ban is not checked again
  (comment at 857).
* `utls_client.go:1003`: the last resort dials the domain and reports the status
  for the address that was selected.
* `utls_client.go:327, 335`: prewarming may replace, or on failure delete, the
  client another goroutine uses.
* `utls_client.go:850`: a shared HTTP/2 client keeps the fingerprint of the request
  that built it, whatever later requests ask for.
* `utls_client.go:877`: the source address a fetch is charged for is drawn apart from
  the one its connection leaves from, which takes the next turn.
* `utls_client.go:79`: without a global pool every `NewUTLSClient` opens a pool of its
  own and never closes it.
* `ipv6_pool.go`: `FailureCount` is commented as network errors ("网络错误"), and
  every status of 400 and more but 403 and 429 counts; a body that breaks off is not
  recorded at all.
* `connection_pool.go:87`: a connection in transient failure is closed under whoever
  holds it; a full pool returns its first connection even when it is of no use.
* `probe_manager.go:185`: a probe answered by a 404 is reported to white-list the
  address, and `ReportResult` lists on a 200 only.
* `main.go:62`: what probes and fetches learn while main closes the pool is lost;
  `SavedAtExit` counts what is learnt by goroutines main waits for first.
* `update_dns_pool.go`: writes the file in place; its record lacks `ip_latency`, a field
  of the program's, which is lost. `cmd/seed_dns` writes `dns_pool.bolt` as a bolt
  database, which a node cannot load: its file is JSON.
* `admin_server.go`: `UpdateConfig` takes no lock, and may leave the default number of
  log lines above the maximum.
* `server.go:107`: two concurrent fetches of one URL both go out (comment at 99);
  `CONFIG.md:25` describes the window per domain and address, the code has it per
  URL.
* `admin_server.go:101`: statistics read and reset are two steps; what is counted
  in between is lost to both.
* `client.go`: `EnableRetry` promises that failed requests are retried, and
  `RetryExecutor` retries the errors of gRPC only, which the QUIC client's are not.
* `retry.go:22`: the first wait exceeds `MaxDelay` when `InitialDelay` does.
* `client.go:186`: `BatchFetch` returns its answers in the order they come, with
  failed ones nil; `client.go:241`: `Close` leaves the QUIC connection open.
* `quic_client.go:156`: connections that lose the race are never closed.
* `peer_client.go:486`: a connection to a peer that has died, of idleness during a
  backoff, with the network or with the peer, is never dialled again. The documents
  promise no more (a plan, `docs/DEVELOPMENT_PLAN.md:128`, has 自动重连 for the RPC
  client); the model has it (`LinkDies`, `Crash`), and the liveness properties except it.
* `peer_client.go:594`: a peer is known before it is saved, and one whose transaction
  fails (`peer_store.go:33`) is not saved again. A node whose only seed is itself never
  starts.

## What is not modelled

* TLS fingerprints, user agents, headers, latencies, uptime, formatting, logging:
  data no state depends on.
* `PrewarmConnections` with `GetAllDomainsAndIPs`, the queue of the probe manager
  (`Submit`), the log buffer of the admin service (`AddEntry`): nothing in the program
  calls them, so that their state never changes. `UpdateConfig` and `GetLogs`: main
  registers no `AdminServer`.
* Data races on Go maps (`peer_server.go:37`): the runtime ends the program.
* Start-up and tuning of the system, the gRPC server `main` does not start,
  generated code, command line tools: see the components of PROJECT.json.
