# TLA+ models of fap2-srv

fap2-srv lets a FAP model that lives in one process be created, read and changed
from another. A server accepts connections and gives each one a *session* with
its own thread; a session can create one environment (a model) and answer calls
of it and of its elements by *handles*. On the client side an agent of a local
model (`ARenv`) stands for a whole remote environment, and proxies stand for the
remote elements. These modules model the server's sessions, the protocol and the
client's agent, are checked by TLC on small instances, and are in part proved
for all instances with TLAPS.

Paths below are relative to `src/`. `PROJECT.json` maps every definition that
models code to the lines it models.

## 1. Inventory

| Part | Source | State | Operations | Talks to |
|---|---|---|---|---|
| Session table and threads | `server/sserver.cpp`, `server/sthread.cpp`, `server/sclient.cpp` (178-244) | `sClients`, `sMutex`, `mId`, `mAttached` | accept, join, receive, send a reply, walk the table, leave | one thread per session; one static mutex for the table *and* for every `send()` |
| Request handling and contexts | `server/sclient.cpp` (25-36, 76-175, 246-330) | `mCtx`, `mEnv`, `mAttached` of each session | `HandleMessage`, `Call` (`GetEnv`, `CreateEnv`, `GetId`, `AttachEnv`), `AddContext`, `GetContext` | the model core (external library); after `AttachEnv`, the maps of another session, without a lock |
| Client connection | `client/bclient.cpp`, receive loop of `server/sclient.cpp` | the socket, what is on the way | `Connect`, `Request`, `Disconnect` | TCP, without framing on either side |
| Remote environment agent | `dmas/renv.cpp`, `dmas/melempx.cpp`, `dmas/daaproxy.cpp` | `mRenvUri`, `mRenvClient`, `mRroot`, the proxies' names and caches | `ChangeCont`, `DoMutation`, `AddElemRmt`, `GetNode`, `Name`, the iterator `CompsIter` | a session, through `BaseClient`; of the same server when the agent is in a session's environment |
| Node provider | `dmas/daaprov.cpp` | registry of two agent types | `CreateNode`, `GetNode` | the model core: what it makes goes below "Elem" of the environment's provider |
| Second element proxy | `dmas/elempx.cpp` | none | a constructor | - |
| Legacy requests | `server/r*.cpp` | none that is used | constructed by nothing | - |
| Programs, tests | `server/server_main.cpp`, `client/*_main.cpp`, `test/` | - | - | used here as statements about the system |

What is hard in it, and what each part has to guarantee:

* **Table and threads.** Joins, departures and replies of all sessions go through
  one mutex, under which `send()` may block. The id of a session is the size of
  the table when it joins, sessions leave in any order, and a leaver erases the
  first entry *with its id*. `FindSessionClientById` walks the vector without the
  mutex. Wanted: mutual exclusion; a leaver always finds an entry (the index -1
  is never used); the ids in the table are those of the present sessions; a
  session whose client has gone does leave.
* **Requests and contexts.** Several returns, one exception handler, one
  `AddContext` outside it; two threads that share a session through
  `AttachEnv`, and with it the environment, its provider and its agents.
  Wanted: one answer to each request; handles never change what
  they lead to; a session that is not attached reaches its own objects only; a
  handle answered leads to something; a session gets one environment and keeps it.
* **Wire.** A request is what one `recv()` of 231 bytes returns, an answer what
  one `recv()` of 512 bytes returns; either end may disappear. Wanted: a call
  runs its request at most once and returns its own answer or fails; it returns.
* **Agent and proxies.** Contexts are cached by a uid that is computed from names
  and changes with them; failures of the first of two requests are only logged; the
  server may end and start again under them. Wanted: a proxy keeps standing for an
  element; a mutation never replaces the remote root, nor ends the remote server.
* **Agents in sessions.** `BaseClient::Connect` ignores the address it is given and
  connects to the one port of this very server. An agent in a session's environment
  thus opens another session, whose thread answers while the first one waits, in the
  middle of a request; both need the one mutex. Wanted: every request is answered; an
  agent never keeps the mutex from others.
* **Shared agents.** Sessions attached to one environment use its agents, and so one
  socket, one proxy's name and one cache, from several threads without a lock. Wanted:
  a call gets its own answer, or at least what is mixed up stays bounded: nothing stale
  is left on the way, some thread always goes on, cached proxies stay.
* **Provider.** The registry is tested and filled in separate steps. Wanted: one class
  node for each type, and below "Elem" whenever it can be found.
* **Iterator.** Children are marked removed while a loop over them runs. Wanted:
  a loop uses what was asked for, each once, and misses none.

The hazards, each at its line and with the properties about it, are listed in
`PROJECT.json`.

## 2. Modules

| Module | Models | Refines |
|---|---|---|
| `SessionIds` | what the table promises | - |
| `SessionRegistry` | table, mutex, threads, sockets as far as they block or break | `SessionIds` |
| `SessionContexts` | request handling, contexts, environment, attachment | - |
| `Rpc` | what `BaseClient::Request` promises | - |
| `RpcWire` | one client and its session thread over one connection | `Rpc` |
| `RemoteEnv` | the agent, its proxies, and the session as they see it | - |
| `SharedAgent` | one agent, its connection and a proxy, used by several threads | - |
| `NestedSessions` | extends `SessionRegistry`: sessions opened by agents in the environments of others | - |
| `NodeProvider` | the provider, used by several threads | - |
| `CompsIter` | the iterator over an agent's local nodes, in its loop | - |
| `MCSessionRegistry`, `MCSessionContexts` | symmetry sets for TLC | - |
| `SessionRegistry_proofs`, `SessionContexts_proofs`, `NestedSessions_proofs`, `SharedAgent_proofs`, `NodeProvider_proofs`, `RemoteEnv_proofs`, `RpcWire_proofs`, `CompsIter_proofs` | the proofs | - |

### How a model corresponds to the code

**SessionRegistry.** A thread's `pc` says where it is: waiting in `LockMutex`
(`joining`, `replying`, `leaving`), inside a critical section (`join`, `send`,
`leave`), in `recv()`, handling, or walking the table (`scanning`). Each critical
section is one step because nothing else of the table can be touched in it except
by the walk, which takes one step for each entry it reads. While a walk meets a
critical section that changes the vector, `ScanFault` may end the process: that is
the data race on `sClients`. A reply blocks when `SockCap` replies are unread
(with the mutex held), is lost when the client has closed, and raises SIGPIPE
(`SendBroken`, the end of the process) once the closed socket has been reset: by a
reply that arrives after the close, or by the close itself when replies are unread. The
work of a handler other than `AttachEnv` is the single step `Answer`. A `recv()`
that returns a negative number only logs and tries again: it changes nothing and
has no action. `FindSessionClientIndex` returns positions from 1, and 0 for the
code's -1.

**SessionContexts.** One step for each access to state that another thread could
touch: `GetContext`; `CreateEnv`'s test of `mEnv`, its assignment, `ConstructSystem`,
the `count` and the `insert` of `AddContext`, whose argument is read with the count
(171-173). `GetEnv` answers the handle of the environment as soon as there is one: it may
still be under construction, or have failed: `lost` remembers, for a property, the sessions
in which a `ConstructSystem` threw. The session that `AttachEnv` finds is
any session whose constructor has begun, which includes every one the table could
give (SessionRegistry is about which one it is). The constructor starts the thread
*before* it registers `"EnvProvider"`; both are actions of the accepting thread.
Objects carry the session they belong to and, for environments, the thread that
created them, so that properties can tell two environments of one session apart.
`AddContext` after a call is outside the `try` block: for a uid that is there
already it ends the process. `CallModel` is what the external model core may do with
a call: answer a text, throw, or return an element of the same model. Exceptions
of `Env`'s construction are `CreateEnvThrows`. Two threads in one `std::map`, one of
them writing, may fault (`MapFault`). When the server process ends, `up` is FALSE and
nothing moves any more.

**Rpc, RpcWire.** Messages are rows of pieces tagged with their call, so that
what is checked is which pieces meet in one buffer: `ServerBuf` pieces stand for
231 bytes, `ClientBuf` for 512. `Segments` lets `recv()` return less than was sent.
A buffer filled to its end has no terminating zero, hence the choice `overread` in
`Handle`. A chunk that is not the whole request of one call is run all the same as whatever
request it reads as: `stray` says that this has happened. `wire` is the connection as the client's socket sees it; `SendKills` is
SIGPIPE; `ReadEnd` is `assign(buffer + 2, n - 2)` with `n = 0`, which throws.

**RemoteEnv.** A request is one step here. `ChangeCont` stores its argument and
connects; `DoMutation` takes a chromo apart, a mutation at a time; adding a node is
two requests, `CreateRemoteEnv` and `GetRemoteRoot`, each of which may be answered an
error; a mutation may also change the agent's content, as `ut_renva_cre.xml` does, and so
connect it (`SetCont` is what that shares with `ChangeCont`); `GetNode` creates or finds a
proxy under a proxy. `Rename` is another session's change of the remote model: uids
are computed from names, so the element answers a new uid from then on. `ARenvu` has
the same code except that nodes are added locally (`ApplyOther` covers that), so it is
the same model with fewer actions. `ServerEnds` and `ServerStarts` are the end and the
restart of the server process; `link` is what the agent's socket has been through.
A socket is connected once: after the end (`Gone`) a request throws, because `recv()`
returns 0, or raises SIGPIPE, and a retried `ChangeCont` fails. What is thrown leaves the
rest of the chromo unapplied; a caller such as a session's handler catches it and goes on
(`Caught`).

**SharedAgent.** Two or more threads, each in a call of one proxy (`Name`, `GetNode`).
`Send` is `Request` up to its `recv()`, which takes one or more of the replies that have
come, whoever's they are (`Recv`). The session takes one or more requests that have come
together for one (`Receive`) and sends one reply for them (`Handle`): none of the two
sides frames messages. A reply records the calls whose requests it answers, so that a
property can say whose it is. What `Name` answers is a member of `Text`, and a context is
the text of an answer, so that two elements of one name are one context when a name is
taken for one. `Name` stores the answer in the proxy and returns a
reference to it: `Store` and `Read` are two steps. `GetNode` is three: the test of the
cache, the test of `RegProxy`'s assertion, the insertion. `Fault` is the data race on the
string or on the map.

**NestedSessions.** The actions of SessionRegistry, where the client of a session may be
an agent (`parent`) and its `Connect`, `Ask`, `GetAnswer` and `RemoveAgent` are steps of
the thread that handles a request of the parent; while it waits (`asked`) it does nothing
else. Whether `pthread_create` fails for such a connection is left open, as in
SessionRegistry: then nobody answers (`AgentUnserved`). Nothing destroys the environment
of a session that leaves, so nested sessions may stay for good, and `NestedStopped` allows
for them. `AttachEnv` is left out of this module: several threads with one agent are the
subject of SharedAgent.

**NodeProvider.** `Lookup`, `AppendChild` and `Insert` are the three accesses of `GetNode`
to what threads share; `insert` of a map leaves an entry alone that is there. When `Lookup` does not find "Elem"
the node is registered without being put below anything (40-44). `raced` remembers the types
that two threads have been making at the same time, `orphans` the nodes made without "Elem":
both are there for the properties only. What
`AppendNodesInfo` lists is not state.

**CompsIter.** `Begin`, `End`, `Incremented` and `IsEqual` are the constructor,
`PostIncr` and the comparison, and the variable `agent` tells the two classes apart:
they differ only in the tests for a null root. `Copy` is the copy constructor, which
does not copy the range of children; `ranged` says whether the iterator still has it.
`lost` is a loop that has used a null pointer or what is past the last child: `NoElement`
is when `GetElem` has nothing to return, also for the root before there is one. The loop
itself, from `NodesLoc_Begin` to `NodesLoc_End`, is in the model core; the one in this file
is compiled out.

Definitions introduced by a comment "Slip" are wrong variants of the definition
that follows them. No specification uses them: put in its place, each makes a
property fail, which shows that the property depends on that piece of the code.

## 3. What TLC checks

Run with `tlc -config X.cfg M`, in this directory.

| Run | Configuration, module | Instance | Distinct states |
|---|---|---|---|
| registry_safety | `RegistrySafety.cfg`, `MCSessionRegistry` | 3 sessions, 1 request each, symmetric | 679,227 |
| registry_live | `RegistryLive.cfg`, `MCSessionRegistry` | 2 sessions, 2 requests each, fair | 98,649 |
| contexts_safety | `ContextsSafety.cfg`, `MCSessionContexts` | 2 sessions, 3 requests each, 1 uid, symmetric | 2,390,395 |
| wire_fits | `WireFits.cfg`, `RpcWire` | 6 calls, messages that fit | 152 |
| wire_any | `WireAny.cfg`, `RpcWire` | 3 calls, long requests, segments, fair | 16,730 |
| remote_safety | `RemoteSafety.cfg`, `RemoteEnv` | 2 elements, 3 uids, chains of 3 proxies, a server that ends and starts | 1,042,512 |
| nested_sessions | `NestedSessions.cfg`, `NestedSessions` | 3 sessions, 1 request each, fair | 186,920 |
| shared_agent | `SharedAgent.cfg`, `SharedAgent` | 2 threads, 4 calls, 2 names, fair | 571,157 |
| node_provider | `NodeProvider.cfg`, `NodeProvider` | 3 threads, 4 calls | 979,681 |
| iter_loop | `IterLoop.cfg`, `CompsIter` | up to 3 children of 2 names | 608,974 |

* **registry_safety**: `MutexInv` (a thread is in a critical section exactly when it
  owns the mutex), `IdsBalanced` (the multiset of ids in the table is that
  of the present sessions, although entries are erased by id and may be another
  session's), `LeaverFound`, and the refinement `ImplementsIds`. Three sessions are
  the least for which a duplicate id, and the removal of a wrong entry, can occur
  (two stay, one has left); one request is enough for a walk, a blocked reply and a
  reply to a closed socket. SIGPIPE needs two replies after the close: it occurs in
  registry_live.
* **registry_live**: `LeaveCompletes`. A thread that waits for the mutex waits for
  threads that may block in `send()`, which wait for their clients.
* **contexts_safety**: `OneAnswer`, `Isolation`, `HandlesResolve` (a handle a client
  has been given leads to something, unless it is that of an environment some thread is
  still making or that was never finished), `PrivateEnv`, `HandlesStable`, and `EnvSettles`:
  two threads may both pass `CreateEnv`'s test, but once no thread is between the test and
  the assignment the environment stays for good. Two sessions are enough for every pair of
  threads in one session's maps, as either owner or guest; three requests allow
  `AttachEnv`, `CreateEnv` and a call of what was created, in both threads.
* **wire_fits**: `InSync` (nothing is left on the way when a call has returned, and nothing
  but the client's requests has been run) and
  `ImplementsRpc`, through failed sends, disconnections, resets and the server's end at
  any moment. **wire_any**: `CallReturns`, for messages of all kinds. `runs` and
  `InSync` are not meant to hold there, as `WireLongRequest.cfg` shows.
* **remote_safety**: `ProxiesResolve`, `RootStable`, `MutationsSpareServer`. Three uids
  for two elements leave one to rename to; two mutations in a chromo let a second
  addition follow a failed or a successful one. The server may end at any step and start
  again: proxies then lead to nothing, and never to what the new server has under the
  same uid, because the agent's socket cannot be connected again (`SetContReconnects`
  is what would break that).
* **nested_sessions**: `InStep` (a nested session is at work on exactly one request while
  the thread that uses its agent waits, and on none otherwise), `AgentsSpareMutex`,
  and `RequestsServed`, a circular wait's absence: the thread that waits for a
  nested answer must not hold the mutex that the nested thread needs. Three sessions give
  a session nested in one that is itself nested, and one beside both that competes for the
  mutex. With two requests for each client (set `MaxRequests = 2`) the same properties hold
  in 1,167,543 states, which takes longer than the other runs.
* **shared_agent**: `AnswersForCallers`, `SomeAnswerComes`, `LoneCallGetsOwn`,
  `ProxiesKept`, `AgentGoesOn`. They bound what the lack of a lock can do. Two threads are
  the least that can exchange answers; four calls let one more pair overlap after a first
  pair has been mixed up, and a call run alone after that. Set to five calls the same
  properties hold.
* **node_provider**: `RegisteredBelowElem` (a class node in the registry is below "Elem"
  exactly unless its maker did not find "Elem"), `OneClassNode`. Three threads let one test the
  registry while two make the same class node; four calls let a later one find what is left.
* **iter_loop**: `UsedFit`, `NoneMissed`, `UsedOnce`, for all contents of the map, all
  ids, and removals at any moment. Three children of two names give ranges in the
  middle, at the beginning and at the end of the map.

### Fairness

`registry_live` assumes that a thread that can move does (weak fairness: the
operating system schedules it, and a POSIX mutex is eventually given to a waiter),
and that a client reads what it is sent or closes its connection. The second
assumption is about clients, not about this code, and it is needed: with a client
that does neither, `send()` blocks with the mutex held and no session ever joins,
answers or leaves again. Clients send at most `MaxRequests` messages; with weak
fairness only, unbounded traffic of others could keep one waiter from the mutex for
ever, since `pthread_mutex_lock` promises no order. `wire_any` assumes that the client
in `recv()` and the session thread go on when they can. Nothing is assumed about the
end of the server.

`nested_sessions` assumes the same of the threads, of a thread that gets an agent's answer,
and of the accepting thread for an agent's connection, and that a client outside the
process reads or closes. An agent needs no such assumption: its thread is one of the
server's. `shared_agent` assumes that the session goes on and that *some* thread that can go
on does: a thread in `recv()` may always be the one that another takes the answer from.

### Where the code differs from what it, its documents or its tests say

Each of these runs checks one property and TLC finds it violated; `findings` in
`PROJECT.json` quotes the statement.

| Run | Property | What happens |
|---|---|---|
| registry_id_unique | `IdNamesOneSession` | after a departure, the next session gets an id that a present one has; `AttachEnv` and the erase by id can then meet the wrong session |
| contexts_repeat | `RepeatIsHarmless` | the second answer with the same object throws out of the thread: the process ends |

These further configurations show more of them in the same way, each one property that
TLC finds violated. They are kept for whoever changes the code they are about:

| Configuration, module | Property | What happens |
|---|---|---|
| `RegistryGhost.cfg`, `MCSessionRegistry` | `LeaverRemoved` | with two equal ids the leaver's entry stays and another's is erased |
| `RegistryWalk.cfg`, `MCSessionRegistry` | `WalksExclusive` | the walk of `AttachEnv` meets a change of the vector |
| `ContextsEnvTwice.cfg`, `MCSessionContexts` | `CheckStillHolds` | a session and one attached to it both pass the test "Env already created" |
| `ContextsEnvLost.cfg`, `MCSessionContexts` | `EnvIsPublished` | `ConstructSystem` throws: `GetEnv` answers a handle that nobody has, and `CreateEnv` is refused for good |
| `ContextsEarly.cfg`, `MCSessionContexts` | `ProviderReady` | the first request comes before the constructor has registered `"EnvProvider"` |
| `ContextsAttached.cfg`, `MCSessionContexts` | `AnsweredHandleResolves` | an attached session is answered uids that are registered in its own map and looked up in the other one's |
| `WireLongRequest.cfg`, `RpcWire` | `AnswersMatch` | a request that fills the server's buffer is answered twice, and later calls return earlier answers |
| `WireEnd.cfg`, `RpcWire` | `ReportsFailure` | when the server ends, `Request` throws instead of returning false |
| `RemoteConnect.cfg`, `RemoteEnv` | `ConnectedWhenAccepted` | a repeated `ChangeCont` reports success without a connection |
| `RemoteNoNode.cfg`, `RemoteEnv` | `ProxyHasNode` | the answer for a missing node becomes a proxy |
| `RemoteRenamed.cfg`, `RemoteEnv` | `OneProxyPerNode` | a renamed element gets a second proxy |
| `SharedOwn.cfg`, `SharedAgent` | `CallGetsOwn` | a thread gets the answer to another one's call, or two answers in one |
| `SharedAssert.cfg`, `SharedAgent` | `NothingRegisteredTwice` | two threads find the same context uncached, and the assertion of `RegProxy` fails for one |
| `SharedHang.cfg`, `SharedAgent` | `CallReturns` | requests that run together get one reply, and one of the threads waits for ever |
| `ProviderTwice.cfg`, `NodeProvider` | `OneClassNodeAlways` | two threads make a class node of one type, and both are put below "Elem" |
| `IterEnd.cfg`, `CompsIter` | `StaysInRange` | a loop over children never equals its end and runs past it |

## 4. What is proved

The proof modules have no assumptions but those of the modules they extend: the
sessions and the threads are finite sets without the null pointer, the bounds are
natural numbers (and a socket holds at least one reply, a buffer and a message at least
one piece), the names `"EnvProvider"` and `"MEnv#0"` and the answer `"OK"` are not uids,
what an element answers for its name is none of the words a reply is otherwise made of in
the model, and the null pointer is no object. Three theorems about `RpcWire` have a hypothesis of
their own, `MessagesFit`, explained there. All safety properties that the passing runs
check are proved.

**`SessionRegistry_proofs`** (any finite set of sessions, any number of requests):

* `TypeCorrect`, `MutualExclusion`, `TableBalanced`, `LeaverIsFound`,
  `RegistryImplementsIds`.
* Argument: the inductive invariant is `TypeOK /\ MutexInv /\ IdGiven /\ IdsBalanced`,
  where `IdGiven` says that a session has an id from its registration on.
  `IdsBalanced` says that a pairing of the entries with the present sessions exists
  that respects ids. When a session joins, the pairing is extended by the new
  position and the session, which was paired with nothing because it was not present.
  When one leaves, the entry erased is the first with its id and not necessarily the
  one paired with it: the entry that *was* is paired instead with the session of the
  entry erased, which has the same id. `MutexInv` gives that no other session is in
  the middle of this. A pairing is a bijection between positions and present sessions,
  so the table is as long as there are present sessions: this is why the id given,
  `Len(sClients)`, is the number of sessions present (`SessionIds`), and why a leaver
  finds an entry.

**`SessionContexts_proofs`** (any sessions, uids and number of requests):

* `ContextsTypeCorrect`, `AnswersOnce`, `SessionsIsolated`, `HandlesAreStable`,
  `EnvironmentSettles`, `GivenHandlesResolve`, `EnvIsPrivate`.
* Argument: `Isolation` is not inductive. What is written into a map is `mEnv` of a
  session or the object a thread holds, so the inductive invariant `IInv` adds that an
  environment is its session's own (`EnvOwned`), that a thread of a session that is not
  attached holds an object of its own session (`ObjOwned`), that past the assignment of
  `mEnv` there is an environment (`EnvStored`), and that what is about to be added is an
  element (`AddsElement`). `HandlesAreStable` needs in addition that nothing is under
  `"EnvProvider"` when the constructor gets there (`ProviderLast`), which follows from
  the uids being other names. Steps that only move a thread are covered by one lemma
  for each part of the invariant (`LocalMove`, `OwnedMove`), steps that write a map by
  another (`OwnedWrite`).
* `EnvironmentSettles`: only a thread that stands between the test of `CreateEnv` and its
  assignment writes `mEnv`, and none gets there once there is an environment.
* `GivenHandlesResolve` looks one step back: the handle in a reply that is still to be
  sent resolves already (`ReplyResolves`). An element's handle is registered, and stays so
  since no step takes one out of a map (`HandleKept`). An environment's may be answered by
  `GetEnv` before it is: `EnvTraced` says that wherever there is an environment without a
  handle, a thread is creating one for that session (`Creators`), or it was the last to do
  so and failed, which `lost` remembers. A session once attached is never detached, so that
  one that is not attached never was.
* `EnvIsPrivate` is about sessions that no other one has attached to, and is inductive only
  with the reason why nobody else interferes (`Reach`): what a session has in its map and
  what its thread holds is its own or a visited session's. Hence only a session's own
  thread can call the provider of a session that is not visited (`OwnProvider`), and its
  check (`CheckedHolds`), its construction (`BuiltFirst`) and its publication follow one
  another undisturbed. Without the exception for visited sessions it is false:
  `ContextsEnvTwice.cfg` shows the interleaving.

**`NestedSessions_proofs`** (any sessions, nested to any depth):

* `NestedTypeCorrect`, `NestedInStep`, `AgentsNeverBlock`.
* Argument: an agent is a client, so that each action is one of the registry or leaves
  its variables alone (lemma `NestedIsRegistry`): this is how the module is written, and
  says nothing by itself. What is proved of the registry therefore holds here, and `MutexInv` and the types are used for the
  rest. `InStep` is not inductive: the reply to a nested session could be lost if the
  agent had closed the connection meanwhile (`AskedOpen`), a thread could wait for a
  session that is not its own (`AskedInside`), and a session that becomes nested might
  have requests from before (`FreshQuiet`). With them `AgentsSpareMutex` follows: the
  nested session sends its one reply into an open connection that holds none.

**`SharedAgent_proofs`** (any finite set of threads, any number of calls):

* `AgentTypeCorrect`, `NothingLeftOver`, `NotAllHang`, `LoneCallsAreRight`,
  `CachedProxiesStay`.
* Argument: the first two safety properties are inductive together only (`Flight`): there
  are at most as many requests and replies on the way as threads waiting, and at least
  one if all wait. A lone call (`Lone`) is right since when it begins nobody waits, hence
  nothing is on the way (`NothingStale`), and until another call begins what is on the way
  is its own request or the reply to it.

**`NodeProvider_proofs`** (any threads, any types):

* `ProviderTypeCorrect`, `RegisteredAreBelow`, `ClassNodesAreSingle`.
* Argument: what a thread is about to insert is below "Elem" already unless it is an
  orphan (`InsertedIsBelow`), the nodes that calls make are different ones (`CallsDiffer`),
  so that an orphan stays one (`OrphansStay`); and of a type for which no two threads have been between the test and the insertion at
  once (`raced`), there is at most one maker, no child before it has appended one, and no
  maker after it has inserted it (`OneMakerOf`).

**`RemoteEnv_proofs`** (any remote model, mutations and proxies, chains of any length):

* `RemoteTypeCorrect`, `ProxiesStandForNodes`, `RootStays`, `RootSparesServer`.
* Argument: three facts tie the agent to the session. Nothing was made before the
  connection, which is made once (`Unconnected`), so that no proxy outlives its session on
  a connection to another. A session has contexts only with an environment (`EnvFirst`).
  And between `CreateEnv` and `Root` that environment has answered nothing yet, while the
  agent has no root (`RootFirst`): so `Root` cannot find its uid taken, and a second
  `CreateEnv`, after a root was got, always fails.

**`RpcWire_proofs`** (any number of calls, any lengths, any sizes of the buffers):

* `WireTypes` holds for messages that are cut in any way. That a request is run once at
  most, which is part of the types, needs that a chunk taken for the request of the
  current call begins with its first piece, that this piece is in one place at most, and in
  none once the request was run (`OneFirst`); and that nothing on its way is of a later
  call (`NotAhead`).
* `WireInSync`, `WireImplementsRpc`, `WireAnswersMatch` have the hypothesis
  `MessagesFit`: `recv()` returns what was sent at once (`~Segments`), every request
  leaves room for a terminating zero in the server's buffer (231 bytes in the code) and
  every reply fits the client's. The code does nothing to make this so, as it does not
  frame messages: the hypothesis is what a user of it must see to. The constants of
  `WireFits.cfg` satisfy it; those of `WireLongRequest.cfg` do not, and the run shows
  `AnswersMatch` violated.
* Argument: a call is in one of four states (`Flow`): nothing is on the connection
  (`Silent`), or just its request (`Requested`), or the server has that in its buffer
  (`Taken`), or just its reply is on the way back (`Replied`). The end of the server
  process leads from each of them to `Silent` or leaves the reply to be read. That a call
  made on a connection that is up meets a thread that receives needs `Ends`. In
  the refinement `SendRequest` is the abstract `Call`, `SendFails` is `CallFails`,
  `Handle` is `Run`, the three ends of the client's `recv()` are `Return`, and the other
  steps change nothing of a call.

**`CompsIter_proofs`** (any children, ids and removals, both classes):

* `IterTypes`, `LoopUsesWhatFits`, `LoopMissesNone`, `LoopUsesOnce`.
* Argument: in a multimap the children of one name are an interval of positions
  (`RangeIs`), and a removal changes neither it nor the owners (`SameRange`). `Seek`
  returns the first position that fits, or the end (`SeekIs`); both rest on the existence
  of least and greatest elements of finite sets (`MinExists`, `MaxExists`), which the
  library does not state and which follow from strict inclusion being well-founded. The
  inductive invariant says that the position only grows (`Forward`), so that nothing
  is used twice; that inside the range it is that of a child of the owner wanted, and
  that whatever it has gone past and still fits was used (`Seeking`); and, for the
  root, that there is at most one element and then the end (`RootLoop`).

TLC has checked the inductive invariants on the instances of section 3.

**Only model-checked.** `LeaveCompletes`, `CallReturns`, `RequestsServed` and
`AgentGoesOn`: liveness under fairness is not within the prover's reach.

## 5. What is not modelled

* The model core (`Env`, `Elem`, chromos) is an external library: it appears as what
  it can answer.
* The second proxy, the legacy request classes, the interactive loop of the client
  (`Dispatch`), and the programs and tests (see `PROJECT.json`, components).
* Of the proxies: methods that are stubs; `GetCont`, which makes the request of `Name`
  and keeps nothing; and destruction, which frees vectors that nothing fills.
* `AttachEnv` together with nested sessions: an agent used by two threads that are
  themselves nested. SharedAgent and NestedSessions each have one half of it.
* Names of contexts in a server that has been started again: a new environment is another
  object for RemoteEnv, whatever uid it answers.
* Memory: `SessionClient` objects are never freed by the code, so attachment to a
  session that has left is to a live object. The models keep it so.

## 6. Plan

Done: the modules of section 2, with the proofs of section 4. In order of importance, what
comes next:

* `FapServer`: `SessionRegistry` and `SessionContexts` composed, so that `AttachEnv`
  attaches to the session the table gives for an id. Properties: a request is answered
  from the map of the session attached to; a session attached to one that has left
  keeps its handles. Bounds: three sessions, two requests.
