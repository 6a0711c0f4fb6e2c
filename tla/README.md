# A TLA+ development of anraft

anraft is a C++ port of the etcd raft library, in progress: `src/src/anraft` holds the
library, `src/src/rafthttp` a transport, `src/examples/raftexample` an application. These
modules model what the code does today, line by line of its control flow, stubs and slips
included; where a comment of the code promises something else, a run shows the difference.

## 1. Inventory

| component | source | state | operations | model |
|---|---|---|---|---|
| Raft state machine | `raft.cpp`, `raft.h` | `term_ vote_ state_ step_func_ tick_func_ lead_ votes_ prs_ learner_prs_ msgs_`, two tick counters, the randomised timeout | `Step`, `Tick`, the three step functions, the role changes, `Campaign`, `Poll`, `MaybeCommit`, `HandleAppendEntries`, `SendAppend`, `SendHeartbeat` | `Raft` |
| commit decision | `raft.cpp:542-556`, `raft_log.cpp:293-327` | `committed_`, the match indexes | decide, learn | `QuorumCommit` (abstract), implemented by `Raft` |
| Progress | `progress.cpp/.h` | `match_ next_` (`state_`, `paused_` never change) | `MaybeUpdate` | in `Raft` |
| RaftLog | `raft_log.cpp/.h` | `committed_ applied_`, the storage, an `Unstable` | `NewLog`, `Term`, `MatchTerm`, `IsUpToDate`, `Entries`, `Slice`, `MaybeAppend`, `MaybeCommit`, `CommitTo`, `Append` | `RaftLog`; again in `Raft`, as far as `Raft` calls it |
| Unstable | `log_unstable.cpp/.h` | `entries_ offset_` (`snapshot_` is never set) | `TruncateAndAppend`, `Slice` | in `RaftLog` |
| MemoryStorage | `storage.cpp/.h` | `entries_` (first the dummy), `hard_state_`, `mutex_` | `Append`, `Compact`, `SetHardState`, `Term`, `Entries`, `FirstIndex`, `LastIndex` | `MemoryStorage`, implements `LogWindow` |
| Node | `node.cpp/.h` | the execution queue | `StartNode`, `Tick`, `Propose`, `Run` | `Init`, `Stepped` and `Next` of `Raft`; the queue itself in `RaftExample` |
| Config | `config.h` | constants | `Validate` is a comment | the constants of `Raft` |
| AnraftImpl, AnraftClient | `anraft_impl.cpp/.h`, `anraft_client.cpp/.h` | an older Raft over brpc: term, role, votes, follower contexts | `Election`, `ElectionCallback`, `ReplicateLog`, `CheckTerm`, none of which anything calls | not modelled |
| rafthttp | `src/src/rafthttp` | peers and streams | start and add peers; nothing is sent | `AddPeer` of `RaftExample`; the network of `Raft` |
| raftexample | `src/examples/raftexample` | the progress of `main` and of `StartRaft`, a tick timer, three queues and that of the node, a key-value map nothing writes | start up, tick, propose, commit, execute what is ready, and the handlers of the queues | `RaftExample` |
| ReadOnly, wal, raftsnap | | none | stubs | not modelled |

**How they interact.** The application calls `Node::Tick` and `Node::Propose`; both queue a
task that `Node::Run` executes one at a time on one thread, so `Raft` has no locks. `Run`
calls `Raft::Tick` or `Raft::Step`; a tick may call `Step` with a message of its own
(`MsgHup`, `MsgCheckQuorum`, `MsgBeat`). `Step` handles `MsgHup` and `MsgVote` and passes
the rest to the current step function. Outgoing messages pile up in `msgs_` for the
application to send. `Raft` reads the log through `RaftLog`, which reads `MemoryStorage`;
the application appends to the storage from its own thread. The example's `main` starts a
bthread for `RaftNode::StartRaft` and goes on to start the key-value store and its HTTP server;
`StartRaft` starts the node, the transport, the timer and two queues. Each execution queue runs
its handler on a thread of its own, one task at a time.

**What is hard.** Messages are lost, repeated, delayed and reordered between servers; roles,
timers and recorded votes change in orders nobody wrote down, since a role change does not
reset the counters, the votes or the vote; several functions return or read values nobody
wrote; the commit index of a server is derived from acknowledgements that may be stale; the
offsets of the storage are right or wrong by one; the offset of the unstable entries is fixed
once while the storage below grows; the threads of the example start queues in an order nobody
fixed and use queue ids that were never set. `PROJECT.json` lists each at its line.

**What makes each part right.**
- Commit decision: a commit index never goes back, and what it passes a quorum
  acknowledged, in messages to one server; and a leader decides the highest such position.
- Progress: acknowledgements in any order never lower a match index nor let `next_` fall behind it.
- Elections: a recorded answer sticks; a leader holds the grants it was elected with, each of them
  sent to it; only its own tick deposes it; nobody outside the progress list campaigns; timers
  restart for ever and space the campaigns.
- MemoryStorage: position and index stay in step; what is stored stays until it is compacted.
- RaftLog: what passes the bounds check is there; `applied_` stays behind `committed_`; unstable
  entries stand at the positions the comment gives them.
- raftexample: an accepted proposal reaches the node once and in order; startup ends; the tick
  and the proposals reach the server they are meant for.

## 2. Modules

| module | what it is |
|---|---|
| `QuorumCommit` | the abstract promise of commit indexes: decide what a quorum acknowledged, or learn from another server |
| `Raft` | the state machine, one action per handler |
| `MCRaft` | messages of peers that run other code, for TLC |
| `RaftElections` | `Raft` with two history variables that count ticks between campaigns |
| `RaftDocs` | what comments say of `Raft` and its code does not do |
| `LogWindow`, `MemoryStorage` | the abstract window of log positions, and the vector that implements it |
| `RaftLog` | `RaftLog` with its `Unstable`, composed with the `MemoryStorage` it reads (`EXTENDS`) |
| `RaftLogDocs` | what `log_unstable.h` says and `log_unstable.cpp` does not do |
| `RaftExample` | the example application: `main`, `StartRaft`, the timer and the four queues |
| `ProposalChannel` | the abstract path of a proposal through the example: a first-in-first-out channel |
| `RaftExampleDocs` | what `node.h` promises the example |
| `MCQuorumCommit`, `MCMemoryStorage`, `MCRaftLog` | instances |
| `QuorumCommitProofs` | theorems about the abstract commit decision |
| `RaftProofs` | theorems about `Raft`: types, refinement, safety; the lemma for each action |
| `RaftDecisionProofs` | what `MaybeCommit` picks, for any voters and match indexes, and what commits rest on |
| `RaftVotesProofs` | who campaigns, who is elected and who hears of it |
| `RaftElectionsProofs`, `MemoryStorageProofs`, `RaftLogProofs`, `RaftExampleProofs` | theorems about the module of the name, and how it implements the one it extends |

An operator whose comment begins with "Mutant" varies the definition it precedes the way a
slip in the code would; each property of a passing run fails under one of them, which shows
that the run is able to see that slip. They take part in no specification.

### Raft

Every variable is a function of the server and has the name of the field it models, without
the underscore. `stepFunc` stands for `step_func_` and `tick_func_`, which are always set
together; `state` is a variable of its own because `BecomeCandidate` sets it to
`StateFollower`. `prs` is `prs_` with `match` and `next`; `learnerPrs` is `learner_prs_`, whose
domain grows because `GetProgress` uses `operator[]`. Of the storage only `lastIndex` and the
constant index of the dummy entry, `Snapshot`, are kept. `network` is the set of all
messages ever sent to a modelled server: delivery does not remove one, so loss, delay,
repetition and reordering are all behaviours, and `msgs_` need not be modelled apart from it.

| action | code |
|---|---|
| `Init` | the constructor, then `Node::StartNode` |
| `TickElection`, `TickHeatbeat` | the tick functions, with the `Step` they call |
| `ReceiveHup`, `ReceiveVote` | the cases of `Step` |
| `ReceiveVoteResp`, `ReceiveApp`, `ReceiveAppResp`, `ReceiveProp` | the cases of the three step functions, with `AppendEntry` |
| `Ignored` | every other message `Node::Run` steps; it may still grow `learner_prs_` |
| `SendAppend`, `SendHeartbeat` | public methods only the application can call; taken to be called on a leader, whose messages they send (`raft.h:83-86`) |
| `StoreEntries` | the application appends to the storage |

Conventions:
- **Unwritten values.** `Poll` counts from an uninitialised `grant`; `CheckQuorumActive`, the
  second `Poll`, `LastTerm`, `Term` inside the window and `Append(RepeatedPtrField&)` have no
  return statement. Each is chosen from the values of its type; for `grant` from
  `GrantGarbage`. A handler that only forgets to return a value nobody reads returns.
- **The constructor** is declared and not defined, as are `NewRaft` and `GetRaft`. It is taken
  to value-initialise the fields and to load the term (`Terms`) and the progress map (`Voters`).
- **Batches.** `Node::Run` reads the body of the first task of a batch and uses it for every
  task of the batch, and a proposal task sets its sender to the server itself. So `Stepped`
  holds every received message and, when `Batching` is set, each of them again with the
  server's own id as `from`. A batch that begins with a tick has no body, and the body that
  `Node::Propose` queues is the address of a `std::string`, which is no `Message`: what `Run`
  makes of either has no defined outcome and is not modelled, so proposals arrive as
  `MsgProp` messages of peers.
- **Ids** are not 0 (`config.h:45`), so the assignment in `BcastAppend`'s guard
  (`raft.cpp:83`) is always true and nothing is broadcast; `BcastTargets` says so.
- **Width.** `uint64_t` is `0..MaxWord`; `WordSucc` and `WordPred` wrap.
- **Reads outside a vector.** `RaftLog::Slice` reads `unstable_.entries_`, which is empty, once
  the storage has grown beyond the offset `NewLog` fixed. The entries it would copy are put in
  no message, so the model discards them; a crash there is a server that takes no more steps,
  which every safety property covers. The run with a liveness property never gets there.
- **Message types** are those this code sends or handles. Entries and snapshots are never sent.

### QuorumCommit

`Decide` lets the acknowledgements of one server rise and its commit index move to a position
a quorum of voters has acknowledged to that server; `Learn` copies at most another server's
commit index. `Raft` implements it with `acked` mapped to the match indexes and `Quorums` to
the strict majorities of the voters.

### MemoryStorage

`entries` is `entries_`, dummy included; the actions are the public methods that change it,
each atomic under `mutex_`. `Batches` are the contiguous batches of up to `MaxBatch` entries,
overlapping, stale and gapped ones included; `Compact` is called within the contract of
`storage.h:80-82` (nothing beyond what was applied). A batch wholly inside what is stored makes
`std::move` run over a negative range, which moves nothing in libstdc++. `conf_state_` and
`snap_shot_` are never written. `LogWindow` is what callers may rely on: the map from
position to term grows at its end and is discarded from its beginning.

### RaftLog

`RaftLog` extends `MemoryStorage`: the application fills and compacts the storage, starts the
node (`StartNode`, with `NewLog` inside), and goes on appending while the log is used.
`offset` and `unstable` are the fields of `Unstable`, `created` says that `NewLog` has run.

| action | code |
|---|---|
| `StartNode`, with `NewLog` | `NewLog` sets `offset_`, `committed_` and `applied_`; `StartNode` then sets `committed_` to the last index |
| `AppendUnstable`, with `TruncateAndAppend` | `RaftLog::Append(vector)`, in the three branches of `Unstable::TruncateAndAppend` |
| `MaybeCommit`, `MaybeAppend`, with `CommitTo` | the methods of the name; `MaybeAppend` stores none of its entries |
| `AppendStorage`, `CompactStorage`, `SaveHardState` | the application's calls on the storage |

Conventions:
- **Reads outside the vector.** The last branch of `TruncateAndAppend` copies the vector
  positions `offset_` to `after - 1`. Those beyond the end of the vector are chosen from
  `StaleMemory`. The history variable `truncated` records that this branch was taken.
- **Gaps.** A batch for `AppendUnstable` leaves no gap after the last index: its callers get
  their entries from a leader after `MatchTerm`.
- **The contract of Compact** is `storage.h:80-82`: not beyond `applied_` once a log exists.
- `Term` inside the window has no return statement, so `MatchTerm` there is either answer.
- The lookups have an answer for every range; `SliceInBounds` is about the two calls `Slice`
  makes, one of the storage and one of `Unstable`. With no unstable entries the second reads
  outside an empty vector once the storage has grown past `offset_`; the property leaves out that
  case and says so.

### RaftExample

`main` and `startup` are where `main` and the bthread of `StartRaft` are; `process` says whether
the process still runs, has exited or aborted. `tasks` holds what each of the four execution
queues has: that of the node, of the key-value store (`"commits"`), of proposals and of
`queue_id_` (`"channels"`). A task is its type and, for a proposal, its number.

| action | code |
|---|---|
| `InitRaftNode`, `NewKVStore`, `ServeHttpKVAPI` | the steps of `main` |
| `MakeDirectory`, `StartNode`, `AssignNode`, `InitTransport`, `AddPeers`, `StartTimer`, `StartServeChannels` | the steps of `StartRaft` |
| `OnTickTimer` | the timer, with `Node::Tick` |
| `Propose`, `Commit`, `ExecuteReady` | `KvStore::Propose` with `RaftNode::Propose`, `KvStore::Commit`, `RaftNode::ExecuteReady` |
| `Run`, `ReadCommits`, `ServeProposeChannels`, `ServeChannels` | the handlers of the queues, one task each |

Conventions:
- **The execution queue** is brpc's and external: `execution_queue_start` yields a queue,
  `execution_queue_execute` appends a task, and the handler takes tasks in order. Starting a queue
  fails only where the code looks at the result (`kvstore.cpp:29`).
- **Ids that were never set.** `queue_id_` of a static object is 0 before the queue starts, and
  `node_` of the example keeps it for ever because `Node::operator=` is empty. An id of 0 is
  refused, or it names the queue that was created first in the process, whose slot is 0: both are
  possible in `Executed`. A task that strays onto a queue of another task type is ignored or
  aborts the process (`Misread`), as is a proposal body, the address of a string that is gone.
- **`shared_from_this`** on the static `Transport`, which no `shared_ptr` holds, throws
  `bad_weak_ptr`; nobody catches it, so `AddPeer` ends the process. `StartPeer` and the streams
  behind it are therefore never reached.
- **Functions that lack a return statement** (`Transport::Init`, `Start`, `PublishEntries`, the
  handlers) return. `NewRaft` and `GetRaft` are not defined; they are taken to yield the server
  with a log.
- **Callers.** Nothing in the tree calls `KvStore::Propose`, `KvStore::Commit` and `ExecuteReady`
  (`httpapi.cpp:95` comments the first out); they are public, and the model lets users call them
  once `main` serves, `MaxProposals` and `MaxCalls` times.

## 3. Runs

| run | question | bounds |
|---|---|---|
| `quorum_commit` | does the abstract decision keep what it promises | 2 servers, 3 voters, positions 0..2 |
| `raft_commit` | do commit decisions implement it, whoever leads and whatever is acknowledged; do progress and votes never go back | 2 servers running the code, a third voter and a stranger; positions 0..2 |
| `raft_no_acks` | can a cluster of this code alone commit anything; what ends a leader's term of office | 2 voters with batches that may both lead, the application calling `SendAppend`; positions 0 and 1 |
| `raft_leader` | does a leader of a non-zero term commit what it stores; is what it commits acknowledged by a majority, and the highest such position; who can be elected, and who hears of it; does a match index move without its peer's acknowledgement | 2 servers with batches, one of which outsiders answer; terms 0 and 1, storages growing to 2, acknowledgements up to 3, positions 0..4 |
| `raft_elections` | are timers bounded, restarted for ever and far enough apart; does a learner ever campaign | 2 voters, a learner, timeout 2, so two different randomised timeouts |
| `memory_storage` | do overlapping batches and compactions keep the window | positions 0..4, batches of up to 3, 3 terms |
| `raft_log` | is what passes the bounds check there, are unstable entries where they should be, can anything still be compacted | positions 0..4, batches of up to 2, 2 terms, one entry of stale memory |
| `example` | who serves, which ticks and proposals arrive, does the path of proposals implement `ProposalChannel`, does startup end | clusters of 1 to 3, election timeout 2, 3 proposals, 2 other calls |
| `raft_elections_send_append`, `doc_vote_term`, `raft_log_truncate`, `example_tick` | violations, see section 5 | |

Why the bounds are enough: commit decisions compare positions, so three of them show "behind",
"equal" and "ahead", and the last is also `MaxWord`, where `n + 1` wraps; three voters are the
smallest number whose majority is a proper part; in `raft_leader` the last position is one nobody but
a leader itself vouches for, so that a commit of it would stand alone; one stranger shows that acknowledgements of
non-members do not count, one learner that it neither votes nor campaigns. `GrantGarbage`
makes a candidate win with one answer in one direction and lose in the other. With
`ElectionTimeout = 2` a server can hold a counter that is at or past a newly drawn timeout.
`MaxElapsed` lies beyond every threshold a counter is compared with; saturation hides only
the growth of `heartbeat_elapsed_` (section 5). `MaxLast` bounds the storage. For `raft_log`
five positions and batches of two let the storage fall behind, meet and overtake the offset, and
let a batch begin before, at, inside and right after the unstable entries. For `example` a
cluster of three has a peer before and one after the server when its id is 1 or is among
the first, the proofs cover any id and size; the configuration of the program has an election
timeout of 10 (`raft_node.cpp:118`), and a smaller one is the harder case for `TimerCannotElect`;
three proposals show one handed, one queued and one coming.

`CHECK_DEADLOCK` is off in `example` and `example_tick`, where the process may exit or abort, and
on everywhere else: a ticking server can always step, and the storage can always store its
hard state.

**Fairness.** `raft_elections` needs weak fairness of `CountedTick(s)`, the tick of
every server. A tick is always enabled and the application is required to keep calling
`Node::Tick` (`node.h`: "Tick increments the internal logical clock"); the execution queue runs
what is queued. Nothing is assumed of deliveries. In `example` each thread of the process and
the handler of each queue is weakly fair: a bthread runs, a due timer fires, an execution queue
with tasks calls its handler. Nothing is assumed of users, nor of when the HTTP server stops.

## 4. Theorems

Proved by TLAPS for all values of the constants that satisfy the assumptions:
`ServerAssumption` (ids are not 0, voters are finite and not empty), `TimeoutAssumption`,
`WordAssumption` (the storage ends below `MaxWord`), `InjectAssumption` (peers running other
code send any message but `MsgApp`, whose commit index nobody would vouch for).

- `QuorumCommitProofs!Safety`. `QuorumBacked` alone is not inductive: a learned position is
  backed because the server it came from was, and stays backed because acknowledgements never
  fall. The invariant is `TypeOK /\ QuorumBacked`, and the step uses that quorums are closed upward.
- `RaftProofs!TypeInvariant`, one lemma per action.
- `RaftProofs!Refinement`. A step of `ReceiveApp` is a `Learn` only if the commit index in the
  message was once reached by its sender, so the invariant is `CommitInv == TypeOK /\
  AppCommitsReached`: no `MsgApp` in flight is ahead of its sender. `ReceiveAppResp` and
  `ReceiveProp` are `Decide`, the rest stutters. The counting argument is that the index
  `MaybeCommit` picks has `Quorum` voters at or above it.
- `RaftProofs!QuorumBackedAlways` follows from the refinement and `Safety` of the instance.
- `RaftProofs!NothingCommittedAlways`, under `NoForeignAcks` (no acknowledgement is injected,
  at least two voters): the invariant `IdleInv` adds that only a server's own match index ever
  rises and that every acknowledgement in flight carries at most `Snapshot`.
- `RaftProofs!MatchWasAckedAlways`: nothing is ever taken from `network`, a stepped message
  whose sender is not the server itself was received as it is (`SteppedFacts`), and a proposal
  moves the server's own match index only.
- `RaftProofs!FirstAnswerAlwaysSticks`: only `Poll` writes `votes`, and it extends the function.
- `RaftProofs!LeaderAlwaysKeepsOffice` and `LeaderAlwaysCommitsStored` need that `state_` and
  `step_func_` agree on who leads (`RolesAgree`), which `RoleSteps` proves step by step.
- `RaftProofs!ElapsedAlwaysBounded`: a counter only passes a number below the drawn timeout, or up
  to the timeout in office. `RaftProofs!NextAlwaysAhead`: `MaybeUpdate` keeps `next_` ahead, and a
  progress that `operator[]` inserts starts at 0.
- `RaftDecisionProofs` is about the decision itself. `QuorumIndexDefined`: the element of
  the sorted match indexes that `MaybeCommit` takes exists and is unique, for any finite set of
  voters. The model says what it is by counting (`IsQuorumIndex`), so existence has to be proved:
  among the match indexes with a quorum at or above them there is a highest one, by the
  well-foundedness of the naturals (`NatLessThanWellFounded`, `WFMin`), and fewer than a quorum are
  strictly above it. `QuorumIndexIsHighest`: it is the highest position a quorum has reached.
  From these `DecidesHighestAlways`; it is a statement about the values *after* the step, because
  the acknowledgement that triggers the decision is counted first.
- `RaftDecisionProofs!CommittedWasAckedAlways` joins `QuorumBacked`, which speaks of match
  indexes, with `MatchWasAcked`, which says where those came from; `CommitsAlwaysShareVoter` adds
  that two majorities intersect, so any two commit indexes have an acknowledging voter in common.
- `RaftVotesProofs!LeaderWasElectedAlways`. That a leader was elected is no invariant by
  itself: a grant that is recorded must have been sent (`GrantsWereSent`), and a leader must keep
  the answers it was elected with (`LeadersElected`): a leader ignores responses, and nobody else's
  step touches its `votes`. The property speaks of the values `GrantGarbage` may hold because
  `Poll` counts from one of them; for a `grant` that starts at 0 it says "more than a quorum".
- `RaftVotesProofs!LeadersStayUnknownAlways`, under `NoSendAppend` (the application does
  not call `SendAppend`, and nothing in the tree does but `BcastAppend`, which reaches nobody).
  `SentTypes` says that then only vote requests, acknowledgements and heartbeats are ever sent, so
  no `MsgApp` is in flight, nobody learns a leader or a commit index, and what is committed the
  server's own match indexes back (`OwnDecision`), which never fall.
- `RaftVotesProofs!OnlyVotersCampaignAlways`, under `NoHupFromPeers`: with no `MsgHup` in
  flight the only way into a campaign is the tick, which asks `Promotable`.
- `RaftVotesProofs!OnlyAnsweredLeadAlways`, for every server to which no outsider answers. Two
  facts about a step make the induction: `NoAnswersStep`, no server of this code ever sends an
  answer (from `SentTypes`), and `OfficeStep`, only a response stepped by a candidate puts it into
  office. `NoneStepped` joins them: a batch changes the sender of a message, never its receiver.
- `RaftVotesProofs!NobodyIsElectedAlways`, under `NoForeignAnswers` (no answer to a vote request
  is injected to anybody; other messages may be, and `PublicSends` is anything): nobody ever
  leads or hears of a leader, and nothing is committed. `AloneInv` adds that only vote
  requests are ever in flight: to send anything else takes a leader. No run checks this
  corollary for a whole cluster; `raft_leader` checks `OnlyAnsweredLead` beside a leader.
- `RaftElectionsProofs!ElectionsImplementRaft`: the history variables only watch, so
  `ElectionSpec => Spec` and every theorem about `Raft` holds of `RaftElections`;
  `ElectionsKeepOffices` uses it.
- `RaftElectionsProofs!ElectionsAlwaysSpaced`, under `NoHupFromPeers` (the application does not
  call `SendAppend`, nobody injects a `MsgHup`): the ticks since the last campaign are at
  least what the counter holds, no `MsgHup` is in flight, and roles agree.
- `MemoryStorageProofs`: `TypeInvariant`, `AlwaysContiguous` (inductive with `TypeOK`),
  `StoredEntriesAlwaysKept`, and `Refinement` to `LogWindow`. `EntriesRightAtTwiceOffset` says how
  far the slip in `Entries` goes: of a range it can read at all it returns the entries from `lo`
  on if and only if `lo` is twice the offset (`storage.cpp:38`, against `storage.h:39`).
- `RaftLogProofs` (assumptions of `MemoryStorage`, and `StaleAssumption`: the stale memory is some
  entry): the inductive invariant `LogInv` adds to the types that storage and unstable entries
  leave no hole between them (`NoHole`), that the unstable entries stand at their positions until
  the last branch was taken (`Positions`), and that `applied` is the compacted position. The five
  properties follow: `LogTypeInvariant`, `SliceAlwaysInBounds`, `UnstablePositionsAlways`,
  `AppliedAlwaysBehind`, `NeverCompactedAgain`. `LogImplementsStorage` shows that every step of the
  log is a step of the storage below or leaves it alone, so what is proved of `MemoryStorage` alone
  carries over (`StorageUnderLog`): the storage is still a `LogWindow`, keeps what it stores, and
  is contiguous.
- `RaftExampleProofs` (`ExampleAssumption`: positive id and cluster, an election timeout above 1),
  for clusters and numbers of calls of any size: `QueueOrder` says that the queues of
  `StartServeChannels` are never the first, so nothing strays onto them; `PeersPassed` follows the
  loop of `StartRaft`; `OneTick` counts the tick of the only timer wherever it is; `NoneReady` and
  `OrderKept` describe the two queues position by position. From them follow
  `TickNeedsNodeFirstAlways`, `TimerCannotElectAlways`, `OnlyAloneServesAlways`,
  `NothingPublishedAlways` and `ProposalsInOrderAlways`. `ExampleIsProposalChannel` is the
  refinement: only `Propose` extends `accepted`, with a number above all before it, and
  `ServeProposeChannels` hands on the oldest waiting proposal, because by `OrderKept` what is
  queued is what was accepted and not yet handed; every other step, those of a process that
  exits or aborts included, stutters.

The hypotheses are as weak as the arguments allow, and runs meet them: `NoForeignAcks` in
`raft_no_acks`, `NoSendAppend` in `raft_leader`, `NoHupFromPeers` in `raft_elections`; and
`NoForeignAnswers` is met where nothing is injected, in `doc_vote_term`. Without
its hypothesis each theorem fails: a `MsgHup` makes a learner campaign (`Step` does not ask
`Promotable`, `raft.cpp:252`), a `MsgApp` spreads a leader's name, an answer elects.

Model-checked only: `TimerRestarts`, `AcceptedIsHanded` and `StartupEnds`, since liveness under
fairness and `ENABLED` are out of the prover's reach. Every safety property the passing runs
check is proved.

## 5. Disagreements between code and comments

Runs end in a counterexample for four: `SendAppend` queues a message of type `MsgHup` when it
fails, so its receiver campaigns at once (`raft.cpp:484`); votes are cast for requests of other
terms (`raft.cpp:281`); a batch that overlaps the unstable entries in their middle is forgotten
and what stays of them is not what precedes it (`log_unstable.cpp:65`); the example's tick does
not reach its server (`node.cpp:152`).

Others are read off the code and are part of the model without a run of their own:

- `Reset` ignores its term argument: a started node is not "at term 1" (`node.cpp:26`, `raft.cpp:228`), and a campaign does not raise the term.
- The response to a granted vote is built and never sent (`raft.cpp:293`): `OnlyAnsweredLead` and `NobodyIsElected` are what follows.
- `my_vote_resp_type` is never read, so a stale `MsgPreVoteResp` counts (`raft.cpp:128-139`).
- `BecomeCandidate` sets `StateFollower` (`raft.cpp:46`).
- `heartbeat_elapsed_` is incremented where it should restart (`raft.cpp:353`), and `MsgBeat` sends no heartbeat (`raft.cpp:165`).
- `if (id = this->GetID())` assigns, so `BcastAppend` and a new leader's broadcast reach nobody (`raft.cpp:83`, against `raft.h:64-65`); with the missing heartbeats, `LeadersStayUnknown`.
- `CommitTo` passes the last index; the panic is a comment (`raft_log.cpp:321-323`). `LeaderCommitsStored` is what remains true.
- `Entries` slices from `entries_.begin() + offset` (`storage.cpp:38`, against `storage.h:39`; `EntriesRightAtTwiceOffset`), and `Append` drops a batch that ends at the first index (`storage.cpp:106`, against `storage.h:78`).
- The panic of `RaftLog::Append` on entries at or before `committed_` is a comment (`raft_log.cpp:119-121`).
- "the key-value http handler will propose updates to raft" (`main.cpp:48`): the call is commented out (`httpapi.cpp:95`).
- `ExecuteReady` gives its task the type of a proposal (`raft_node.cpp:266`), so nothing is ever published.
- `Poll` is compared with the quorum by `>` (`raft.cpp:142`).
- `MaybeAppend` returns the given commit index instead of the last new index (`raft_log.cpp:395`), which is why `NothingCommitted` holds.

## 6. Not modelled, and why

- The rocksdb methods of `RaftLog` use a member that is commented out; `Open` and its kin do not compile.
- `HttpApi::Put`, `Get` and `Post` change no state; `RaftNode::NewRaftNode`, `ServeRaft`, `Process`
  and `KvStore::Lookup` have no caller or no effect.
- `Transport::StartPeer`, `Peer` and the streams are behind an exception nobody catches.
- What `FirstIndex` and `LastIndex` return while an `Append` on another thread reallocates the
  vector they read without the lock is undefined. `NeverCompacted` shows that the other writer,
  `Compact`, changes nothing while the node runs.
- `Raft::AddNode`, `Node::RestartNode`, `Node::Init`, `ReadOnly`, `wal`, `raftsnap` have empty bodies.
- `BcastHeartbeat` has no caller and sends nothing, for the same reason as `BcastAppend`.
- `AnraftImpl` is an older implementation over brpc: the timer and the threads that would run
  `Election` and `ReplicateLog` are commented out (`anraft_impl.cpp:32-47`), so no private
  method of it is ever called, and the RPC `Vote` does nothing.
- RPC wrappers and option structures have no state of their own.
- The randomised timeout is any value of its interval; its distribution plays no role.

## 7. Plan

What could still be proved of the code as it is: when `MemoryStorage::Append` drops a batch that
has something new (`storage.cpp:106`), as `EntriesRightAtTwiceOffset` does for `Entries`; that a
server of the example hears at most the one tick whatever `MaxProposals` is, in the terms of
`Raft`; and that a batch repeats no effect of its first message but on the server's own progress.

What could come next, as the code grows:

1. `NodeQueue`: `Node::Run` over whole batches of the execution queue, shown to step no message
   but those of `Stepped`. `Raft` has the batches and `RaftExample` the queue; the module would
   join them once a proposal carries a message.
2. The path of a `Ready` from the server to the storage and the transport, once `ExecuteReady`
   carries it: `applied_` would then move, `NeverCompacted` would fall, and the separate critical
   sections of `RaftLog::Term` and `Slice` beside a `Compact` would become a hazard.
3. The refinement of an abstract sequence of entries by `RaftLog`, once `TruncateAndAppend` keeps
   the new entries in its last branch.
