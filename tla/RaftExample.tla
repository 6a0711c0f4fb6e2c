---------------------------- MODULE RaftExample ----------------------------
(***************************************************************************)
(* The example application: main, the bthread of RaftNode::StartRaft, the  *)
(* tick timer, and the four execution queues they start, each drained one  *)
(* task at a time on a thread of its own.  A queue id that was never given *)
(* to execution_queue_start is 0, which is refused, or names the queue     *)
(* that was created first in the process.                                  *)
(***************************************************************************)
EXTENDS Naturals, Sequences

CONSTANTS
    Id,             \* FLAGS_id
    MaxCluster,     \* the largest number of urls in FLAGS_cluster
    ElectionTick,   \* election ticks of the Config that StartRaft builds
    MaxProposals,   \* bounds the calls of KvStore::Propose
    MaxCalls        \* bounds the calls of KvStore::Commit and ExecuteReady

ASSUME ExampleAssumption ==
    /\ Id \in Nat \ {0} /\ MaxCluster \in Nat \ {0}
    /\ ElectionTick \in Nat /\ ElectionTick > 1
    /\ MaxProposals \in Nat /\ MaxCalls \in Nat

VARIABLES
    process,    \* whether the process still runs
    main,       \* where main is
    startup,    \* where the bthread of StartRaft is
    cluster,    \* peers_.size()
    peer,       \* i + 1 of the loop that adds the peers
    started,    \* the queues that execution_queue_start has created
    first,      \* the first of them
    tasks,      \* what each queue holds
    nodeId,     \* queue_id_ of RaftNode's node_
    timer,      \* the tick timer
    ticks,      \* ticks that Node::Run has passed to the server
    made,       \* history: calls of KvStore::Propose, which number proposals
    accepted,   \* history: proposals put on the started queue of proposals
    handed,     \* history: proposals handed to Node::Propose
    calls,      \* history: calls of KvStore::Commit and ExecuteReady
    published   \* history: calls of PublishEntries

threads   == <<process, main, startup, cluster, peer>>
queueVars == <<started, first, nodeId>>
histories == <<made, accepted, handed, calls, published>>
vars      == <<threads, queueVars, tasks, timer, ticks, histories>>

Queue == {"node", "commits", "proposals", "channels"}
Unset == "unset"
Task  == [type : {"MsgTypeTick", "MsgTypeProp", "MsgTypeKV",
                  "ChannalTypeReady", "ChannalTypePropose"},
          number : 0..MaxProposals]

Running == process = "running"

Init ==
    /\ process = "running" /\ main = "init" /\ startup = "none"
    /\ cluster \in 1..MaxCluster
    /\ peer = 1
    /\ started = {} /\ first = Unset /\ nodeId = Unset
    /\ tasks = [q \in Queue |-> <<>>]
    /\ timer = "unset" /\ ticks = 0
    /\ made = 0 /\ accepted = <<>> /\ handed = <<>>
    /\ calls = 0 /\ published = 0

-----------------------------------------------------------------------------
\* execution_queue_start(q); it fails only where the code looks at the result.
StartQueue(q) ==
    /\ started' = started \cup {q}
    /\ first' = IF first = Unset THEN q ELSE first

\* What execution_queue_execute(id, task) can make of the queues ts.
Executed(ts, id, task) ==
    LET On(q) == [ts EXCEPT ![q] = Append(@, task)]
    IN  IF id \in started THEN {On(id)}
        ELSE {ts} \cup {On(q) : q \in {first} \ {Unset}}

Execute(id, task) == tasks' \in Executed(tasks, id, task)

-----------------------------------------------------------------------------
\* RaftNode::Init, then RaftNode::Start unless bthread_start_background fails.
InitRaftNode ==
    /\ Running /\ main = "init"
    /\ \/ main' = "kvstore" /\ startup' = "directory" /\ UNCHANGED process
       \/ process' = "exited" /\ UNCHANGED <<main, startup>>
    /\ UNCHANGED <<cluster, peer, queueVars, tasks, timer, ticks, histories>>

\* KvStore::NewKVStore.
NewKVStore ==
    /\ Running /\ main = "kvstore"
    /\ \/ main' = "http" /\ StartQueue("commits") /\ UNCHANGED process
       \/ process' = "exited" /\ UNCHANGED <<main, started, first>>
    /\ UNCHANGED <<startup, cluster, peer, nodeId, tasks, timer, ticks, histories>>

\* ServeHttpKVAPI returns at once if the server does not start, and else when
\* the user asks the server to quit.
ServeHttpKVAPI ==
    /\ Running
    /\ \/ main = "http" /\ main' = "serving" /\ UNCHANGED process
       \/ main \in {"http", "serving"} /\ process' = "exited" /\ UNCHANGED main
    /\ UNCHANGED <<startup, cluster, peer, queueVars, tasks, timer, ticks, histories>>

-----------------------------------------------------------------------------
\* StartRaft gives up if it cannot make the directory.
MakeDirectory ==
    /\ Running /\ startup = "directory"
    /\ startup' \in {"node", "failed"}
    /\ UNCHANGED <<process, main, cluster, peer, queueVars, tasks, timer, ticks, histories>>

\* Node::StartNode starts the queue of its own static Node.
StartNode ==
    /\ Running /\ startup = "node"
    /\ StartQueue("node")
    /\ startup' = "assign"
    /\ UNCHANGED <<process, main, cluster, peer, nodeId, tasks, timer, ticks, histories>>

\* Mutant: the assignment copies the id of the queue.
AssignNodeCopied ==
    /\ Running /\ startup = "assign"
    /\ nodeId' = "node"
    /\ startup' = "transport"
    /\ UNCHANGED <<process, main, cluster, peer, started, first, tasks, timer, ticks, histories>>

\* node_ = StartNode(...): Node::operator= has an empty body.
AssignNode ==
    /\ Running /\ startup = "assign"
    /\ startup' = "transport"
    /\ UNCHANGED <<process, main, cluster, peer, queueVars, tasks, timer, ticks, histories>>

\* Mutant: the loop numbers the peers from 0.
InitTransportFromZero ==
    /\ Running /\ startup = "transport"
    /\ startup' = "peers"
    /\ peer' = 0
    /\ UNCHANGED <<process, main, cluster, queueVars, tasks, timer, ticks, histories>>

\* Transport::Init and Start; the loop over the peers begins.
InitTransport ==
    /\ Running /\ startup = "transport"
    /\ startup' = "peers"
    /\ peer' = 1
    /\ UNCHANGED <<process, main, cluster, queueVars, tasks, timer, ticks, histories>>

\* Mutant: the transport is held by a shared_ptr, and StartPeer waits in the
\* stream reader's server, or goes on if that does not start.
AddPeerOfShared ==
    /\ \/ startup' = "reading" /\ UNCHANGED peer
       \/ peer' = peer + 1 /\ UNCHANGED startup
    /\ UNCHANGED process

\* AddPeer calls shared_from_this() on a Transport that no shared_ptr holds:
\* bad_weak_ptr, which nobody catches.
AddPeer ==
    /\ process' = "aborted"
    /\ UNCHANGED <<startup, peer>>

\* One turn of the loop, or its end.
AddPeers ==
    /\ Running /\ startup = "peers"
    /\ \/ peer <= cluster /\ peer # Id /\ AddPeer
       \/ peer <= cluster /\ peer = Id /\ peer' = peer + 1 /\ UNCHANGED <<process, startup>>
       \/ peer > cluster /\ startup' = "timer" /\ UNCHANGED <<process, peer>>
    /\ UNCHANGED <<main, cluster, queueVars, tasks, timer, ticks, histories>>

\* StartServeChannels arms the timer, which is already due, or returns.
StartTimer ==
    /\ Running /\ startup = "timer"
    /\ \/ timer' = "armed" /\ startup' = "proposals"
       \/ UNCHANGED timer /\ startup' = "failed"
    /\ UNCHANGED <<process, main, cluster, peer, queueVars, tasks, ticks, histories>>

\* ... and starts the queue of proposals, then the other.
StartServeChannels ==
    /\ Running
    /\ \/ startup = "proposals" /\ StartQueue("proposals") /\ startup' = "channels"
       \/ startup = "channels" /\ StartQueue("channels") /\ startup' = "done"
    /\ UNCHANGED <<process, main, cluster, peer, nodeId, tasks, timer, ticks, histories>>

-----------------------------------------------------------------------------
\* Mutant: the timer is armed again.
OnTickTimerAgain ==
    /\ Running /\ timer = "armed"
    /\ UNCHANGED timer
    /\ Execute(nodeId, [type |-> "MsgTypeTick", number |-> 0])
    /\ UNCHANGED <<threads, queueVars, ticks, histories>>

\* OnTickTimer calls Node::Tick; nobody arms the timer again.
OnTickTimer ==
    /\ Running /\ timer = "armed"
    /\ timer' = "fired"
    /\ Execute(nodeId, [type |-> "MsgTypeTick", number |-> 0])
    /\ UNCHANGED <<threads, queueVars, ticks, histories>>

\* KvStore::Propose, by way of RaftNode::Propose.
Propose ==
    /\ Running /\ main = "serving" /\ made < MaxProposals
    /\ made' = made + 1
    /\ Execute("proposals", [type |-> "ChannalTypePropose", number |-> made'])
    /\ accepted' = IF "proposals" \in started THEN Append(accepted, made') ELSE accepted
    /\ UNCHANGED <<threads, queueVars, timer, ticks, handed, calls, published>>

\* KvStore::Commit.
Commit ==
    /\ Running /\ main = "serving" /\ calls < MaxCalls
    /\ calls' = calls + 1
    /\ Execute("commits", [type |-> "MsgTypeKV", number |-> 0])
    /\ UNCHANGED <<threads, queueVars, timer, ticks, made, accepted, handed, published>>

\* Mutant: the task has the type of what it carries.
ExecuteReadyTyped ==
    /\ Running /\ main = "serving" /\ calls < MaxCalls
    /\ calls' = calls + 1
    /\ Execute("channels", [type |-> "ChannalTypeReady", number |-> 0])
    /\ UNCHANGED <<threads, queueVars, timer, ticks, made, accepted, handed, published>>

\* ExecuteReady gives the task the type of a proposal.
ExecuteReady ==
    /\ Running /\ main = "serving" /\ calls < MaxCalls
    /\ calls' = calls + 1
    /\ Execute("channels", [type |-> "ChannalTypePropose", number |-> 0])
    /\ UNCHANGED <<threads, queueVars, timer, ticks, made, accepted, handed, published>>

-----------------------------------------------------------------------------
Takes(q) == Running /\ tasks[q] # <<>>
Rest(q)  == [tasks EXCEPT ![q] = Tail(@)]

\* A task read as another type, or as a Message that it is not.
Misread == process' \in {"running", "aborted"}

\* Node::Run.  The body of a proposal is the address of a string that its
\* caller has given up.
Run ==
    /\ Takes("node")
    /\ tasks' = Rest("node")
    /\ \/ Head(tasks["node"]).type = "MsgTypeTick" /\ ticks' = ticks + 1 /\ UNCHANGED process
       \/ Head(tasks["node"]).type # "MsgTypeTick" /\ Misread /\ UNCHANGED ticks
    /\ UNCHANGED <<main, startup, cluster, peer, queueVars, timer, histories>>

\* KvStore::ReadCommits stores nothing.
ReadCommits ==
    /\ Takes("commits")
    /\ tasks' = Rest("commits")
    /\ \/ Head(tasks["commits"]).type = "MsgTypeKV" /\ UNCHANGED process
       \/ Head(tasks["commits"]).type # "MsgTypeKV" /\ Misread
    /\ UNCHANGED <<main, startup, cluster, peer, queueVars, timer, ticks, histories>>

\* Mutant: the handler returns after the first task of a batch.
ServeFirstProposal ==
    LET number == Head(tasks["proposals"]).number
    IN  /\ Takes("proposals")
        /\ tasks' \in Executed([tasks EXCEPT !["proposals"] = <<>>], nodeId,
                               [type |-> "MsgTypeProp", number |-> number])
        /\ handed' = Append(handed, number)
        /\ UNCHANGED <<threads, queueVars, timer, ticks, made, accepted, calls, published>>

\* ServeProposeChannels hands the proposal to Node::Propose; its queue, which
\* is never the first, holds no task of another type.
ServeProposeChannels ==
    LET number == Head(tasks["proposals"]).number
    IN  /\ Takes("proposals")
        /\ tasks' \in Executed(Rest("proposals"), nodeId,
                               [type |-> "MsgTypeProp", number |-> number])
        /\ handed' = Append(handed, number)
        /\ UNCHANGED <<threads, queueVars, timer, ticks, made, accepted, calls, published>>

\* ServeChannels publishes what is ready and ignores the rest.
ServeChannels ==
    /\ Takes("channels")
    /\ tasks' = Rest("channels")
    /\ published' = IF Head(tasks["channels"]).type = "ChannalTypeReady"
                    THEN published + 1 ELSE published
    /\ UNCHANGED <<threads, queueVars, timer, ticks, made, accepted, handed, calls>>

-----------------------------------------------------------------------------
Main      == InitRaftNode \/ NewKVStore \/ ServeHttpKVAPI
StartRaft == \/ MakeDirectory \/ StartNode \/ AssignNode \/ InitTransport
             \/ AddPeers \/ StartTimer \/ StartServeChannels
Callers   == Propose \/ Commit \/ ExecuteReady

Next ==
    \/ Main \/ StartRaft \/ OnTickTimer \/ Callers
    \/ Run \/ ReadCommits \/ ServeProposeChannels \/ ServeChannels

\* The threads of the process and of its queues run; users call as they like.
Fairness ==
    /\ WF_vars(InitRaftNode \/ NewKVStore) /\ WF_vars(StartRaft)
    /\ WF_vars(OnTickTimer) /\ WF_vars(Run) /\ WF_vars(ReadCommits)
    /\ WF_vars(ServeProposeChannels) /\ WF_vars(ServeChannels)

Spec     == Init /\ [][Next]_vars
FairSpec == Spec /\ Fairness

-----------------------------------------------------------------------------
ExampleTypeOK ==
    /\ process \in {"running", "exited", "aborted"}
    /\ main \in {"init", "kvstore", "http", "serving"}
    /\ startup \in {"none", "directory", "node", "assign", "transport", "peers",
                    "timer", "proposals", "channels", "done", "failed"}
    /\ cluster \in 1..MaxCluster /\ peer \in 1..MaxCluster + 1
    /\ started \subseteq Queue
    /\ first \in Queue \cup {Unset} /\ nodeId \in Queue \cup {Unset}
    /\ tasks \in [Queue -> Seq(Task)]
    /\ timer \in {"unset", "armed", "fired"}
    /\ ticks \in Nat /\ published \in Nat
    /\ made \in 0..MaxProposals /\ calls \in 0..MaxCalls
    /\ accepted \in Seq(0..MaxProposals) /\ handed \in Seq(0..MaxProposals)

(***************************************************************************)
(* node_ holds no queue of its own (node.cpp:152), so whether a tick can   *)
(* reach the server at all is a race: StartRaft must create the queue of   *)
(* StartNode before main creates the one of the key-value store.           *)
(***************************************************************************)
TickNeedsNodeFirst == ticks > 0 => first = "node"

(***************************************************************************)
(* The timer is armed once (raft_node.cpp:153), so the clock of the server *)
(* never reaches the election timeout and no server campaigns of itself.   *)
(***************************************************************************)
TimerCannotElect == ticks < ElectionTick

(***************************************************************************)
(* A member of a cluster with other members never gets beyond AddPeer: it  *)
(* neither ticks nor serves a proposal (raft_node.cpp:138-145).            *)
(***************************************************************************)
OnlyAloneServes ==
    timer # "unset" \/ "proposals" \in started \/ handed # <<>>
        => (1..cluster) \ {Id} = {}

(***************************************************************************)
(* Of the proposals put on the queue of proposals none is lost, repeated   *)
(* or overtaken on its way to the node (raft_node.cpp:206-232), whatever   *)
(* is put on the wrong queue meanwhile.                                    *)
(***************************************************************************)
ProposalsInOrder ==
    /\ accepted = handed \o [k \in 1..Len(tasks["proposals"]) |-> tasks["proposals"][k].number]
    /\ \A j, k \in 1..Len(accepted) : j < k => accepted[j] < accepted[k]

(***************************************************************************)
(* From outside, the queue of proposals and the threads around it are a    *)
(* channel: each step accepts a younger proposal, hands on the oldest one  *)
(* waiting, or does neither (raft_node.cpp:206-232).                       *)
(***************************************************************************)
Channel == INSTANCE ProposalChannel

ImplementsProposalChannel == Channel!Spec

(***************************************************************************)
(* ExecuteReady sends no task that ServeChannels publishes, and none that  *)
(* strays onto its queue is one (raft_node.cpp:182-196, 264-274).          *)
(***************************************************************************)
NothingPublished == published = 0

(***************************************************************************)
(* A proposal that was put on the started queue is handed to the node,     *)
(* unless the process ends first (raft_node.cpp:206-222).                  *)
(***************************************************************************)
AcceptedIsHanded ==
    \A n \in 1..MaxProposals :
        (\E k \in 1..Len(accepted) : accepted[k] = n)
            ~> (~Running \/ \E k \in 1..Len(handed) : handed[k] = n)

(***************************************************************************)
(* StartRaft does not hang: it serves, gives up or takes the process with  *)
(* it, though "There will be some blocking operations" (raft_node.cpp:60). *)
(***************************************************************************)
StartupEnds == <>(startup \in {"done", "failed"} \/ ~Running)
=============================================================================
