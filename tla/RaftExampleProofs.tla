------------------------- MODULE RaftExampleProofs -------------------------
(***************************************************************************)
(* Proofs about RaftExample for clusters of any size and any number of     *)
(* proposals and calls.                                                    *)
(***************************************************************************)
EXTENDS RaftExample, SequenceTheorems, TLAPS

\* What execution_queue_execute does to the queues: nothing, or one of them
\* grows by the task: the one the id names, or, if the id was never given to
\* execution_queue_start, the first.
LEMMA ExecutedFacts ==
    ASSUME NEW ts \in [Queue -> Seq(Task)], NEW id \in Queue \cup {Unset},
           NEW task \in Task, NEW result \in Executed(ts, id, task),
           first \in Queue \cup {Unset}, started \subseteq Queue
    PROVE  /\ result \in [Queue -> Seq(Task)]
           /\ \A q \in Queue :
                 \/ result[q] = ts[q]
                 \/ /\ result[q] = Append(ts[q], task)
                    /\ (id \in started /\ q = id) \/ (id \notin started /\ q = first)
           /\ id \in started => result[id] = Append(ts[id], task)
<1> DEFINE On(q) == [ts EXCEPT ![q] = Append(@, task)]
<1>1. ASSUME NEW q \in Queue
      PROVE  /\ On(q) \in [Queue -> Seq(Task)]
             /\ On(q)[q] = Append(ts[q], task)
             /\ \A p \in Queue \ {q} : On(q)[p] = ts[p]
    <2>1. ts[q] \in Seq(Task)
        OBVIOUS
    <2>2. Append(ts[q], task) \in Seq(Task)
        BY <2>1, AppendProperties
    <2> QED
        BY <2>2
<1>2. CASE id \in started
    <2>1. result = On(id) /\ id \in Queue
        BY <1>2 DEF Executed
    <2> HIDE DEF On
    <2> QED
        BY <2>1, <1>1, <1>2
<1>3. CASE id \notin started
    <2>1. result = ts \/ (first \in Queue /\ result = On(first))
        BY <1>3 DEF Executed
    <2> HIDE DEF On
    <2> QED
        BY <2>1, <1>1, <1>3
<1> QED
    BY <1>2, <1>3

\* A task taken from a queue leaves the others as they are.
LEMMA RestFacts ==
    ASSUME tasks \in [Queue -> Seq(Task)], NEW q \in Queue, tasks[q] # <<>>
    PROVE  /\ Rest(q) \in [Queue -> Seq(Task)]
           /\ Rest(q)[q] = Tail(tasks[q])
           /\ \A p \in Queue \ {q} : Rest(q)[p] = tasks[p]
           /\ Head(tasks[q]) \in Task
<1>1. tasks[q] \in Seq(Task)
    OBVIOUS
<1>2. Tail(tasks[q]) \in Seq(Task) /\ Head(tasks[q]) \in Task
    BY <1>1, HeadTailProperties
<1> QED
    BY <1>2 DEF Rest

-----------------------------------------------------------------------------
\* The steps of main and of StartRaft touch no task and no count.
LEMMA ThreadSteps ==
    ASSUME Main \/ StartRaft
    PROVE  UNCHANGED <<tasks, ticks, histories>>
BY DEF Main, StartRaft, InitRaftNode, NewKVStore, ServeHttpKVAPI, MakeDirectory, StartNode,
       AssignNode, InitTransport, AddPeers, StartTimer, StartServeChannels, histories

\* Every task the code queues is a task.
LEMMA TaskTypes ==
    /\ \A n \in 0..MaxProposals :
          /\ [type |-> "ChannalTypePropose", number |-> n] \in Task
          /\ [type |-> "MsgTypeProp", number |-> n] \in Task
    /\ [type |-> "MsgTypeTick", number |-> 0] \in Task
    /\ [type |-> "MsgTypeKV", number |-> 0] \in Task
    /\ [type |-> "ChannalTypePropose", number |-> 0] \in Task
BY ExampleAssumption DEF Task

LEMMA TypeInit == Init => ExampleTypeOK
<1> SUFFICES ASSUME Init PROVE ExampleTypeOK
    OBVIOUS
<1>1. tasks \in [Queue -> Seq(Task)]
    BY EmptySeq DEF Init
<1>2. accepted \in Seq(0..MaxProposals) /\ handed \in Seq(0..MaxProposals)
    BY EmptySeq DEF Init
<1> QED
    BY <1>1, <1>2, ExampleAssumption DEF Init, ExampleTypeOK, Queue

LEMMA TypeStep == ExampleTypeOK /\ [Next]_vars => ExampleTypeOK'
<1> SUFFICES ASSUME ExampleTypeOK, [Next]_vars
             PROVE  ExampleTypeOK'
    OBVIOUS
<1> USE DEF threads, queueVars, histories
<1>1. CASE Main \/ StartRaft
    <2>1. UNCHANGED <<tasks, ticks, histories>>
        BY <1>1, ThreadSteps
    <2>2. /\ tasks' \in [Queue -> Seq(Task)] /\ ticks' \in Nat /\ published' \in Nat
          /\ made' \in 0..MaxProposals /\ calls' \in 0..MaxCalls
          /\ accepted' \in Seq(0..MaxProposals) /\ handed' \in Seq(0..MaxProposals)
        BY <2>1 DEF ExampleTypeOK
    <2>3. /\ process' \in {"running", "exited", "aborted"}
          /\ main' \in {"init", "kvstore", "http", "serving"}
          /\ startup' \in {"none", "directory", "node", "assign", "transport", "peers",
                           "timer", "proposals", "channels", "done", "failed"}
          /\ timer' \in {"unset", "armed", "fired"}
        BY <1>1 DEF ExampleTypeOK, Main, StartRaft, InitRaftNode, NewKVStore, ServeHttpKVAPI,
                    MakeDirectory, StartNode, AssignNode, InitTransport, AddPeers, AddPeer,
                    StartTimer, StartServeChannels
    <2>4. /\ started' \subseteq Queue
          /\ first' \in Queue \cup {Unset} /\ nodeId' \in Queue \cup {Unset}
        BY <1>1 DEF ExampleTypeOK, Main, StartRaft, InitRaftNode, NewKVStore, ServeHttpKVAPI,
                    MakeDirectory, StartNode, AssignNode, InitTransport, AddPeers,
                    StartTimer, StartServeChannels, StartQueue, Queue
    <2>5. cluster' \in 1..MaxCluster /\ peer' \in 1..MaxCluster + 1
        BY <1>1, ExampleAssumption
           DEF ExampleTypeOK, Main, StartRaft, InitRaftNode, NewKVStore, ServeHttpKVAPI,
               MakeDirectory, StartNode, AssignNode, InitTransport, AddPeers, AddPeer,
               StartTimer, StartServeChannels
    <2> QED
        BY <2>2, <2>3, <2>4, <2>5 DEF ExampleTypeOK
<1>2. CASE OnTickTimer
    <2>1. tasks' \in [Queue -> Seq(Task)]
        BY <1>2, ExecutedFacts, TaskTypes DEF OnTickTimer, Execute, ExampleTypeOK
    <2> QED
        BY <1>2, <2>1 DEF OnTickTimer, ExampleTypeOK
<1>3. CASE Propose
    <2>1. made' \in 0..MaxProposals
        BY <1>3, ExampleAssumption DEF Propose, ExampleTypeOK
    <2>2. tasks' \in [Queue -> Seq(Task)]
        BY <1>3, <2>1, ExecutedFacts, TaskTypes DEF Propose, Execute, ExampleTypeOK, Queue
    <2>3. accepted' \in Seq(0..MaxProposals)
        BY <1>3, <2>1, AppendProperties DEF Propose, ExampleTypeOK
    <2> QED
        BY <1>3, <2>1, <2>2, <2>3 DEF Propose, ExampleTypeOK
<1>4. CASE Commit
    <2>1. tasks' \in [Queue -> Seq(Task)]
        BY <1>4, ExecutedFacts, TaskTypes DEF Commit, Execute, ExampleTypeOK, Queue
    <2>2. calls' \in 0..MaxCalls
        BY <1>4, ExampleAssumption DEF Commit, ExampleTypeOK
    <2> QED
        BY <1>4, <2>1, <2>2 DEF Commit, ExampleTypeOK
<1>5. CASE ExecuteReady
    <2>1. tasks' \in [Queue -> Seq(Task)]
        BY <1>5, ExecutedFacts, TaskTypes DEF ExecuteReady, Execute, ExampleTypeOK, Queue
    <2>2. calls' \in 0..MaxCalls
        BY <1>5, ExampleAssumption DEF ExecuteReady, ExampleTypeOK
    <2> QED
        BY <1>5, <2>1, <2>2 DEF ExecuteReady, ExampleTypeOK
<1>6. CASE Run
    <2>1. tasks' \in [Queue -> Seq(Task)]
        BY <1>6, RestFacts DEF Run, Takes, ExampleTypeOK, Queue
    <2>2. ticks' \in Nat
        BY <1>6 DEF Run, ExampleTypeOK
    <2> QED
        BY <1>6, <2>1, <2>2 DEF Run, Misread, ExampleTypeOK
<1>7. CASE ReadCommits
    <2>1. tasks' \in [Queue -> Seq(Task)]
        BY <1>7, RestFacts DEF ReadCommits, Takes, ExampleTypeOK, Queue
    <2> QED
        BY <1>7, <2>1 DEF ReadCommits, Misread, ExampleTypeOK
<1>8. CASE ServeProposeChannels
    <2> DEFINE number == Head(tasks["proposals"]).number
    <2>1. number \in 0..MaxProposals
        BY <1>8, RestFacts DEF ServeProposeChannels, Takes, ExampleTypeOK, Queue, Task
    <2>2. Rest("proposals") \in [Queue -> Seq(Task)]
        BY <1>8, RestFacts DEF ServeProposeChannels, Takes, ExampleTypeOK, Queue
    <2>3. /\ tasks' \in Executed(Rest("proposals"), nodeId, [type |-> "MsgTypeProp", number |-> number])
          /\ handed' = Append(handed, number)
        BY <1>8 DEF ServeProposeChannels
    <2> HIDE DEF number
    <2>4. tasks' \in [Queue -> Seq(Task)]
        BY <2>1, <2>2, <2>3, ExecutedFacts, TaskTypes DEF ExampleTypeOK
    <2>5. handed' \in Seq(0..MaxProposals)
        BY <2>1, <2>3, AppendProperties DEF ExampleTypeOK
    <2> QED
        BY <1>8, <2>4, <2>5 DEF ServeProposeChannels, ExampleTypeOK
<1>9. CASE ServeChannels
    <2>1. tasks' \in [Queue -> Seq(Task)]
        BY <1>9, RestFacts DEF ServeChannels, Takes, ExampleTypeOK, Queue
    <2>2. published' \in Nat
        BY <1>9 DEF ServeChannels, ExampleTypeOK
    <2> QED
        BY <1>9, <2>1, <2>2 DEF ServeChannels, ExampleTypeOK
<1>10. CASE UNCHANGED vars
    BY <1>10 DEF vars, ExampleTypeOK
<1> QED
    BY <1>1, <1>2, <1>3, <1>4, <1>5, <1>6, <1>7, <1>8, <1>9, <1>10 DEF Next, Callers

\* The example's state is well typed, whatever strays onto whichever queue.
THEOREM ExampleTypeInvariant == Spec => []ExampleTypeOK
BY TypeInit, TypeStep, PTL DEF Spec

-----------------------------------------------------------------------------
\* node_ never gets a queue, and the queues that StartServeChannels starts are
\* not the first.
QueueOrder ==
    /\ nodeId = Unset
    /\ first \in {Unset, "node", "commits"}
    /\ first = Unset => started = {}
    /\ startup \in {"assign", "transport", "peers", "timer", "proposals", "channels", "done"}
          => first # Unset

LEMMA OrderInit == Init => QueueOrder
BY DEF Init, QueueOrder

LEMMA OrderStep == ExampleTypeOK /\ QueueOrder /\ [Next]_vars => QueueOrder'
<1> SUFFICES ASSUME ExampleTypeOK, QueueOrder, [Next]_vars
             PROVE  QueueOrder'
    OBVIOUS
<1> USE DEF queueVars, threads
<1>1. CASE Main
    BY <1>1 DEF Main, InitRaftNode, NewKVStore, ServeHttpKVAPI, StartQueue, QueueOrder, Unset
<1>2. CASE StartRaft
    BY <1>2 DEF StartRaft, MakeDirectory, StartNode, AssignNode, InitTransport, AddPeers, AddPeer,
                StartTimer, StartServeChannels, StartQueue, QueueOrder, Unset
<1>3. CASE ~Main /\ ~StartRaft
    <2>1. UNCHANGED <<nodeId, first, started, startup>>
        BY <1>3 DEF Next, Callers, OnTickTimer, Propose, Commit, ExecuteReady, Run, ReadCommits,
                    ServeProposeChannels, ServeChannels, vars
    <2> QED
        BY <2>1 DEF QueueOrder
<1> QED
    BY <1>1, <1>2, <1>3

\* A queue that StartServeChannels starts grows only by its own id.
LEMMA OwnQueue ==
    ASSUME ExampleTypeOK, QueueOrder, NEW ts \in [Queue -> Seq(Task)],
           NEW id \in Queue \cup {Unset}, NEW task \in Task, NEW result \in Executed(ts, id, task),
           NEW q \in {"proposals", "channels"}, ~(id \in started /\ q = id)
    PROVE  result[q] = ts[q]
<1>1. result = ts \/ \E p \in Queue :
         /\ result = [ts EXCEPT ![p] = Append(@, task)]
         /\ (id \in started /\ p = id) \/ (id \notin started /\ p = first)
    BY DEF Executed, ExampleTypeOK
<1>2. q \in Queue /\ q # first
    BY DEF QueueOrder, Queue, Unset
<1> QED
    BY <1>1, <1>2

-----------------------------------------------------------------------------
\* The loop over the peers passes over nobody but the server itself.
PeersPassed ==
    /\ main = "init" => startup = "none"
    /\ startup \in {"peers", "timer", "proposals", "channels", "done"}
          => \A p \in 1..cluster : p < peer => p = Id
    /\ startup \in {"timer", "proposals", "channels", "done"} => peer > cluster
    /\ timer # "unset" => startup \in {"proposals", "channels", "done"}
    /\ "proposals" \in started => startup \in {"channels", "done"}
    /\ tasks["proposals"] # <<>> \/ handed # <<>> => "proposals" \in started

LEMMA PeersInit == Init => PeersPassed
<1> SUFFICES ASSUME Init PROVE PeersPassed
    OBVIOUS
<1>1. tasks["proposals"] = <<>>
    BY DEF Init, Queue
<1> QED
    BY <1>1 DEF Init, PeersPassed

LEMMA PeersStep ==
    ExampleTypeOK /\ QueueOrder /\ PeersPassed /\ [Next]_vars => PeersPassed'
<1> SUFFICES ASSUME ExampleTypeOK, QueueOrder, PeersPassed, [Next]_vars
             PROVE  PeersPassed'
    OBVIOUS
<1> USE DEF queueVars, threads, histories
<1>1. CASE Main
    <2>1. UNCHANGED <<cluster, peer, timer, tasks, handed>>
        BY <1>1 DEF Main, InitRaftNode, NewKVStore, ServeHttpKVAPI
    <2>2. "proposals" \in started' <=> "proposals" \in started
        BY <1>1 DEF Main, InitRaftNode, NewKVStore, ServeHttpKVAPI, StartQueue
    <2>3. \/ startup' = startup /\ main' # "init"
          \/ startup' = startup /\ main' = main
          \/ startup = "none" /\ startup' = "directory" /\ main' # "init"
        BY <1>1 DEF Main, InitRaftNode, NewKVStore, ServeHttpKVAPI, PeersPassed
    <2> QED
        BY <2>1, <2>2, <2>3 DEF PeersPassed
<1>2. CASE StartRaft
    <2>1. UNCHANGED <<cluster, main, tasks, handed>> /\ startup # "none"
        BY <1>2 DEF StartRaft, MakeDirectory, StartNode, AssignNode, InitTransport, AddPeers,
                    StartTimer, StartServeChannels
    <2>2. cluster \in Nat /\ peer \in Nat
        BY ExampleAssumption DEF ExampleTypeOK
    <2>3. CASE MakeDirectory \/ StartNode \/ AssignNode
        BY <2>1, <2>3 DEF MakeDirectory, StartNode, AssignNode, StartQueue, PeersPassed
    <2>4. CASE InitTransport
        BY <2>1, <2>2, <2>4 DEF InitTransport, PeersPassed
    <2>5. CASE AddPeers
        BY <2>1, <2>2, <2>5 DEF AddPeers, AddPeer, PeersPassed
    <2>6. CASE StartTimer \/ StartServeChannels
        BY <2>1, <2>2, <2>6 DEF StartTimer, StartServeChannels, StartQueue, PeersPassed
    <2> QED
        BY <1>2, <2>3, <2>4, <2>5, <2>6 DEF StartRaft
<1>3. CASE ~Main /\ ~StartRaft
    <2>1. /\ UNCHANGED <<startup, cluster, peer, main, started>>
          /\ timer' # "unset" => timer # "unset"
        BY <1>3 DEF Next, Callers, OnTickTimer, Propose, Commit, ExecuteReady, Run, ReadCommits,
                    ServeProposeChannels, ServeChannels, vars
    <2>2. tasks'["proposals"] # <<>> \/ handed' # <<>> => "proposals" \in started
        <3> SUFFICES ASSUME "proposals" \notin started
                     PROVE  tasks'["proposals"] = <<>> /\ handed' = <<>>
            OBVIOUS
        <3>1. tasks["proposals"] = <<>> /\ handed = <<>>
            BY DEF PeersPassed
        <3>2. \A id \in Queue \cup {Unset}, t \in Task : \A result \in Executed(tasks, id, t) :
                 result["proposals"] = tasks["proposals"]
            BY OwnQueue DEF ExampleTypeOK
        <3>3. CASE OnTickTimer \/ Commit \/ ExecuteReady
            BY <3>1, <3>2, <3>3, TaskTypes DEF OnTickTimer, Commit, ExecuteReady, Execute, Queue, QueueOrder
        <3>4. CASE Propose
            <4>1. made' \in 0..MaxProposals
                BY <3>4, ExampleAssumption DEF Propose, ExampleTypeOK
            <4> QED
                BY <3>1, <3>2, <3>4, <4>1, TaskTypes DEF Propose, Execute, Queue
        <3>5. CASE Run \/ ReadCommits \/ ServeChannels
            BY <3>1, <3>5, RestFacts DEF Run, ReadCommits, ServeChannels, Takes, ExampleTypeOK, Queue
        <3>6. ~ServeProposeChannels
            BY <3>1 DEF ServeProposeChannels, Takes
        <3>7. CASE UNCHANGED vars
            BY <3>1, <3>7 DEF vars
        <3> QED
            BY <1>3, <3>3, <3>4, <3>5, <3>6, <3>7 DEF Next, Callers
    <2> QED
        BY <2>1, <2>2 DEF PeersPassed
<1> QED
    BY <1>1, <1>2, <1>3

-----------------------------------------------------------------------------
\* The positions of the ticks among the tasks s of a queue.
TickAt(s) == {k \in 1..Len(s) : s[k].type = "MsgTypeTick"}

\* The timer queues at most one tick, on the queue that was created first.
OneTick ==
    /\ \A q \in Queue : TickAt(tasks[q]) # {} => q = first /\ timer = "fired"
    /\ \A j, k \in TickAt(tasks["node"]) : j = k
    /\ ticks > 0 => first = "node" /\ timer = "fired" /\ TickAt(tasks["node"]) = {}
    /\ ticks <= 1

LEMMA TickAtAppend ==
    ASSUME NEW s \in Seq(Task), NEW task \in Task
    PROVE  /\ task.type # "MsgTypeTick" => TickAt(Append(s, task)) = TickAt(s)
           /\ TickAt(s) = {} => TickAt(Append(s, task)) \subseteq {Len(s) + 1}
<1>1. /\ Len(Append(s, task)) = Len(s) + 1 /\ Len(s) \in Nat
      /\ \A k \in 1..Len(s) : Append(s, task)[k] = s[k]
      /\ Append(s, task)[Len(s) + 1] = task
    BY AppendProperties, LenProperties
<1>2. 1..(Len(s) + 1) = 1..Len(s) \cup {Len(s) + 1} /\ Len(s) + 1 \notin 1..Len(s)
    BY <1>1
<1> QED
    BY <1>1, <1>2 DEF TickAt

LEMMA TickAtTail ==
    ASSUME NEW s \in Seq(Task), s # <<>>
    PROVE  /\ \A k \in TickAt(Tail(s)) : k + 1 \in TickAt(s)
           /\ Head(s).type = "MsgTypeTick" => 1 \in TickAt(s)
           /\ TickAt(Tail(s)) \subseteq Nat \ {0}
<1>1. /\ Len(s) \in Nat \ {0} /\ Len(Tail(s)) = Len(s) - 1
      /\ \A k \in 1..Len(Tail(s)) : Tail(s)[k] = s[k + 1]
      /\ Head(s) = s[1]
    BY HeadTailProperties, EmptySeq, LenProperties
<1> QED
    BY <1>1 DEF TickAt

\* A task that is no tick changes no queue's ticks, wherever it goes.
LEMMA NoNewTick ==
    ASSUME ExampleTypeOK, NEW ts \in [Queue -> Seq(Task)], NEW id \in Queue \cup {Unset},
           NEW task \in Task, task.type # "MsgTypeTick",
           NEW result \in Executed(ts, id, task), NEW q \in Queue
    PROVE  TickAt(result[q]) = TickAt(ts[q])
<1>1. result = ts \/ \E p \in Queue : result = [ts EXCEPT ![p] = Append(@, task)]
    BY DEF Executed, ExampleTypeOK
<1>2. result[q] = ts[q] \/ result[q] = Append(ts[q], task)
    BY <1>1
<1>3. ts[q] \in Seq(Task)
    OBVIOUS
<1> QED
    BY <1>2, <1>3, TickAtAppend

\* A queue that gives up its head keeps the ticks of the rest, and no others.
LEMMA RestTicks ==
    ASSUME ExampleTypeOK, NEW r \in Queue, tasks[r] # <<>>, NEW q \in Queue
    PROVE  /\ TickAt(Rest(r)[q]) # {} => TickAt(tasks[q]) # {}
           /\ \A k \in TickAt(Rest(r)[r]) : k + 1 \in TickAt(tasks[r])
           /\ q # r => Rest(r)[q] = tasks[q]
           /\ TickAt(Rest(r)[r]) \subseteq Nat \ {0}
           /\ Head(tasks[r]).type = "MsgTypeTick" => 1 \in TickAt(tasks[r])
<1>1. /\ Rest(r)[r] = Tail(tasks[r])
      /\ q # r => Rest(r)[q] = tasks[q]
      /\ tasks[r] \in Seq(Task)
    BY RestFacts DEF ExampleTypeOK
<1>2. /\ \A k \in TickAt(Tail(tasks[r])) : k + 1 \in TickAt(tasks[r])
      /\ TickAt(Tail(tasks[r])) \subseteq Nat \ {0}
      /\ Head(tasks[r]).type = "MsgTypeTick" => 1 \in TickAt(tasks[r])
    BY <1>1, TickAtTail
<1> QED
    BY <1>1, <1>2

LEMMA TickInit == Init => OneTick
<1> SUFFICES ASSUME Init PROVE OneTick
    OBVIOUS
<1>1. \A q \in Queue : TickAt(tasks[q]) = {}
    BY DEF Init, TickAt
<1> QED
    BY <1>1 DEF Init, OneTick, Queue

LEMMA TickStep ==
    ExampleTypeOK /\ QueueOrder /\ PeersPassed /\ OneTick /\ [Next]_vars => OneTick'
<1> SUFFICES ASSUME ExampleTypeOK, QueueOrder, PeersPassed, OneTick, [Next]_vars
             PROVE  OneTick'
    OBVIOUS
<1> USE DEF queueVars, threads, histories
<1>0. /\ tasks \in [Queue -> Seq(Task)] /\ nodeId \in Queue \cup {Unset} /\ nodeId = Unset
      /\ first \in Queue \cup {Unset} /\ started \subseteq Queue /\ ticks \in Nat
      /\ "node" \in Queue /\ Unset \notin Queue
    BY DEF ExampleTypeOK, QueueOrder, Queue, Unset
<1>1. CASE Main \/ StartRaft
    <2>1. UNCHANGED <<tasks, ticks>>
        BY <1>1, ThreadSteps
    <2>2. first' = first \/ first = Unset
        BY <1>1 DEF Main, StartRaft, InitRaftNode, NewKVStore, ServeHttpKVAPI, MakeDirectory, StartNode,
                    AssignNode, InitTransport, AddPeers, StartTimer, StartServeChannels, StartQueue
    <2>3. timer = "fired" => timer' = "fired"
        BY <1>1 DEF Main, StartRaft, InitRaftNode, NewKVStore, ServeHttpKVAPI, MakeDirectory, StartNode,
                    AssignNode, InitTransport, AddPeers, StartTimer, StartServeChannels, PeersPassed
    <2>4. CASE first = Unset
        <3>1. (\A q \in Queue : TickAt(tasks[q]) = {}) /\ ~(ticks > 0)
            BY <1>0, <2>4 DEF OneTick
        <3> QED
            BY <1>0, <2>1, <3>1 DEF OneTick
    <2>5. CASE first' = first
        BY <2>1, <2>3, <2>5 DEF OneTick
    <2> QED
        BY <2>2, <2>4, <2>5
<1>2. CASE OnTickTimer
    <2>1. (\A q \in Queue : TickAt(tasks[q]) = {}) /\ ~(ticks > 0)
        BY <1>2 DEF OnTickTimer, OneTick
    <2>2. /\ timer' = "fired" /\ first' = first /\ ticks' = ticks
          /\ tasks' \in Executed(tasks, nodeId, [type |-> "MsgTypeTick", number |-> 0])
        BY <1>2 DEF OnTickTimer, Execute
    <2>3. \/ tasks' = tasks
          \/ /\ first \in Queue
             /\ tasks' = [tasks EXCEPT ![first] = Append(@, [type |-> "MsgTypeTick", number |-> 0])]
        BY <1>0, <2>2 DEF Executed
    <2>4. CASE tasks' = tasks
        BY <1>0, <2>1, <2>2, <2>4 DEF OneTick
    <2>5. ASSUME first \in Queue,
                 tasks' = [tasks EXCEPT ![first] = Append(@, [type |-> "MsgTypeTick", number |-> 0])]
          PROVE  OneTick'
        <3> DEFINE tick == [type |-> "MsgTypeTick", number |-> 0]
        <3>1. tasks[first] \in Seq(Task) /\ tick \in Task
            BY <1>0, <2>5, TaskTypes
        <3>2. \A q \in Queue : q # first => tasks'[q] = tasks[q]
            BY <1>0, <2>5
        <3>3. tasks'[first] = Append(tasks[first], tick)
            BY <1>0, <2>5
        <3> HIDE DEF tick
        <3>4. TickAt(tasks'[first]) \subseteq {Len(tasks[first]) + 1}
            BY <2>1, <2>5, <3>1, <3>3, TickAtAppend
        <3>5. \A j, k \in TickAt(tasks'["node"]) : j = k
            BY <1>0, <2>1, <3>2, <3>4
        <3> QED
            BY <1>0, <2>1, <2>2, <3>2, <3>5 DEF OneTick
    <2> QED
        BY <2>3, <2>4, <2>5
<1>3. CASE Callers
    <2>1. UNCHANGED <<first, timer, ticks>>
        BY <1>3 DEF Callers, Propose, Commit, ExecuteReady
    <2>2. made + 1 \in 0..MaxProposals \/ ~Propose
        BY ExampleAssumption DEF Propose, ExampleTypeOK
    <2>3. \E id \in Queue \cup {Unset}, task \in Task :
             task.type # "MsgTypeTick" /\ tasks' \in Executed(tasks, id, task)
        <3>1. CASE Propose
            <4>1. tasks' \in Executed(tasks, "proposals",
                                     [type |-> "ChannalTypePropose", number |-> made + 1])
                BY <3>1 DEF Propose, Execute
            <4> QED
                BY <2>2, <3>1, <4>1, TaskTypes DEF Queue
        <3>2. CASE Commit
            BY <3>2, TaskTypes DEF Commit, Execute, Queue
        <3>3. CASE ExecuteReady
            BY <3>3, TaskTypes DEF ExecuteReady, Execute, Queue
        <3> QED
            BY <1>3, <3>1, <3>2, <3>3 DEF Callers
    <2>4. ASSUME NEW q \in Queue
          PROVE  TickAt(tasks'[q]) = TickAt(tasks[q])
        <3>1. PICK id \in Queue \cup {Unset}, task \in Task :
                 task.type # "MsgTypeTick" /\ tasks' \in Executed(tasks, id, task)
            BY <2>3
        <3> QED
            BY <1>0, <3>1, NoNewTick
    <2> QED
        BY <1>0, <2>1, <2>4 DEF OneTick
<1>4. CASE Run
    <2>1. /\ tasks["node"] # <<>> /\ tasks' = Rest("node") /\ UNCHANGED <<first, timer>>
          /\ \/ Head(tasks["node"]).type = "MsgTypeTick" /\ ticks' = ticks + 1
             \/ ticks' = ticks
        BY <1>4 DEF Run, Takes
    <2>2. /\ \A q \in Queue : TickAt(tasks'[q]) # {} => TickAt(tasks[q]) # {}
          /\ \A k \in TickAt(tasks'["node"]) : k + 1 \in TickAt(tasks["node"]) /\ k \in Nat \ {0}
          /\ Head(tasks["node"]).type = "MsgTypeTick" => 1 \in TickAt(tasks["node"])
        BY <1>0, <2>1, RestTicks
    <2>3. \A q \in Queue : TickAt(tasks'[q]) # {} => q = first' /\ timer' = "fired"
        BY <2>1, <2>2 DEF OneTick
    <2>4. \A j, k \in TickAt(tasks'["node"]) : j = k
        BY <2>2 DEF OneTick
    <2>5. CASE ticks' = ticks
        BY <1>0, <2>1, <2>2, <2>3, <2>4, <2>5 DEF OneTick
    <2>6. CASE Head(tasks["node"]).type = "MsgTypeTick" /\ ticks' = ticks + 1
        <3>1. 1 \in TickAt(tasks["node"])
            BY <2>2, <2>6
        <3>2. first = "node" /\ timer = "fired" /\ ~(ticks > 0)
            BY <1>0, <3>1 DEF OneTick
        <3>3. TickAt(tasks'["node"]) = {}
            BY <2>2, <3>1 DEF OneTick
        <3>4. ticks' = 1
            BY <1>0, <2>6, <3>2
        <3>5. first' = "node" /\ timer' = "fired" /\ ticks' <= 1
            BY <2>1, <3>2, <3>4
        <3> QED
            BY <2>3, <2>4, <3>3, <3>5 DEF OneTick
    <2> QED
        BY <2>1, <2>5, <2>6
<1>5. CASE ReadCommits \/ ServeChannels
    <2>1. UNCHANGED <<first, timer, ticks>>
        BY <1>5 DEF ReadCommits, ServeChannels
    <2>2. \E r \in Queue \ {"node"} : tasks[r] # <<>> /\ tasks' = Rest(r)
        BY <1>5 DEF ReadCommits, ServeChannels, Takes, Queue
    <2>3. /\ \A q \in Queue : TickAt(tasks'[q]) # {} => TickAt(tasks[q]) # {}
          /\ tasks'["node"] = tasks["node"]
        BY <1>0, <2>2, RestTicks
    <2> QED
        BY <1>0, <2>1, <2>3 DEF OneTick
<1>6. CASE ServeProposeChannels
    <2> DEFINE number == Head(tasks["proposals"]).number
               task   == [type |-> "MsgTypeProp", number |-> number]
    <2>1. tasks["proposals"] # <<>> /\ "proposals" \in Queue
        BY <1>6 DEF ServeProposeChannels, Takes, Queue
    <2>2. Rest("proposals") \in [Queue -> Seq(Task)] /\ Head(tasks["proposals"]) \in Task
        BY <1>0, <2>1, RestFacts
    <2>3. number \in 0..MaxProposals
        BY <2>2 DEF Task
    <2>4. task \in Task /\ task.type # "MsgTypeTick"
        BY <2>3, TaskTypes
    <2>5. tasks' \in Executed(Rest("proposals"), nodeId, task) /\ UNCHANGED <<first, timer, ticks>>
        BY <1>6 DEF ServeProposeChannels
    <2> HIDE DEF task
    <2>6. ASSUME NEW q \in Queue
          PROVE  TickAt(tasks'[q]) = TickAt(Rest("proposals")[q])
        <3> DEFINE rest == Rest("proposals")
        <3>1. rest \in [Queue -> Seq(Task)] /\ tasks' \in Executed(rest, nodeId, task)
            BY <2>2, <2>5
        <3> HIDE DEF rest
        <3>2. PICK id \in Queue \cup {Unset}, sent \in Task :
                 sent.type # "MsgTypeTick" /\ tasks' \in Executed(rest, id, sent)
            BY <1>0, <2>4, <3>1
        <3>3. TickAt(tasks'[q]) = TickAt(rest[q])
            BY <3>1, <3>2, NoNewTick
        <3> QED
            BY <3>3 DEF rest
    <2>7. /\ \A q \in Queue : TickAt(tasks'[q]) # {} => TickAt(tasks[q]) # {}
          /\ TickAt(tasks'["node"]) = TickAt(tasks["node"])
        BY <1>0, <2>1, <2>6, RestTicks
    <2> QED
        BY <1>0, <2>5, <2>7 DEF OneTick
<1>7. CASE UNCHANGED vars
    BY <1>7 DEF vars, OneTick
<1> QED
    BY <1>1, <1>2, <1>3, <1>4, <1>5, <1>6, <1>7 DEF Next

-----------------------------------------------------------------------------
\* Nothing on the queue that ServeChannels drains is ready.
NoneReady ==
    /\ \A k \in 1..Len(tasks["channels"]) : tasks["channels"][k].type # "ChannalTypeReady"
    /\ published = 0

LEMMA ReadyInit == Init => NoneReady
<1> SUFFICES ASSUME Init PROVE NoneReady
    OBVIOUS
<1>1. tasks["channels"] = <<>>
    BY DEF Init, Queue
<1> QED
    BY <1>1 DEF Init, NoneReady

LEMMA ReadyStep == ExampleTypeOK /\ QueueOrder /\ NoneReady /\ [Next]_vars => NoneReady'
<1> SUFFICES ASSUME ExampleTypeOK, QueueOrder, NoneReady, [Next]_vars
             PROVE  NoneReady'
    OBVIOUS
<1> USE DEF queueVars, threads, histories
<1> DEFINE channels == tasks["channels"]
<1>1. /\ tasks \in [Queue -> Seq(Task)] /\ channels \in Seq(Task) /\ "channels" \in Queue
      /\ nodeId = Unset /\ Unset \notin Queue /\ Unset # "channels"
    BY DEF ExampleTypeOK, QueueOrder, Queue, Unset
<1>2. \A id \in Queue \cup {Unset}, t \in Task : \A result \in Executed(tasks, id, t) :
         id # "channels" => result["channels"] = channels
    BY <1>1, OwnQueue
<1>3. ASSUME tasks'["channels"] = channels, published' = published
      PROVE  NoneReady'
    BY <1>3 DEF NoneReady
<1>4. CASE Main \/ StartRaft
    BY <1>3, <1>4, ThreadSteps
<1>5. CASE OnTickTimer
    BY <1>1, <1>2, <1>3, <1>5, TaskTypes DEF OnTickTimer, Execute
<1>6. CASE Propose
    <2>1. made' \in 0..MaxProposals
        BY <1>6, ExampleAssumption DEF Propose, ExampleTypeOK
    <2> QED
        BY <1>2, <1>3, <1>6, <2>1, TaskTypes DEF Propose, Execute, Queue
<1>7. CASE Commit
    BY <1>2, <1>3, <1>7, TaskTypes DEF Commit, Execute, Queue
<1>8. CASE ExecuteReady
    <2> DEFINE task == [type |-> "ChannalTypePropose", number |-> 0]
    <2>1. task \in Task /\ task.type # "ChannalTypeReady"
        BY TaskTypes
    <2>2. tasks' \in Executed(tasks, "channels", task) /\ published' = published
        BY <1>8 DEF ExecuteReady, Execute
    <2> HIDE DEF task
    <2>3. CASE "channels" \notin started
        <3>1. tasks'["channels"] = channels
            BY <1>1, <2>1, <2>2, <2>3, OwnQueue
        <3> QED
            BY <1>3, <2>2, <3>1
    <2>4. CASE "channels" \in started
        <3>1. tasks'["channels"] = Append(channels, task)
            BY <1>1, <2>2, <2>4 DEF Executed
        <3>2. /\ Len(Append(channels, task)) = Len(channels) + 1 /\ Len(channels) \in Nat
              /\ \A k \in 1..Len(channels) : Append(channels, task)[k] = channels[k]
              /\ Append(channels, task)[Len(channels) + 1] = task
            BY <1>1, <2>1, AppendProperties, LenProperties
        <3> QED
            BY <2>1, <2>2, <3>1, <3>2 DEF NoneReady
    <2> QED
        BY <2>3, <2>4
<1>9. CASE Run \/ ReadCommits
    <2>1. PICK q \in Queue \ {"channels"} : tasks[q] # <<>> /\ tasks' = Rest(q)
        BY <1>9 DEF Run, ReadCommits, Takes, Queue
    <2>2. tasks'["channels"] = channels
        BY <1>1, <2>1, RestFacts
    <2> QED
        BY <1>3, <1>9, <2>2 DEF Run, ReadCommits
<1>10. CASE ServeProposeChannels
    <2> DEFINE rest == Rest("proposals")
               task == [type |-> "MsgTypeProp", number |-> Head(tasks["proposals"]).number]
    <2>1. /\ tasks["proposals"] # <<>> /\ "proposals" \in Queue
          /\ tasks' \in Executed(rest, nodeId, task) /\ published' = published
        BY <1>10 DEF ServeProposeChannels, Takes, Queue
    <2>2. /\ rest \in [Queue -> Seq(Task)] /\ rest["channels"] = channels
          /\ Head(tasks["proposals"]) \in Task
        BY <1>1, <2>1, RestFacts
    <2>3. task \in Task
        BY <2>2, TaskTypes DEF Task
    <2> HIDE DEF task, rest
    <2>4. PICK id \in (Queue \cup {Unset}) \ {"channels"}, sent \in Task :
             tasks' \in Executed(rest, id, sent)
        BY <1>1, <2>1, <2>3
    <2>5. tasks'["channels"] = channels
        BY <2>2, <2>4, OwnQueue
    <2> QED
        BY <1>3, <2>1, <2>5
<1>11. CASE ServeChannels
    <2>1. /\ channels # <<>> /\ tasks' = Rest("channels")
          /\ Head(channels).type # "ChannalTypeReady" => published' = published
        BY <1>11 DEF ServeChannels, Takes
    <2>2. /\ tasks'["channels"] = Tail(channels)
          /\ Len(channels) \in Nat \ {0} /\ Len(Tail(channels)) = Len(channels) - 1
          /\ \A k \in 1..Len(Tail(channels)) : Tail(channels)[k] = channels[k + 1]
          /\ Head(channels) = channels[1]
        BY <1>1, <2>1, RestFacts, HeadTailProperties, EmptySeq, LenProperties
    <2>3. 1 \in 1..Len(channels) /\ \A k \in 1..Len(Tail(channels)) : k + 1 \in 1..Len(channels)
        BY <2>2
    <2>4. published' = published
        BY <2>1, <2>2, <2>3 DEF NoneReady
    <2>5. \A k \in 1..Len(tasks'["channels"]) :
             tasks'["channels"][k].type # "ChannalTypeReady"
        BY <2>2, <2>3 DEF NoneReady
    <2> QED
        BY <2>4, <2>5 DEF NoneReady
<1>12. CASE UNCHANGED vars
    BY <1>3, <1>12 DEF vars
<1> QED
    BY <1>4, <1>5, <1>6, <1>7, <1>8, <1>9, <1>10, <1>11, <1>12 DEF Next, Callers

-----------------------------------------------------------------------------
\* The proposals in a are those in h, then those among the tasks s, place by
\* place; they increase, and none is above n.
Kept(a, h, s, n) ==
    /\ Len(a) = Len(h) + Len(s)
    /\ \A k \in 1..Len(h) : a[k] = h[k]
    /\ \A k \in 1..Len(s) : a[Len(h) + k] = s[k].number
    /\ \A k \in 1..Len(a) : a[k] <= n
    /\ \A j, k \in 1..Len(a) : j < k => a[j] < a[k]

OrderKept == Kept(accepted, handed, tasks["proposals"], made)

LEMMA KeptAppend ==
    ASSUME NEW a \in Seq(0..MaxProposals), NEW h \in Seq(0..MaxProposals),
           NEW s \in Seq(Task), NEW n \in Nat, n + 1 \in 0..MaxProposals,
           NEW task \in Task, task.number = n + 1, Kept(a, h, s, n)
    PROVE  Kept(Append(a, n + 1), h, Append(s, task), n + 1)
<1> DEFINE b == Append(a, n + 1)
           t == Append(s, task)
<1>1. /\ Len(a) \in Nat /\ Len(h) \in Nat /\ Len(s) \in Nat
      /\ Len(b) = Len(a) + 1 /\ b[Len(a) + 1] = n + 1
      /\ \A k \in 1..Len(a) : b[k] = a[k]
      /\ Len(t) = Len(s) + 1 /\ t[Len(s) + 1] = task
      /\ \A k \in 1..Len(s) : t[k] = s[k]
    BY AppendProperties, LenProperties
<1>2. \A k \in 1..Len(a) : a[k] \in 0..MaxProposals
    BY ElementOfSeq
<1> HIDE DEF b, t
<1>3. Len(b) = Len(h) + Len(t)
    BY <1>1 DEF Kept
<1>4. ASSUME NEW k \in 1..Len(h) PROVE b[k] = h[k]
    BY <1>1 DEF Kept
<1>5. ASSUME NEW k \in 1..Len(t) PROVE b[Len(h) + k] = t[k].number
    <2>1. CASE k \in 1..Len(s)
        <3>1. Len(h) + k \in 1..Len(a)
            BY <1>1, <2>1 DEF Kept
        <3>2. b[Len(h) + k] = a[Len(h) + k] /\ t[k] = s[k]
            BY <1>1, <2>1, <3>1
        <3> QED
            BY <2>1, <3>2 DEF Kept
    <2>2. CASE k = Len(s) + 1
        <3>1. Len(h) + k = Len(a) + 1
            BY <1>1, <2>2 DEF Kept
        <3> QED
            BY <1>1, <2>2, <3>1
    <2> QED
        BY <1>1, <2>1, <2>2
<1>6. ASSUME NEW k \in 1..Len(b) PROVE b[k] <= n + 1
    <2>1. CASE k \in 1..Len(a)
        <3>1. b[k] = a[k] /\ a[k] <= n /\ a[k] \in Nat
            BY <1>1, <1>2, <2>1 DEF Kept
        <3> QED
            BY <3>1
    <2>2. CASE k = Len(a) + 1
        BY <1>1, <2>2
    <2> QED
        BY <1>1, <2>1, <2>2
<1>7. ASSUME NEW j \in 1..Len(b), NEW k \in 1..Len(b), j < k
      PROVE  b[j] < b[k]
    <2>1. j \in 1..Len(a) /\ b[j] = a[j] /\ a[j] <= n /\ a[j] \in Nat
        BY <1>1, <1>2, <1>7 DEF Kept
    <2>2. CASE k \in 1..Len(a)
        BY <1>1, <1>7, <2>1, <2>2 DEF Kept
    <2>3. CASE k = Len(a) + 1
        BY <1>1, <2>1, <2>3
    <2> QED
        BY <1>1, <2>2, <2>3
<1>8. Kept(b, h, t, n + 1)
    BY <1>3, <1>4, <1>5, <1>6, <1>7 DEF Kept
<1> QED
    BY <1>8 DEF b, t

LEMMA KeptTail ==
    ASSUME NEW a \in Seq(0..MaxProposals), NEW h \in Seq(0..MaxProposals),
           NEW s \in Seq(Task), s # <<>>, NEW n \in Nat, Kept(a, h, s, n)
    PROVE  Kept(a, Append(h, Head(s).number), Tail(s), n)
<1> DEFINE number == Head(s).number
           g == Append(h, number)
           t == Tail(s)
<1>1. /\ Len(s) \in Nat \ {0} /\ Len(t) = Len(s) - 1 /\ Head(s) = s[1] /\ Head(s) \in Task
      /\ \A k \in 1..Len(t) : t[k] = s[k + 1]
    BY HeadTailProperties, EmptySeq, LenProperties
<1>2. number \in 0..MaxProposals /\ number = s[1].number
    BY <1>1 DEF Task
<1> HIDE DEF number
<1>3. /\ Len(h) \in Nat /\ Len(g) = Len(h) + 1 /\ g[Len(h) + 1] = number
      /\ \A k \in 1..Len(h) : g[k] = h[k]
    BY <1>2, AppendProperties, LenProperties
<1> HIDE DEF g, t
<1>4. Len(a) = Len(g) + Len(t)
    BY <1>1, <1>3 DEF Kept
<1>5. ASSUME NEW k \in 1..Len(g) PROVE a[k] = g[k]
    <2>1. CASE k \in 1..Len(h)
        BY <1>3, <2>1 DEF Kept
    <2>2. CASE k = Len(h) + 1
        <3>1. 1 \in 1..Len(s)
            BY <1>1
        <3>2. a[Len(h) + 1] = s[1].number
            BY <3>1 DEF Kept
        <3> QED
            BY <1>2, <1>3, <2>2, <3>2
    <2> QED
        BY <1>3, <2>1, <2>2
<1>6. ASSUME NEW k \in 1..Len(t) PROVE a[Len(g) + k] = t[k].number
    <2>1. k + 1 \in 1..Len(s) /\ Len(g) + k = Len(h) + (k + 1)
        BY <1>1, <1>3
    <2>2. a[Len(h) + (k + 1)] = s[k + 1].number
        BY <2>1 DEF Kept
    <2> QED
        BY <1>1, <2>1, <2>2
<1>7. Kept(a, g, t, n)
    BY <1>4, <1>5, <1>6 DEF Kept
<1> QED
    BY <1>7 DEF g, t, number

LEMMA KeptInit == Init => OrderKept
<1> SUFFICES ASSUME Init PROVE OrderKept
    OBVIOUS
<1>1. tasks["proposals"] = <<>> /\ accepted = <<>> /\ handed = <<>>
    BY DEF Init, Queue
<1> QED
    BY <1>1 DEF OrderKept, Kept

LEMMA KeptStep == ExampleTypeOK /\ QueueOrder /\ OrderKept /\ [Next]_vars => OrderKept'
<1> SUFFICES ASSUME ExampleTypeOK, QueueOrder, OrderKept, [Next]_vars
             PROVE  OrderKept'
    OBVIOUS
<1> USE DEF queueVars, threads, histories
<1> DEFINE proposals == tasks["proposals"]
<1>1. /\ tasks \in [Queue -> Seq(Task)] /\ proposals \in Seq(Task) /\ "proposals" \in Queue
      /\ nodeId = Unset /\ Unset \notin Queue /\ Unset # "proposals"
      /\ accepted \in Seq(0..MaxProposals) /\ handed \in Seq(0..MaxProposals)
      /\ made \in 0..MaxProposals /\ made \in Nat
    BY ExampleAssumption DEF ExampleTypeOK, QueueOrder, Queue, Unset
<1>2. \A id \in Queue \cup {Unset}, t \in Task : \A result \in Executed(tasks, id, t) :
         id # "proposals" => result["proposals"] = proposals
    BY <1>1, OwnQueue
<1>3. ASSUME tasks'["proposals"] = proposals, UNCHANGED <<made, accepted, handed>>
      PROVE  OrderKept'
    BY <1>3 DEF OrderKept
<1>4. CASE Main \/ StartRaft
    BY <1>3, <1>4, ThreadSteps
<1>5. CASE OnTickTimer
    BY <1>1, <1>2, <1>3, <1>5, TaskTypes DEF OnTickTimer, Execute
<1>6. CASE Propose
    <2> DEFINE task == [type |-> "ChannalTypePropose", number |-> made + 1]
    <2>1. /\ made' = made + 1 /\ made + 1 \in 0..MaxProposals /\ handed' = handed
          /\ tasks' \in Executed(tasks, "proposals", task)
          /\ accepted' = IF "proposals" \in started THEN Append(accepted, made + 1)
                         ELSE accepted
        BY <1>1, <1>6, ExampleAssumption DEF Propose, Execute
    <2>2. task \in Task /\ task.number = made + 1
        BY <2>1, TaskTypes
    <2> HIDE DEF task
    <2>3. CASE "proposals" \in started
        <3>1. tasks'["proposals"] = Append(proposals, task)
            BY <1>1, <2>1, <2>3 DEF Executed
        <3>2. Kept(Append(accepted, made + 1), handed, Append(proposals, task), made + 1)
            BY <1>1, <2>1, <2>2, KeptAppend DEF OrderKept
        <3> QED
            BY <2>1, <2>3, <3>1, <3>2 DEF OrderKept
    <2>4. CASE "proposals" \notin started
        <3>1. tasks'["proposals"] = proposals
            BY <1>1, <2>1, <2>2, <2>4, OwnQueue
        <3>2. \A k \in 1..Len(accepted) : accepted[k] \in Nat /\ accepted[k] <= made
            <4>1. \A k \in 1..Len(accepted) : accepted[k] \in 0..MaxProposals
                BY <1>1, ElementOfSeq
            <4>2. \A k \in 1..Len(accepted) : accepted[k] <= made
                BY DEF OrderKept, Kept
            <4> QED
                BY <4>1, <4>2
        <3>3. \A k \in 1..Len(accepted) : accepted[k] <= made + 1
            BY <1>1, <3>2
        <3> QED
            BY <2>1, <2>4, <3>1, <3>3 DEF OrderKept, Kept
    <2> QED
        BY <2>3, <2>4
<1>7. CASE Commit
    BY <1>2, <1>3, <1>7, TaskTypes DEF Commit, Execute, Queue
<1>8. CASE ExecuteReady
    BY <1>2, <1>3, <1>8, TaskTypes DEF ExecuteReady, Execute, Queue
<1>9. CASE Run \/ ReadCommits \/ ServeChannels
    <2>1. PICK q \in Queue \ {"proposals"} : tasks[q] # <<>> /\ tasks' = Rest(q)
        BY <1>9 DEF Run, ReadCommits, ServeChannels, Takes, Queue
    <2>2. tasks'["proposals"] = proposals
        BY <1>1, <2>1, RestFacts
    <2> QED
        BY <1>3, <1>9, <2>2 DEF Run, ReadCommits, ServeChannels
<1>10. CASE ServeProposeChannels
    <2> DEFINE rest == Rest("proposals")
               task == [type |-> "MsgTypeProp", number |-> Head(proposals).number]
    <2>1. /\ proposals # <<>> /\ tasks' \in Executed(rest, nodeId, task)
          /\ handed' = Append(handed, Head(proposals).number)
          /\ UNCHANGED <<made, accepted>>
        BY <1>10 DEF ServeProposeChannels, Takes
    <2>2. /\ rest \in [Queue -> Seq(Task)] /\ rest["proposals"] = Tail(proposals)
          /\ Head(proposals) \in Task
        BY <1>1, <2>1, RestFacts
    <2>3. task \in Task
        BY <2>2, TaskTypes DEF Task
    <2> HIDE DEF task, rest
    <2>4. tasks'["proposals"] = Tail(proposals)
        <3>1. tasks' \in Executed(rest, Unset, task)
            BY <1>1, <2>1
        <3>2. tasks'["proposals"] = rest["proposals"]
            BY <1>1, <2>2, <2>3, <3>1, OwnQueue
        <3> QED
            BY <2>2, <3>2
    <2>5. Kept(accepted, Append(handed, Head(proposals).number), Tail(proposals), made)
        BY <1>1, <2>1, KeptTail DEF OrderKept
    <2> QED
        BY <2>1, <2>4, <2>5 DEF OrderKept
<1>11. CASE UNCHANGED vars
    BY <1>3, <1>11 DEF vars
<1> QED
    BY <1>4, <1>5, <1>6, <1>7, <1>8, <1>9, <1>10, <1>11 DEF Next, Callers

-----------------------------------------------------------------------------
(***************************************************************************)
(* A tick reaches the server only if StartRaft created the queue of the    *)
(* node before main created the one of the key-value store (node.cpp:152). *)
(***************************************************************************)
THEOREM TickNeedsNodeFirstAlways == Spec => []TickNeedsNodeFirst
<1>1. OneTick => TickNeedsNodeFirst
    BY DEF OneTick, TickNeedsNodeFirst
<1> QED
    BY <1>1, TypeInit, TypeStep, OrderInit, OrderStep, PeersInit, PeersStep, TickInit, TickStep,
       PTL DEF Spec

(***************************************************************************)
(* The clock of the server never reaches its election timeout, whatever    *)
(* the timeout, so long as it is more than one tick (raft_node.cpp:153).   *)
(***************************************************************************)
THEOREM TimerCannotElectAlways == Spec => []TimerCannotElect
<1>1. ExampleTypeOK /\ OneTick => TimerCannotElect
    BY ExampleAssumption DEF ExampleTypeOK, OneTick, TimerCannotElect
<1> QED
    BY <1>1, TypeInit, TypeStep, OrderInit, OrderStep, PeersInit, PeersStep, TickInit, TickStep,
       PTL DEF Spec

(***************************************************************************)
(* A member of a cluster of any size that has other members neither arms   *)
(* its timer nor starts its queue of proposals (raft_node.cpp:138-145).    *)
(***************************************************************************)
THEOREM OnlyAloneServesAlways == Spec => []OnlyAloneServes
<1>1. ExampleTypeOK /\ PeersPassed => OnlyAloneServes
    <2> SUFFICES ASSUME ExampleTypeOK, PeersPassed,
                        timer # "unset" \/ "proposals" \in started \/ handed # <<>>
                 PROVE  (1..cluster) \ {Id} = {}
        BY DEF OnlyAloneServes
    <2>1. startup \in {"proposals", "channels", "done"}
        BY DEF PeersPassed
    <2>2. peer > cluster /\ \A p \in 1..cluster : p < peer => p = Id
        BY <2>1 DEF PeersPassed
    <2>3. \A p \in 1..cluster : p < peer
        BY <2>2, ExampleAssumption DEF ExampleTypeOK
    <2> QED
        BY <2>2, <2>3
<1> QED
    BY <1>1, TypeInit, TypeStep, OrderInit, OrderStep, PeersInit, PeersStep, PTL DEF Spec

(***************************************************************************)
(* ServeChannels never publishes anything (raft_node.cpp:264-274).         *)
(***************************************************************************)
THEOREM NothingPublishedAlways == Spec => []NothingPublished
<1>1. NoneReady => NothingPublished
    BY DEF NoneReady, NothingPublished
<1> QED
    BY <1>1, TypeInit, TypeStep, OrderInit, OrderStep, ReadyInit, ReadyStep, PTL DEF Spec

(***************************************************************************)
(* The proposals put on their started queue reach Node::Propose in the     *)
(* order in which they came, each once (raft_node.cpp:206-232).            *)
(***************************************************************************)
THEOREM ProposalsInOrderAlways == Spec => []ProposalsInOrder
<1>1. ExampleTypeOK /\ OrderKept => ProposalsInOrder
    <2> SUFFICES ASSUME ExampleTypeOK, OrderKept PROVE ProposalsInOrder
        OBVIOUS
    <2> DEFINE s == tasks["proposals"]
               waiting == [k \in 1..Len(s) |-> s[k].number]
               whole == handed \o waiting
    <2>1. s \in Seq(Task) /\ accepted \in Seq(0..MaxProposals) /\ handed \in Seq(0..MaxProposals)
        BY DEF ExampleTypeOK, Queue
    <2>2. Len(s) \in Nat /\ Len(handed) \in Nat
        BY <2>1, LenProperties
    <2>3. \A k \in 1..Len(s) : s[k].number \in 0..MaxProposals
        <3>1. \A k \in 1..Len(s) : s[k] \in Task
            BY <2>1, ElementOfSeq
        <3> QED
            BY <3>1 DEF Task
    <2>4. /\ waiting \in Seq(0..MaxProposals) /\ Len(waiting) = Len(s)
          /\ \A k \in 1..Len(s) : waiting[k] = s[k].number
        BY <2>2, <2>3
    <2>5. /\ Kept(accepted, handed, s, made)
        BY DEF OrderKept
    <2> HIDE DEF s, waiting
    <2>6. /\ whole \in Seq(0..MaxProposals) /\ Len(whole) = Len(handed) + Len(waiting)
          /\ \A k \in 1..Len(handed) + Len(waiting) : whole[k] =
                IF k <= Len(handed) THEN handed[k] ELSE waiting[k - Len(handed)]
        BY <2>1, <2>4, ConcatProperties
    <2> HIDE DEF whole
    <2>7. Len(accepted) = Len(whole)
        BY <2>4, <2>5, <2>6 DEF Kept
    <2>8. ASSUME NEW k \in 1..Len(accepted)
          PROVE  accepted[k] = whole[k]
        <3>1. CASE k <= Len(handed)
            BY <2>2, <2>4, <2>5, <2>6, <2>7, <3>1 DEF Kept
        <3>2. CASE k > Len(handed)
            <4>1. k - Len(handed) \in 1..Len(s) /\ Len(handed) + (k - Len(handed)) = k
                BY <2>2, <2>4, <2>6, <2>7, <3>2
            <4>2. accepted[Len(handed) + (k - Len(handed))] = s[k - Len(handed)].number
                BY <2>5, <4>1 DEF Kept
            <4>3. whole[k] = waiting[k - Len(handed)]
                BY <2>2, <2>6, <2>7, <3>2
            <4> QED
                BY <2>4, <4>1, <4>2, <4>3
        <3> QED
            BY <2>2, <3>1, <3>2
    <2>9. accepted = whole
        BY <2>1, <2>6, <2>7, <2>8, SeqEqual
    <2> QED
        BY <2>5, <2>9 DEF ProposalsInOrder, whole, waiting, s, Kept
<1> QED
    BY <1>1, TypeInit, TypeStep, OrderInit, OrderStep, KeptInit, KeptStep, PTL DEF Spec

-----------------------------------------------------------------------------
(* The example implements ProposalChannel.                                  *)

LEMMA ChannelStep ==
    ASSUME ExampleTypeOK, OrderKept, [Next]_vars
    PROVE  [Channel!Next]_<<accepted, handed>>
<1> DEFINE proposals == tasks["proposals"]
<1>1. /\ accepted \in Seq(0..MaxProposals) /\ handed \in Seq(0..MaxProposals)
      /\ proposals \in Seq(Task) /\ made \in Nat
      /\ Len(handed) \in Nat /\ Len(proposals) \in Nat
    BY LenProperties DEF ExampleTypeOK, Queue
<1>2. Kept(accepted, handed, proposals, made)
    BY DEF OrderKept
<1> HIDE DEF proposals
<1>3. CASE UNCHANGED <<accepted, handed>>
    BY <1>3
<1>4. CASE Propose
    <2>1. /\ made + 1 \in 1..MaxProposals /\ handed' = handed
          /\ accepted' = accepted \/ accepted' = Append(accepted, made + 1)
        BY <1>1, <1>4, ExampleAssumption DEF Propose
    <2>2. \A k \in 1..Len(accepted) : accepted[k] < made + 1
        <3>1. \A k \in 1..Len(accepted) : accepted[k] \in 0..MaxProposals
            BY <1>1, ElementOfSeq
        <3>2. \A k \in 1..Len(accepted) : accepted[k] \in Nat /\ accepted[k] <= made
            BY <1>2, <3>1 DEF Kept
        <3> QED
            BY <1>1, <3>2
    <2> QED
        BY <2>1, <2>2 DEF Channel!Next, Channel!Accept
<1>5. CASE ServeProposeChannels
    <2>1. /\ proposals # <<>> /\ handed' = Append(handed, Head(proposals).number)
          /\ accepted' = accepted
        BY <1>5 DEF ServeProposeChannels, Takes, proposals
    <2>2. 1 \in 1..Len(proposals) /\ Head(proposals) = proposals[1]
        BY <1>1, <2>1, EmptySeq
    <2>3. accepted[Len(handed) + 1] = proposals[1].number
        BY <1>2, <2>2 DEF Kept
    <2>4. Len(handed) < Len(accepted)
        BY <1>1, <1>2, <2>2 DEF Kept
    <2> QED
        BY <2>1, <2>2, <2>3, <2>4 DEF Channel!Next, Channel!HandOn
<1>6. CASE Main \/ StartRaft
    BY <1>3, <1>6, ThreadSteps DEF histories
<1>7. CASE OnTickTimer \/ Commit \/ ExecuteReady \/ Run \/ ReadCommits \/ ServeChannels
    BY <1>3, <1>7 DEF OnTickTimer, Commit, ExecuteReady, Run, ReadCommits, ServeChannels, histories
<1>8. CASE UNCHANGED vars
    BY <1>3, <1>8 DEF vars, histories
<1> QED
    BY <1>4, <1>5, <1>6, <1>7, <1>8 DEF Next, Callers

(***************************************************************************)
(* The startup, the races of its threads and what strays onto the wrong    *)
(* queue are invisible to a proposal once accepted: step by step, the      *)
(* example is the channel of ProposalChannel (raft_node.cpp:206-232).      *)
(***************************************************************************)
THEOREM ExampleIsProposalChannel == Spec => ImplementsProposalChannel
<1>1. Init => Channel!Init
    BY DEF Init, Channel!Init
<1>2. ExampleTypeOK /\ OrderKept /\ [Next]_vars => [Channel!Next]_<<accepted, handed>>
    BY ChannelStep
<1> QED
    BY <1>1, <1>2, TypeInit, TypeStep, OrderInit, OrderStep, KeptInit, KeptStep,
       PTL DEF Spec, Channel!Spec, ImplementsProposalChannel
=============================================================================
