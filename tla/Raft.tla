-------------------------------- MODULE Raft --------------------------------
(***************************************************************************)
(* The raft state machine of src/anraft/raft.cpp with the part of RaftLog  *)
(* and Progress it calls, one copy per server, driven by Node::Tick and by *)
(* the tasks Node::Run executes.                                           *)
(*                                                                         *)
(* Values the code reads without having written them (the accumulator of   *)
(* Poll, the result of CheckQuorumActive, of the second Poll, of LastTerm, *)
(* of Term inside the log window and of the Append stub) are chosen from   *)
(* every value of their type.  A handler whose only defect is a missing    *)
(* return of a value no caller reads simply returns.  The constructor,     *)
(* which the repository declares but does not define, is taken to          *)
(* value-initialise every field and to load the term and the progress map. *)
(***************************************************************************)
EXTENDS Integers, FiniteSets

CONSTANTS
    Server,             \* the servers that run this code
    Voters,             \* keys of prs_, the same at every server
    Peer,               \* every id a message may carry
    None,               \* the id 0
    ElectionTimeout,    \* election_timeout_
    HeartbeatTimeout,   \* heartbeat_timeout_
    PreVote,            \* pre_vote_
    CheckQuorum,        \* check_quorum_
    Learners,           \* the servers whose is_learner_ is set
    MaxWord,            \* uint64_t is modelled as 0..MaxWord
    Terms,              \* the terms a server may have been created with
    Snapshot,           \* index of the dummy entry of every log
    GrantGarbage,       \* initial values of the uninitialised counter in Poll
    Inject,             \* messages that come from peers running other code
    Batching,           \* whether Run finds more than one task in a batch
    PublicSends,        \* which of SendAppend, SendHeartbeat the application calls
    MaxLast,            \* bound: the application stores no entry beyond it
    MaxElapsed          \* bound: tick counters saturate at it

Word == 0..MaxWord

\* uint64_t n + 1 and n - 1.
WordSucc(n) == IF n = MaxWord THEN 0 ELSE n + 1
WordPred(n) == IF n = 0 THEN MaxWord ELSE n - 1

Lower(a, b) == IF a < b THEN a ELSE b
Higher(a, b) == IF a < b THEN b ELSE a

\* MsgHup is the value 0 of the enumeration, the type of a message nobody set.
MsgType == {"MsgHup", "MsgApp", "MsgAppResp", "MsgVote", "MsgVoteResp",
            "MsgHeartbeat", "MsgProp", "MsgPreVote", "MsgPreVoteResp"}

Message == [type : MsgType, from : Peer, to : Peer, term : Word,
            index : Word, commit : Word, reject : BOOLEAN]

\* A message with only type, from and to set.
Msg(type, from, to) ==
    [type |-> type, from |-> from, to |-> to, term |-> 0,
     index |-> 0, commit |-> 0, reject |-> FALSE]

ASSUME ServerAssumption ==
    /\ Server # {} /\ Voters # {}
    /\ IsFiniteSet(Voters)
    /\ Server \subseteq Peer /\ Voters \subseteq Peer
    /\ None \notin Peer                 \* "ID cannot be 0", config.h:45
ASSUME TimeoutAssumption ==
    /\ ElectionTimeout \in Nat \ {0} /\ HeartbeatTimeout \in Nat
    /\ MaxElapsed \in Nat
    /\ MaxElapsed >= 2 * ElectionTimeout /\ MaxElapsed > HeartbeatTimeout + 1
    /\ PreVote \in BOOLEAN /\ CheckQuorum \in BOOLEAN
    /\ Learners \subseteq Server
ASSUME WordAssumption ==
    /\ MaxWord \in Nat \ {0}
    /\ Snapshot \in Nat /\ MaxLast \in Nat
    /\ Snapshot <= MaxLast /\ MaxLast < MaxWord
    /\ Terms \subseteq Word /\ Terms # {}
    /\ GrantGarbage \subseteq Int /\ GrantGarbage # {}
ASSUME InjectAssumption ==
    /\ Inject \subseteq Message
    /\ \A m \in Inject : m.type # "MsgApp"
    /\ Batching \in BOOLEAN
    /\ PublicSends \subseteq {"SendAppend", "SendHeartbeat"}

VARIABLES
    term,               \* term_
    vote,               \* vote_
    state,              \* state_: "Follower" or "Leader", never a candidate value
    stepFunc,           \* step_func_; tick_func_ is always set with it
    lead,               \* lead_
    votes,              \* votes_: ids that answered, with their answer
    prs,                \* prs_: progress of every voter
    learnerPrs,         \* learner_prs_: progress of every other id asked for
    committed,          \* committed_ of RaftLog
    lastIndex,          \* last index of the storage behind RaftLog
    electionElapsed,    \* election_elapsed_
    heartbeatElapsed,   \* heartbeat_elapsed_
    randomizedTimeout,  \* randomized_election_timeout_
    network             \* every message sent to a server so far

roleVars  == <<state, stepFunc, lead>>
timerVars == <<electionElapsed, heartbeatElapsed>>
logVars   == <<committed, lastIndex>>
vars == <<term, vote, roleVars, votes, prs, learnerPrs, logVars, timerVars,
          randomizedTimeout, network>>

NoProgress == [match |-> 0, next |-> 0]
EmptyMap == [p \in {} |-> NoProgress]

\* The state in which Node::StartNode leaves a server whose storage holds only
\* the dummy entry: constructed, then BecomeFollower(1, 0), whose term argument
\* Reset ignores, no bootstrap entry (that Append is a stub), and
\* SetCommited(LastIndex()).
Init ==
    /\ term \in [Server -> Terms]
    /\ vote = [s \in Server |-> None]
    /\ state = [s \in Server |-> "Follower"]
    /\ stepFunc = [s \in Server |-> "StepFollower"]
    /\ lead = [s \in Server |-> None]
    /\ votes = [s \in Server |-> EmptyMap]
    /\ prs = [s \in Server |-> [v \in Voters |-> NoProgress]]
    /\ learnerPrs = [s \in Server |-> EmptyMap]
    /\ lastIndex = [s \in Server |-> Snapshot]
    /\ committed = lastIndex
    /\ electionElapsed = [s \in Server |-> 0]
    /\ heartbeatElapsed = [s \in Server |-> 0]
    /\ randomizedTimeout \in
          [Server -> ElectionTimeout..(2 * ElectionTimeout - 1)]
    /\ network = {}

-----------------------------------------------------------------------------
(* RaftLog and Progress, as the Raft methods use them.                      *)

\* Term(i): outside the window (ErrNone, 0); inside, no return statement.
InWindow(s, i) == Snapshot <= i /\ i <= lastIndex[s]

\* Mutant: the check against LastIndex() dropped.
AnyTermMatches(s, i, t) == BOOLEAN

\* The possible results of comparing the term of entry i with t.
MatchTerm(s, i, t) == IF InWindow(s, i) THEN BOOLEAN ELSE {t = 0}

\* IsUpToDate(index, t) reads LastTerm(), which returns nothing, twice.
IsUpToDate(s, i, t) == {FALSE} \cup {t > 0 \/ i > lastIndex[s]}

\* Entries(next) fails: the entry is compacted away.
EntriesError(s, next) == next <= lastIndex[s] /\ next < Snapshot + 1

\* Mutants: next_ compared with n itself; match_ assigned without comparing;
\* match_ set to what comes next.
UpdateNextToAck(pr, n) ==
    [match |-> Higher(pr.match, n), next |-> Higher(pr.next, n)]
UpdateAlways(pr, n) ==
    [match |-> n, next |-> Higher(pr.next, WordSucc(n))]
UpdateMatchToNext(pr, n) ==
    [match |-> Higher(pr.match, WordSucc(n)), next |-> Higher(pr.next, WordSucc(n))]

MaybeUpdate(pr, n) ==
    [match |-> Higher(pr.match, n), next |-> Higher(pr.next, WordSucc(n))]

\* Mutant: half of the voters.
HalfOfVoters == Cardinality(Voters) \div 2

Quorum == Cardinality(Voters) \div 2 + 1

\* Mutant: the quorum itself is enough.
WinsAtQuorum(grant) == grant >= Quorum

\* StepCandidate compares the answers with the quorum strictly.
Wins(grant) == grant > Quorum

MatchedBy(p, i) == {v \in Voters : p[v].match >= i}

\* Mutant: the element before it.
IsHighestIndex(p, i) ==
    /\ \E v \in Voters : p[v].match = i
    /\ \A v \in Voters : p[v].match <= i

\* Mutant: the last element.
IsLowestIndex(p, i) ==
    /\ \E v \in Voters : p[v].match = i
    /\ \A v \in Voters : p[v].match >= i

\* i is the element at position Quorum - 1 of the descending match indexes.
IsQuorumIndex(p, i) ==
    /\ Cardinality(MatchedBy(p, i)) >= Quorum
    /\ \E v \in Voters : p[v].match = i
    /\ \A v \in Voters :
          Cardinality(MatchedBy(p, p[v].match)) >= Quorum => p[v].match <= i

\* Raft::MaybeCommit over the progress map p: index > committed_ and its term
\* is term_, then CommitTo(index), which does not look at LastIndex().
MaybeCommit(s, p) ==
    \E i \in Word : \E sameTerm \in MatchTerm(s, i, term[s]) :
        /\ IsQuorumIndex(p, i)
        /\ committed' = IF i > committed[s] /\ sameTerm
                          THEN [committed EXCEPT ![s] = i]
                          ELSE committed

\* GetProgress(id) with the insertion std::map::operator[] makes for an id that
\* is in neither map.
TouchLearner(s, id) ==
    IF id \in Voters \/ id \in DOMAIN learnerPrs[s]
      THEN learnerPrs
      ELSE [learnerPrs EXCEPT ![s] =
              [q \in DOMAIN @ \cup {id} |-> IF q = id THEN NoProgress ELSE @[q]]]

ProgressOf(s, id) == IF id \in Voters THEN prs[s][id] ELSE learnerPrs[s][id]

-----------------------------------------------------------------------------
(* Sending.  Send stamps from and queues the message in msgs_; the network  *)
(* may lose, delay, repeat and reorder what is queued, and messages to      *)
(* peers outside Server are not followed.                                   *)

Send(msgs) == network' = network \cup {m \in msgs : m.to \in Server}

\* Mutant: the commit index of the message is the match index of the peer.
AppendMsgsWithMatch(s, to, pr, c) ==
    {[Msg("MsgApp", s, to) EXCEPT !.index = WordPred(pr.next), !.term = t,
                                  !.commit = pr.match] : t \in Word}

\* The messages SendAppend(to) may build from progress pr and commit index c.
\* On an error it is queued all the same, with the default type and no content.
AppendMsgs(s, to, pr, c) ==
    LET prev == WordPred(pr.next)
        app(t) == [Msg("MsgApp", s, to) EXCEPT !.index = prev, !.term = t,
                                               !.commit = c]
    IN  (IF EntriesError(s, pr.next) THEN {}
         ELSE {app(t) : t \in IF InWindow(s, prev) THEN Word ELSE {0}})
        \cup
        (IF EntriesError(s, pr.next) \/ InWindow(s, prev)
         THEN {Msg("MsgHup", s, to)} ELSE {})

\* Mutant: it compares where it assigns.
BcastToOthers(s) == {p \in Voters \cup DOMAIN learnerPrs[s] : p # s}

\* The peers BcastAppend does not skip: `if (id = GetID()) return` assigns the
\* server's own id, so it skips every peer of a server whose id is not 0.
BcastTargets(s) ==
    {p \in Voters \cup DOMAIN learnerPrs[s] : s = None}

BcastAppend(s, c) ==
    \E batch \in [BcastTargets(s) ->
                    UNION {AppendMsgs(s, p, ProgressOf(s, p), c) :
                             p \in BcastTargets(s)}] :
        Send({batch[p] : p \in BcastTargets(s)})

-----------------------------------------------------------------------------
(* Role changes.  Each sets step_func_, tick_func_ and state_, and calls    *)
(* Reset, which only draws a new randomised timeout.                        *)

\* Mutant: the timeout drawn may be twice election_timeout_.
ResetClosedRange(s) ==
    \E r \in 0..ElectionTimeout :
        randomizedTimeout' = [randomizedTimeout EXCEPT ![s] = ElectionTimeout + r]

Reset(s) ==
    \E r \in 0..(ElectionTimeout - 1) :
        randomizedTimeout' = [randomizedTimeout EXCEPT ![s] = ElectionTimeout + r]

BecomeFollower(s, l) ==
    /\ stepFunc' = [stepFunc EXCEPT ![s] = "StepFollower"]
    /\ state' = [state EXCEPT ![s] = "Follower"]
    /\ lead' = [lead EXCEPT ![s] = l]
    /\ Reset(s)

\* state_ becomes StateFollower, lead_ and votes_ keep their values.
BecomeCandidate(s) ==
    /\ stepFunc' = [stepFunc EXCEPT ![s] = "StepCandidate"]
    /\ state' = [state EXCEPT ![s] = "Follower"]
    /\ vote' = [vote EXCEPT ![s] = s]
    /\ UNCHANGED lead
    /\ Reset(s)

BecomeLeader(s) ==
    /\ stepFunc' = [stepFunc EXCEPT ![s] = "StepLeader"]
    /\ state' = [state EXCEPT ![s] = "Leader"]
    /\ lead' = [lead EXCEPT ![s] = s]
    /\ Reset(s)

\* The votes are requested from the other voters unless the overload of Poll
\* that has no return statement happens to be true.
Campaign(s) ==
    /\ BecomeCandidate(s)
    /\ \E polled \in BOOLEAN :
          Send(IF polled THEN {}
               ELSE {[Msg("MsgVote", s, v) EXCEPT !.term = term[s]] :
                        v \in Voters \ {s}})

\* Mutant: a leader campaigns too.
StepHupAnyRole(s) ==
    IF ~PreVote THEN Campaign(s)
    ELSE UNCHANGED <<roleVars, vote, randomizedTimeout, network>>

\* Step(MsgHup).
StepHup(s) ==
    IF state[s] # "Leader" /\ ~PreVote
      THEN Campaign(s)
      ELSE UNCHANGED <<roleVars, vote, randomizedTimeout, network>>

-----------------------------------------------------------------------------
(* Node::Tick, executed by Node::Run.                                       *)

\* int counters; the bound MaxElapsed lies beyond every threshold.
Inc(n) == IF n < MaxElapsed THEN n + 1 ELSE n

\* Mutant: whether the server is a member is not asked.
PromotableAlways(s) == TRUE

Promotable(s) == s \in Voters

\* Mutants: strictly past; exactly at; compared before the increment counts.
StrictlyPastTimeout(s, elapsed) == elapsed > randomizedTimeout[s]
ExactlyAtTimeout(s, elapsed) == elapsed = randomizedTimeout[s]
TickBeforeTimeout(s, elapsed) == elapsed + 1 >= randomizedTimeout[s]

PastElectionTimeout(s, elapsed) == elapsed >= randomizedTimeout[s]

\* The tick that advances the counter to elapsed starts an election.
TimerFires(s, elapsed) == Promotable(s) /\ PastElectionTimeout(s, elapsed)

TickElection(s) ==
    LET elapsed == Inc(electionElapsed[s])
    IN  /\ stepFunc[s] # "StepLeader"
        /\ IF TimerFires(s, elapsed)
             THEN /\ electionElapsed' = [electionElapsed EXCEPT ![s] = 0]
                  /\ StepHup(s)
             ELSE /\ electionElapsed' = [electionElapsed EXCEPT ![s] = elapsed]
                  /\ UNCHANGED <<roleVars, vote, randomizedTimeout, network>>
        /\ UNCHANGED <<term, votes, prs, learnerPrs, logVars, heartbeatElapsed>>

\* StepLeader(MsgCheckQuorum): CheckQuorumActive has no return statement.
StepCheckQuorum(s) ==
    \E active \in BOOLEAN :
        IF active THEN UNCHANGED <<roleVars, randomizedTimeout>>
                  ELSE BecomeFollower(s, None)

\* MsgBeat reaches StepLeader, which sends nothing for it.  Both local messages
\* carry the server's own id, for which StepLeader asks GetProgress.
TickHeatbeat(s) ==
    LET elapsed == Inc(electionElapsed[s])
        beats   == Inc(heartbeatElapsed[s])
        timeout == elapsed > ElectionTimeout
        beat    == state'[s] = "Leader" /\ beats > HeartbeatTimeout
    IN  /\ stepFunc[s] = "StepLeader"
        /\ electionElapsed' =
              [electionElapsed EXCEPT ![s] = IF timeout THEN 0 ELSE elapsed]
        /\ IF timeout /\ CheckQuorum
             THEN StepCheckQuorum(s)
             ELSE UNCHANGED <<roleVars, randomizedTimeout>>
        /\ heartbeatElapsed' =
              [heartbeatElapsed EXCEPT ![s] = IF beat THEN Inc(beats) ELSE beats]
        /\ learnerPrs' = IF (timeout /\ CheckQuorum) \/ beat
                           THEN TouchLearner(s, s) ELSE learnerPrs
        /\ UNCHANGED <<term, vote, votes, prs, logVars, network>>

Tick(s) == TickElection(s) \/ TickHeatbeat(s)

-----------------------------------------------------------------------------
(* Node::Run.  Run reads the message of the first task of a batch only, and *)
(* a later MsgTypeProp task sets its sender to the server itself: a message *)
(* may be stepped again, with the server's own id as from.  (Repeating it   *)
(* unchanged is what the network may do anyway.)                            *)

Stepped(s) ==
    LET received == network \cup Inject
    IN  received \cup
        (IF Batching THEN {[m EXCEPT !.from = s] : m \in received} ELSE {})

\* GetProgress(from), in the filter of a MsgTypeRecv task or in StepLeader, is
\* never null, so every message is stepped and an unknown from enters
\* learner_prs_.  A MsgTypeProp task is not filtered.
Receive(s, m) ==
    /\ m.to = s
    /\ \/ learnerPrs' = TouchLearner(s, m.from)
       \/ Batching /\ m.from = s /\ stepFunc[s] # "StepLeader" /\ UNCHANGED learnerPrs
    /\ UNCHANGED <<term, lastIndex, heartbeatElapsed>>

\* A message that changes nothing but the progress map.
Ignored(s, m) ==
    /\ \/ m.type \in {"MsgHeartbeat", "MsgPreVote"}
       \/ m.type = "MsgApp" /\ stepFunc[s] # "StepFollower"
       \/ m.type = "MsgProp" /\ (stepFunc[s] # "StepLeader" \/ s \notin Voters)
       \/ m.type = "MsgAppResp" /\ (stepFunc[s] # "StepLeader" \/ m.reject)
       \/ m.type \in {"MsgVoteResp", "MsgPreVoteResp"}
            /\ stepFunc[s] # "StepCandidate"
       \/ m.type = "MsgVote" /\ s \in Learners
    /\ Receive(s, m)
    /\ UNCHANGED <<vote, roleVars, votes, prs, committed, electionElapsed,
                   randomizedTimeout, network>>

ReceiveHup(s, m) ==
    /\ m.type = "MsgHup"
    /\ Receive(s, m)
    /\ StepHup(s)
    /\ UNCHANGED <<votes, prs, committed, electionElapsed>>

\* Mutant: the response is sent.
ReceiveVoteAnswered(s, m) ==
    /\ m.type = "MsgVote" /\ s \notin Learners
    /\ Receive(s, m)
    /\ \E upToDate \in IsUpToDate(s, m.index, m.term) :
          IF upToDate /\ (vote[s] \in {None, m.from} \/ m.term > term[s])
            THEN /\ vote' = [vote EXCEPT ![s] = m.from]
                 /\ electionElapsed' = [electionElapsed EXCEPT ![s] = 0]
                 /\ Send({[Msg("MsgVoteResp", s, m.from) EXCEPT !.term = m.term]})
            ELSE UNCHANGED <<vote, electionElapsed, network>>
    /\ UNCHANGED <<roleVars, votes, prs, committed, randomizedTimeout>>

\* The response is built and never sent.
ReceiveVote(s, m) ==
    /\ m.type = "MsgVote" /\ s \notin Learners
    /\ Receive(s, m)
    /\ \E upToDate \in IsUpToDate(s, m.index, m.term) :
          IF upToDate /\ (vote[s] \in {None, m.from} \/ m.term > term[s])
            THEN /\ vote' = [vote EXCEPT ![s] = m.from]
                 /\ electionElapsed' = [electionElapsed EXCEPT ![s] = 0]
            ELSE UNCHANGED <<vote, electionElapsed>>
    /\ UNCHANGED <<roleVars, votes, prs, committed, randomizedTimeout, network>>

\* Mutant: a later answer replaces the recorded one.
PollLatest(answers, id, granted) ==
    [q \in DOMAIN answers \cup {id} |-> IF q = id THEN granted ELSE answers[q]]

\* Poll keeps the first answer of an id, of this or of an earlier campaign.
Poll(answers, id, granted) ==
    IF id \in DOMAIN answers THEN answers
    ELSE [q \in DOMAIN answers \cup {id} |->
            IF q = id THEN granted ELSE answers[q]]

\* MsgVoteResp and MsgPreVoteResp alike.  Poll counts on from an unset variable,
\* and the comparison with the quorum is strict.
ReceiveVoteResp(s, m) ==
    /\ m.type \in {"MsgVoteResp", "MsgPreVoteResp"}
    /\ stepFunc[s] = "StepCandidate"
    /\ Receive(s, m)
    /\ votes' = [votes EXCEPT ![s] = Poll(@, m.from, ~m.reject)]
    /\ \E unset \in GrantGarbage :
          LET grant == unset + Cardinality({q \in DOMAIN votes'[s] : votes'[s][q]})
          IN  IF Wins(grant)
                THEN BecomeLeader(s) /\ BcastAppend(s, committed[s])
                ELSE BecomeFollower(s, None) /\ UNCHANGED network
    /\ UNCHANGED <<vote, prs, committed, electionElapsed>>

\* StepFollower and HandleAppendEntries.  MaybeAppend appends nothing, commits
\* up to min(commit, index) and returns the commit it was given, which the
\* answer carries; a MsgApp behind committed_ is answered twice.
ReceiveApp(s, m) ==
    /\ m.type = "MsgApp" /\ stepFunc[s] = "StepFollower"
    /\ Receive(s, m)
    /\ electionElapsed' = [electionElapsed EXCEPT ![s] = 0]
    /\ lead' = [lead EXCEPT ![s] = m.from]
    /\ \E matches \in MatchTerm(s, m.index, m.term) :
          LET resp  == Msg("MsgAppResp", s, m.from)
              stale == IF m.index < committed[s]
                         THEN {[resp EXCEPT !.index = committed[s]]} ELSE {}
          IN  IF matches
                THEN /\ committed' = [committed EXCEPT
                            ![s] = Higher(@, Lower(m.commit, m.index))]
                     /\ Send(stale \cup {[resp EXCEPT !.index = m.commit]})
                ELSE /\ Send(stale \cup {[resp EXCEPT !.index = m.index,
                                                      !.reject = TRUE]})
                     /\ UNCHANGED committed
    /\ UNCHANGED <<vote, state, stepFunc, votes, prs, randomizedTimeout>>

\* StepLeader: an acknowledgement of an id outside prs_ only moves a learner.
ReceiveAppResp(s, m) ==
    /\ m.type = "MsgAppResp" /\ stepFunc[s] = "StepLeader" /\ ~m.reject
    /\ m.to = s
    /\ IF m.from \in Voters
         THEN /\ prs' = [prs EXCEPT ![s][m.from] = MaybeUpdate(@, m.index)]
              /\ UNCHANGED learnerPrs
         ELSE /\ learnerPrs' = [TouchLearner(s, m.from) EXCEPT
                                  ![s][m.from] = MaybeUpdate(@, m.index)]
              /\ UNCHANGED prs
    /\ MaybeCommit(s, prs'[s])
    /\ IF committed' # committed THEN BcastAppend(s, committed'[s])
                                 ELSE UNCHANGED network
    /\ UNCHANGED <<term, vote, roleVars, votes, lastIndex, timerVars,
                   randomizedTimeout>>

\* AppendEntry: the RepeatedPtrField overload of Append stores nothing and
\* returns nothing, and its result is taken for the server's own match index.
ReceiveProp(s, m) ==
    /\ m.type = "MsgProp" /\ stepFunc[s] = "StepLeader" /\ s \in Voters
    /\ Receive(s, m)
    /\ \E li \in Word :
          prs' = [prs EXCEPT ![s][s] = MaybeUpdate(@, li)]
    /\ MaybeCommit(s, prs'[s])
    /\ BcastAppend(s, committed'[s])
    /\ UNCHANGED <<vote, roleVars, votes, electionElapsed, randomizedTimeout>>

Deliver(s, m) ==
    \/ Ignored(s, m)         \/ ReceiveHup(s, m)  \/ ReceiveVote(s, m)
    \/ ReceiveVoteResp(s, m) \/ ReceiveApp(s, m)  \/ ReceiveAppResp(s, m)
    \/ ReceiveProp(s, m)

-----------------------------------------------------------------------------
(* Public methods no code of the repository reaches, called by the          *)
(* application on a leader, and the storage.                                *)

SendAppend(s, to) ==
    /\ "SendAppend" \in PublicSends /\ state[s] = "Leader" /\ to # s
    /\ learnerPrs' = TouchLearner(s, to)
    /\ \E m \in AppendMsgs(s, to, IF to \in Voters THEN prs[s][to]
                                  ELSE learnerPrs'[s][to], committed[s]) :
          Send({m})
    /\ UNCHANGED <<term, vote, roleVars, votes, prs, logVars, timerVars,
                   randomizedTimeout>>

\* The commit field is an uninitialised variable; nothing reads it, so it is
\* left out.
SendHeartbeat(s, to) ==
    /\ "SendHeartbeat" \in PublicSends /\ state[s] = "Leader" /\ to # s
    /\ Send({Msg("MsgHeartbeat", s, to)})
    /\ UNCHANGED <<term, vote, roleVars, votes, prs, learnerPrs, logVars,
                   timerVars, randomizedTimeout>>

\* The application appends a batch that ends at index n; MemoryStorage drops it
\* unless n lies beyond its first position.  The application cannot compact:
\* applied_ stays at the dummy index and storage.h:80-82 rules out going further.
StoreEntries(s) ==
    /\ \E n \in lastIndex[s] + 1..MaxLast :
          /\ n > Snapshot + 1
          /\ lastIndex' = [lastIndex EXCEPT ![s] = n]
    /\ UNCHANGED <<term, vote, roleVars, votes, prs, learnerPrs, committed,
                   timerVars, randomizedTimeout, network>>

Next ==
    \E s \in Server :
        \/ Tick(s)
        \/ \E m \in Stepped(s) : Deliver(s, m)
        \/ \E p \in Peer : SendAppend(s, p) \/ SendHeartbeat(s, p)
        \/ StoreEntries(s)

Spec == Init /\ [][Next]_vars

-----------------------------------------------------------------------------
ProgressMap == [match : Word, next : Word]

\* The functions from a part of D to R.
Partial(D, R) == UNION {[E -> R] : E \in SUBSET D}

TypeOK ==
    /\ term \in [Server -> Terms]
    /\ vote \in [Server -> Peer \cup {None}]
    /\ state \in [Server -> {"Follower", "Leader"}]
    /\ stepFunc \in [Server -> {"StepFollower", "StepCandidate", "StepLeader"}]
    /\ lead \in [Server -> Peer \cup {None}]
    /\ votes \in [Server -> Partial(Peer, BOOLEAN)]
    /\ learnerPrs \in [Server -> Partial(Peer \ Voters, ProgressMap)]
    /\ prs \in [Server -> [Voters -> ProgressMap]]
    /\ committed \in [Server -> Word]
    /\ lastIndex \in [Server -> Snapshot..MaxLast]
    /\ electionElapsed \in [Server -> 0..MaxElapsed]
    /\ heartbeatElapsed \in [Server -> 0..MaxElapsed]
    /\ randomizedTimeout \in
          [Server -> ElectionTimeout..(2 * ElectionTimeout - 1)]
    /\ network \subseteq Message

(***************************************************************************)
(* Commit decisions.  With message loss, duplication and reordering, with  *)
(* every garbage value, and with arbitrary acknowledgements from other     *)
(* peers, the commit index of a server only moves forward, to a position a *)
(* quorum of prs_ has acknowledged to it or one another server committed   *)
(* (raft.cpp:542-552 MaybeCommit, raft_log.cpp:318-327 CommitTo,           *)
(* raft.cpp:558-574 HandleAppendEntries), and the match indexes it decides *)
(* from never move back (progress.cpp:33-47).                              *)
(***************************************************************************)
Match == [s \in Server |-> [v \in Voters |-> prs[s][v].match]]

\* The strict majorities of the voters.
Majorities == {Q \in SUBSET Voters : 2 * Cardinality(Q) > Cardinality(Voters)}

QC == INSTANCE QuorumCommit WITH Quorums <- Majorities, acked <- Match

ImplementsQuorumCommit == QC!Spec

(***************************************************************************)
(* What any server has committed beyond the snapshot, some server has been *)
(* told by a quorum of the voters; the id of no learner and of no unknown  *)
(* peer helps (raft.cpp:542-552).                                          *)
(***************************************************************************)
QuorumBacked == QC!QuorumBacked

(***************************************************************************)
(* A match index claims no more than the peer itself acknowledged to this  *)
(* server: no other peer's acknowledgement, not one stepped twice from the *)
(* same batch, and no proposal moves it.  The server's own index is        *)
(* whatever Append returned (raft.cpp:203-226, 507-521, node.cpp:179-192). *)
(***************************************************************************)
MatchWasAcked ==
    \A s \in Server : \A v \in Voters \ {s} :
        prs[s][v].match > 0 =>
            \E m \in network \cup Inject :
                /\ m.type = "MsgAppResp" /\ ~m.reject
                /\ m.from = v /\ m.to = s /\ m.index = prs[s][v].match

(***************************************************************************)
(* From end to end: what any server has committed beyond the snapshot, a   *)
(* majority of the voters has acknowledged in messages to one and the same *)
(* server, its own word aside, however often the messages were delivered,  *)
(* and however the index travelled afterwards (raft.cpp:203-226, 542-574). *)
(***************************************************************************)
CommittedWasAcked ==
    \A s \in Server :
        committed[s] > Snapshot =>
            \E t \in Server : \E Q \in Majorities : \A v \in Q \ {t} :
                \E m \in network \cup Inject :
                    /\ m.type = "MsgAppResp" /\ ~m.reject
                    /\ m.from = v /\ m.to = t /\ m.index >= committed[s]

(***************************************************************************)
(* A leader never decides less than it could: beyond the position it       *)
(* commits there is none that a quorum of its match indexes has reached,   *)
(* whatever their number and order (raft.cpp:542-552).                     *)
(***************************************************************************)
DecidesHighest ==
    [][\A s \in Server :
          stepFunc[s] = "StepLeader" /\ committed'[s] # committed[s]
            => \A i \in Word :
                  i > committed'[s] => Cardinality(MatchedBy(prs'[s], i)) < Quorum]_vars

(***************************************************************************)
(* No MsgApp in flight, however late, carries a commit index its sender    *)
(* has not reached (raft.cpp:492).                                         *)
(***************************************************************************)
AppCommitsReached ==
    \A m \in network :
        m.type = "MsgApp" => m.from \in Server /\ m.commit <= committed[m.from]

(***************************************************************************)
(* next_ stays ahead of match_ once an acknowledgement arrived, so that    *)
(* SendAppend never probes below what the peer has acknowledged; the only  *)
(* exception is the acknowledgement 2^64-1, whose n + 1 wraps to zero      *)
(* (progress.cpp:33-47, raft.cpp:477-489).                                 *)
(***************************************************************************)
NextAheadOfMatch ==
    \A s \in Server :
        /\ \A v \in Voters :
              prs[s][v].match \in {0, MaxWord} \/ prs[s][v].match < prs[s][v].next
        /\ \A p \in DOMAIN learnerPrs[s] :
              \/ learnerPrs[s][p].match \in {0, MaxWord}
              \/ learnerPrs[s][p].match < learnerPrs[s][p].next

(***************************************************************************)
(* The first answer of an id counts for ever: no later, duplicated or      *)
(* contradicting response, and no new campaign, changes or removes it      *)
(* (raft.cpp:369-370; nothing clears votes_).                              *)
(***************************************************************************)
FirstAnswerSticks ==
    [][\A s \in Server : \A p \in DOMAIN votes[s] :
          p \in DOMAIN votes'[s] /\ votes'[s][p] = votes[s][p]]_vars

(***************************************************************************)
(* A leader was elected: the ids whose first answer granted its campaigns  *)
(* exceed the quorum but for the counter Poll starts from, and each of     *)
(* them, the server itself aside, did send a grant.  A repeated grant      *)
(* counts once (raft.cpp:136-146, 361-379).                                *)
(***************************************************************************)
LeaderWasElected ==
    \A s \in Server :
        stepFunc[s] = "StepLeader" =>
            LET granters == {p \in DOMAIN votes[s] : votes[s][p]}
            IN  /\ \E unset \in GrantGarbage : unset + Cardinality(granters) > Quorum
                /\ \A p \in granters \ {s} :
                      \E m \in network \cup Inject :
                          /\ m.type \in {"MsgVoteResp", "MsgPreVoteResp"} /\ ~m.reject
                          /\ m.from = p /\ m.to = s

(***************************************************************************)
(* "promotable indicates whether state machine can be promoted to leader,  *)
(* which is true when its own id is in progress list" (raft.h:101-102): no *)
(* other server ever campaigns or leads.  Step(MsgHup) does not ask, so it *)
(* takes that nobody sends one (raft.cpp:236-250).                         *)
(***************************************************************************)
OnlyVotersCampaign ==
    \A s \in Server \ Voters : stepFunc[s] = "StepFollower" /\ state[s] = "Follower"

(***************************************************************************)
(* Unless the application calls SendAppend no server ever hears of another *)
(* one that leads, and all it commits it decides itself: the broadcasts    *)
(* reach nobody, and a leader sends no heartbeats (raft.cpp:81-87,         *)
(* 117-124, 161-165).                                                      *)
(***************************************************************************)
LeadersStayUnknown ==
    \A s \in Server :
        /\ lead[s] \in {None, s}
        /\ committed[s] > Snapshot => MatchedBy(prs[s], committed[s]) \in Majorities

(***************************************************************************)
(* No message deposes a leader or makes it campaign: it leaves office only *)
(* in a tick, when check_quorum_ is set and the election timeout of the    *)
(* leader has passed, and then it knows no leader (raft.cpp:161-226,       *)
(* 252-268, 332-350).                                                      *)
(***************************************************************************)
LeaderKeepsOffice ==
    [][\A s \in Server :
          state[s] = "Leader" /\ (state'[s] # "Leader" \/ stepFunc'[s] # "StepLeader")
            => /\ CheckQuorum
               /\ electionElapsed[s] >= ElectionTimeout
               /\ electionElapsed'[s] = 0
               /\ stepFunc'[s] = "StepFollower" /\ lead'[s] = None]_vars

(***************************************************************************)
(* A leader whose term is not zero commits only what its storage holds:    *)
(* beyond the last index Term answers 0, which is not its term; CommitTo   *)
(* itself does not look (raft_log.cpp:309-327).                            *)
(***************************************************************************)
LeaderCommitsStored ==
    [][\A s \in Server :
          state[s] = "Leader" /\ term[s] # 0 /\ committed'[s] # committed[s]
            => committed'[s] <= lastIndex[s]]_vars

(***************************************************************************)
(* Without acknowledgements from peers running other code nothing is ever  *)
(* committed in a cluster of two or more voters, whoever leads it: the     *)
(* acknowledgement this code sends repeats the leader's own commit index   *)
(* (raft_log.cpp:394-395, raft.cpp:567-573).                               *)
(***************************************************************************)
NothingCommitted == \A s \in Server : committed[s] = Snapshot

(***************************************************************************)
(* No server is elected by servers of this code, however long they tick    *)
(* and vote: a granted vote is never answered (raft.cpp:281-302), and a    *)
(* campaign ends by an answer alone, so that only a server to which a peer *)
(* with other code answers may come to lead.                               *)
(***************************************************************************)
OnlyAnsweredLead ==
    \A s \in Server :
        (\A m \in Inject : m.to = s => m.type \notin {"MsgVoteResp", "MsgPreVoteResp"})
          => stepFunc[s] # "StepLeader" /\ state[s] = "Follower"

(***************************************************************************)
(* The election counter of a server that may campaign never reaches twice  *)
(* the timeout, although role changes draw a new timeout without resetting *)
(* the counter and a new leader inherits it (raft.cpp:320-346, 228-232).   *)
(***************************************************************************)
ElapsedBounded ==
    \A s \in Voters \cap Server :
        electionElapsed[s] <= Higher(ElectionTimeout, 2 * ElectionTimeout - 2)

(***************************************************************************)
(* While the application ticks, the election timer of every server that    *)
(* may campaign keeps being reset: it fires, or a leader or a granted vote *)
(* restarts it (raft.cpp:320-346, 121, 299).                               *)
(***************************************************************************)
TimerRestarts ==
    \A s \in Voters \cap Server :
        electionElapsed[s] > 0 ~> electionElapsed[s] = 0
=============================================================================
