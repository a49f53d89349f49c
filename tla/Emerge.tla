------------------------------- MODULE Emerge -------------------------------
(***************************************************************************)
(* The emerge queue and the emerge threads of emerge.cpp, with the part of *)
(* the map they change. The server thread enqueues blocks that clients     *)
(* need; every EmergeThread pops blocks off its own queue, fetches each    *)
(* from the map or from the disk or generates the chunk it is in, and      *)
(* makes the clients forget the blocks that changed.                       *)
(*                                                                         *)
(* Blocks lie on a line: chunk c is CHUNK of them in a row, and generating *)
(* it copies them and one block on each side out of the map, runs the map  *)
(* generator without a lock, and copies them back. What a block contains   *)
(* is whether its chunk was generated and whether a player changed it.     *)
(* Loading from the disk and unloading to it leave that content alone, so  *)
(* memory and disk are one map here.                                       *)
(***************************************************************************)
EXTENDS Integers, Sequences, FiniteSets, FiniteSetsExt, Functions

CONSTANTS
    NBlocks, CHUNK,         \* blocks 0 .. NBlocks - 1, blocks in a chunk
    OverLimit,              \* blocks outside the map, a set of blocks
    Peers,
    NThreads,
    qlimit_total, qlimit_diskonly, qlimit_generate,
    MaxSignals              \* bound: unconsumed signals of one qevent

ASSUME EmergeConstants ==
    /\ NBlocks \in Nat \ {0} /\ CHUNK \in Nat \ {0}
    /\ OverLimit \subseteq 0 .. NBlocks - 1
    /\ NThreads \in Nat \ {0}
    /\ {qlimit_total, qlimit_diskonly, qlimit_generate} \subseteq Nat
    /\ MaxSignals \in Nat \ {0}

Blocks  == 0 .. NBlocks - 1
Threads == 1 .. NThreads

VARIABLES
    \* EmergeManager
    blocks_enqueued,    \* the BlockEmergeData of each enqueued block
    peer_queue_count,
    \* EmergeThread
    blockqueue,         \* positions to do, in order
    qevent,             \* the count of the semaphore
    run,
    pc,                 \* "new" until started, "ended" after Thread()
    job,                \* [p, gen]: the block popped
    copy,               \* what makeChunk works on: [area, edited]
    modified,           \* modified_blocks, until they are set not sent
    \* the server thread
    to_signal,          \* thread whose qevent it signals next, 0 if none
    dtor,               \* progress of ~EmergeManager, see StopThread
    \* the map and a client
    generated,          \* blocks with setGenerated(true)
    edited,             \* generated blocks a player changed
    sent,               \* m_blocks_sent of the client
    outdated            \* of these, changed by a generation since

queueVars  == <<blocks_enqueued, peer_queue_count, blockqueue>>
threadVars == <<run, pc, job, copy, modified>>
mapVars    == <<generated, edited>>
clientVars == <<sent, outdated>>
vars == <<queueVars, qevent, threadVars, to_signal, dtor, mapVars, clientVars>>

-----------------------------------------------------------------------------
Chunk(b) == {c \in Blocks : c \div CHUNK = b \div CHUNK}

\* Mutant: the borders are not cut off at the limit.
AreaBeyondMap(b) == {c + d : c \in Chunk(b), d \in -1 .. 1}

\* A chunk and its extra borders.
Area(b) == {c \in Blocks : \E d \in Chunk(b) : c - d \in -1 .. 1}

\* initBlockMake does nothing if part of the area is over the limit.
CanMake(b) == Area(b) \cap OverLimit = {}

\* Who asked for a block first, and whether BLOCK_EMERGE_ALLOWGEN is set.
BlockEmergeData == [peer_requested : Peers, gen : BOOLEAN]

Enqueued == DOMAIN blocks_enqueued

NoJob == [p |-> 0, gen |-> FALSE]
NoCopy == [area |-> {}, edited |-> {}]

Alive == dtor.thread = 0

Init ==
    /\ blocks_enqueued = [p \in {} |-> NoJob]
    /\ peer_queue_count = [q \in Peers |-> 0]
    /\ blockqueue = [t \in Threads |-> <<>>]
    /\ qevent = [t \in Threads |-> 0]
    /\ run = [t \in Threads |-> TRUE]
    /\ pc = [t \in Threads |-> "new"]
    /\ job = [t \in Threads |-> NoJob]
    /\ copy = [t \in Threads |-> NoCopy]
    /\ modified = [t \in Threads |-> {}]
    /\ to_signal = 0
    /\ dtor = [thread |-> 0, step |-> "setRun"]
    /\ \E old \in SUBSET {b \in Blocks : CanMake(b)} :
           generated = UNION {Chunk(b) : b \in old}
    /\ edited = {}
    /\ sent = {}
    /\ outdated = {}

-----------------------------------------------------------------------------
(* The server thread. *)

\* The shortest queue, the first one among equals.
EmptiestThread ==
    LET shortest == {t \in Threads : \A u \in Threads :
                        Len(blockqueue[t]) <= Len(blockqueue[u])}
    IN  Min(shortest)

\* Mutant: blocks_enqueued is not searched.
NeverEnqueued(p) == FALSE

AlreadyEnqueued(p) == p \in Enqueued

(***************************************************************************)
(* enqueueBlockEmerge under queuemutex. The limits are checked before the  *)
(* block is looked up; refusals change nothing.                            *)
(***************************************************************************)
EnqueueBlockEmerge(peer, p, allow_generate) ==
    /\ Alive /\ to_signal = 0
    /\ Cardinality(Enqueued) < qlimit_total
    /\ peer_queue_count[peer]
           < (IF allow_generate THEN qlimit_generate ELSE qlimit_diskonly)
    /\ \/ /\ AlreadyEnqueued(p)
          /\ blocks_enqueued' = [blocks_enqueued EXCEPT
                                     ![p].gen = @ \/ allow_generate]
          /\ UNCHANGED <<peer_queue_count, blockqueue, to_signal>>
       \/ /\ ~AlreadyEnqueued(p)
          /\ qevent[EmptiestThread] < MaxSignals
          /\ blocks_enqueued' =
                 [b \in Enqueued \cup {p} |->
                     IF b = p
                     THEN [peer_requested |-> peer, gen |-> allow_generate]
                     ELSE blocks_enqueued[b]]
          /\ peer_queue_count' = [peer_queue_count EXCEPT ![peer] = @ + 1]
          /\ blockqueue' = [blockqueue EXCEPT ![EmptiestThread]
                                = Append(@, p)]
          /\ to_signal' = EmptiestThread
    /\ UNCHANGED <<qevent, threadVars, dtor, mapVars, clientVars>>

\* Mutant: the first thread is signalled, whichever has the block.
SignalFirst ==
    /\ to_signal # 0
    /\ qevent' = [qevent EXCEPT ![1] = @ + 1]
    /\ to_signal' = 0
    /\ UNCHANGED <<queueVars, threadVars, dtor, mapVars, clientVars>>

\* qevent.signal() after queuemutex is released.
Signal ==
    /\ to_signal # 0
    /\ qevent' = [qevent EXCEPT ![to_signal] = @ + 1]
    /\ to_signal' = 0
    /\ UNCHANGED <<queueVars, threadVars, dtor, mapVars, clientVars>>

\* triggerAllThreads starts the threads that do not run.
Trigger ==
    /\ Alive /\ to_signal = 0
    /\ \E t \in Threads : pc[t] = "new"
    /\ pc' = [t \in Threads |-> IF pc[t] = "new" THEN "loop" ELSE pc[t]]
    /\ run' = [t \in Threads |-> TRUE]
    /\ UNCHANGED <<queueVars, qevent, job, copy, modified, to_signal, dtor,
                   mapVars, clientVars>>

\* SendBlockNoLock and SentBlock. GetNextBlocks offers generated blocks.
SendBlock(b) ==
    /\ Alive /\ to_signal = 0
    /\ b \in generated \ sent
    /\ sent' = sent \cup {b}
    /\ outdated' = outdated \ {b}
    /\ UNCHANGED <<queueVars, qevent, threadVars, to_signal, dtor, mapVars>>

\* A player digs or places a node.
Edit(b) ==
    /\ Alive /\ to_signal = 0
    /\ b \in generated
    /\ edited' = edited \cup {b}
    /\ UNCHANGED <<queueVars, qevent, threadVars, to_signal, dtor, generated,
                   clientVars>>

(***************************************************************************)
(* ~EmergeManager, run when the server thread has ended: for each thread   *)
(* in turn, setRun(false), signal, and wait until it does not run.         *)
(***************************************************************************)
BeginShutdown ==
    /\ Alive /\ to_signal = 0
    /\ dtor' = [thread |-> 1, step |-> "setRun"]
    /\ UNCHANGED <<queueVars, qevent, threadVars, to_signal, mapVars,
                   clientVars>>

\* Mutant: the thread is not signalled.
DtorStepToJoin(step, next) ==
    dtor.step = step /\ dtor' = [dtor EXCEPT !.step = "join"]

DtorStep(step, next) == dtor.step = step /\ dtor' = [dtor EXCEPT !.step = next]

StopThread(t) ==
    /\ dtor.thread = t
    /\ \/ /\ DtorStep("setRun", "signal")
          /\ run' = [run EXCEPT ![t] = FALSE]
          /\ UNCHANGED qevent
       \/ /\ DtorStep("signal", "join")
          /\ qevent' = [qevent EXCEPT ![t] = @ + 1]
          /\ UNCHANGED run
       \/ /\ dtor.step = "join"
          /\ pc[t] \in {"new", "ended"}
          /\ dtor' = [thread |-> t + 1, step |-> "setRun"]
          /\ UNCHANGED <<run, qevent>>
    /\ UNCHANGED <<queueVars, pc, job, copy, modified, to_signal, mapVars,
                   clientVars>>

-----------------------------------------------------------------------------
(* An EmergeThread. *)

Goto(t, label) == pc' = [pc EXCEPT ![t] = label]

\* Mutant: the block is not taken off the count of its peer.
KeepCount(p) == UNCHANGED peer_queue_count

UncountPeer(p) ==
    peer_queue_count' =
        [peer_queue_count EXCEPT ![blocks_enqueued[p].peer_requested] = @ - 1]

\* The loop condition and popBlockEmerge, which holds queuemutex.
PopBlockEmerge(t) ==
    /\ pc[t] = "loop" /\ run[t]
    /\ IF blockqueue[t] = <<>>
       THEN /\ Goto(t, "wait")
            /\ UNCHANGED <<queueVars, job>>
       ELSE LET p == Head(blockqueue[t]) IN
            /\ blockqueue' = [blockqueue EXCEPT ![t] = Tail(@)]
            /\ IF p \notin Enqueued
               THEN /\ Goto(t, "wait")
                    /\ UNCHANGED <<blocks_enqueued, peer_queue_count, job>>
               ELSE /\ blocks_enqueued' = Restrict(blocks_enqueued,
                                                  Enqueued \ {p})
                    /\ UncountPeer(p)
                    /\ IF p \in OverLimit
                       THEN Goto(t, "loop") /\ UNCHANGED job
                       ELSE /\ Goto(t, "fetch")
                            /\ job' = [job EXCEPT ![t] =
                                   [p |-> p, gen |-> blocks_enqueued[p].gen]]
    /\ UNCHANGED <<qevent, run, copy, modified, to_signal, dtor, mapVars,
                   clientVars>>

\* qevent.wait() returns.
Wake(t) ==
    /\ pc[t] = "wait"
    /\ qevent[t] > 0
    /\ qevent' = [qevent EXCEPT ![t] = @ - 1]
    /\ Goto(t, "loop")
    /\ UNCHANGED <<queueVars, run, job, copy, modified, to_signal, dtor,
                   mapVars, clientVars>>

Exit(t) ==
    /\ pc[t] = "loop" /\ ~run[t]
    /\ Goto(t, "ended")
    /\ UNCHANGED <<queueVars, qevent, run, job, copy, modified, to_signal,
                   dtor, mapVars, clientVars>>

(***************************************************************************)
(* getBlockOrStartGen, inside one lock of m_env_mutex: a block that is not *)
(* generated starts its chunk if it may.                                   *)
(***************************************************************************)
\* Mutant: the block is not looked at again inside the lock.
MustGenerateIfAsked(t) == job[t].gen

MustGenerate(t) == job[t].gen /\ job[t].p \notin generated

GetBlockOrStartGen(t) ==
    /\ pc[t] = "fetch"
    /\ IF MustGenerate(t) /\ CanMake(job[t].p)
       THEN /\ copy' = [copy EXCEPT ![t] =
                           [area |-> Area(job[t].p),
                            edited |-> edited \cap Area(job[t].p)]]
            /\ Goto(t, "make")
            /\ UNCHANGED modified
       ELSE /\ modified' = [modified EXCEPT ![t] = {job[t].p} \cap generated]
            /\ Goto(t, "announce")
            /\ UNCHANGED copy
    /\ UNCHANGED <<queueVars, qevent, run, job, to_signal, dtor, mapVars,
                   clientVars>>

\* loadBlock throws: the handler reports it and the loop goes on.
LoadFails(t) ==
    /\ pc[t] = "fetch"
    /\ job' = [job EXCEPT ![t] = NoJob]
    /\ Goto(t, "loop")
    /\ UNCHANGED <<queueVars, qevent, run, copy, modified, to_signal, dtor,
                   mapVars, clientVars>>

\* Mutant: the borders are not among the changed blocks.
OnlyChunk(t) == Chunk(job[t].p)

\* blitBackAll adds nearly everything to changed_blocks.
ChangedBlocks(t) == copy[t].area

(***************************************************************************)
(* makeChunk has run on the copy, and finishBlockMake, inside one lock of  *)
(* m_env_mutex, copies it back over everything in the area.                *)
(***************************************************************************)
FinishBlockMake(t) ==
    /\ pc[t] = "make"
    /\ generated' = generated \cup Chunk(job[t].p)
    /\ edited' = (edited \ copy[t].area) \cup copy[t].edited
    /\ modified' = [modified EXCEPT ![t] = ChangedBlocks(t)]
    /\ outdated' = outdated \cup (sent \cap copy[t].area)
    /\ copy' = [copy EXCEPT ![t] = NoCopy]
    /\ Goto(t, "announce")
    /\ UNCHANGED <<queueVars, qevent, run, job, to_signal, dtor, sent>>

\* SetBlocksNotSent on every client, inside m_con_mutex.
SetBlocksNotSent(t) ==
    /\ pc[t] = "announce"
    /\ sent' = sent \ modified[t]
    /\ outdated' = outdated \ modified[t]
    /\ modified' = [modified EXCEPT ![t] = {}]
    /\ job' = [job EXCEPT ![t] = NoJob]
    /\ Goto(t, "loop")
    /\ UNCHANGED <<queueVars, qevent, run, copy, to_signal, dtor, mapVars>>

ThreadStep(t) ==
    \/ PopBlockEmerge(t)
    \/ Wake(t)
    \/ Exit(t)
    \/ GetBlockOrStartGen(t)
    \/ FinishBlockMake(t)
    \/ SetBlocksNotSent(t)

-----------------------------------------------------------------------------
Next ==
    \/ \E q \in Peers, p \in Blocks, g \in BOOLEAN : EnqueueBlockEmerge(q, p, g)
    \/ Signal
    \/ Trigger
    \/ \E b \in Blocks : SendBlock(b) \/ Edit(b)
    \/ BeginShutdown
    \/ \E t \in Threads : StopThread(t)
    \/ \E t \in Threads : ThreadStep(t) \/ LoadFails(t)

Spec == Init /\ [][Next]_vars

(***************************************************************************)
(* The threads run, enqueueBlockEmerge signals before it returns, the      *)
(* server thread triggers every two seconds, and the destructor goes on.   *)
(* Nothing makes players ask, edit, or leave.                              *)
(***************************************************************************)
Fairness ==
    /\ WF_vars(Signal)
    /\ WF_vars(Trigger)
    /\ \A t \in Threads : WF_vars(ThreadStep(t)) /\ WF_vars(StopThread(t))

FairSpec == Spec /\ Fairness

-----------------------------------------------------------------------------
(* Properties. *)

\* What each variable has. Counts do not wrap below zero, and a generation stays
\* within the blocks of the map.
TypeOK ==
    /\ Enqueued \subseteq Blocks
    /\ blocks_enqueued \in [Enqueued -> BlockEmergeData]
    /\ peer_queue_count \in [Peers -> Nat]
    /\ blockqueue \in [Threads -> Seq(Blocks)]
    /\ qevent \in [Threads -> Nat]
    /\ run \in [Threads -> BOOLEAN]
    /\ pc \in [Threads -> {"new", "loop", "wait", "fetch", "make", "announce",
                           "ended"}]
    /\ job \in [Threads -> [p : Blocks, gen : BOOLEAN]]
    /\ copy \in [Threads -> [area : SUBSET Blocks, edited : SUBSET Blocks]]
    /\ modified \in [Threads -> SUBSET Blocks]
    /\ to_signal \in 0 .. NThreads
    /\ dtor \in [thread : 0 .. NThreads + 1,
                 step : {"setRun", "signal", "join"}]
    /\ generated \subseteq Blocks
    /\ edited \subseteq Blocks
    /\ sent \subseteq Blocks
    /\ outdated \subseteq Blocks

Places(p) == UNION {{t} \X {i \in 1 .. Len(blockqueue[t]) :
                                blockqueue[t][i] = p} : t \in Threads}

(***************************************************************************)
(* The map of enqueued blocks and the queues of the threads agree: every   *)
(* enqueued block is in one place of one queue, and nothing else is in a   *)
(* queue. popBlockEmerge calls the contrary "queue and map out of sync".   *)
(***************************************************************************)
QueuesInSync ==
    \A p \in Blocks :
        Cardinality(Places(p)) = IF p \in Enqueued THEN 1 ELSE 0

(***************************************************************************)
(* The count that limits a peer is the number of blocks enqueued for it,   *)
(* through requests of other peers for the same block and whatever order   *)
(* the threads pop in; so it never wraps below zero, and a peer whose      *)
(* blocks were served can ask again.                                       *)
(***************************************************************************)
PeerCountsExact ==
    \A q \in Peers :
        peer_queue_count[q] =
            Cardinality({p \in Enqueued :
                            blocks_enqueued[p].peer_requested = q})

(***************************************************************************)
(* A thread does not sleep on its qevent while there is work in its queue, *)
(* unless a signal is there or about to be: no wakeup is lost between the  *)
(* empty pop and the wait.                                                 *)
(***************************************************************************)
NoLostWakeup ==
    \A t \in Threads :
        pc[t] = "wait" /\ blockqueue[t] # <<>> =>
            qevent[t] > 0 \/ to_signal = t

(***************************************************************************)
(* A block whose content a generation changed after it was sent to the     *)
(* client is about to be set not sent by the thread that changed it.       *)
(***************************************************************************)
ChangesAnnounced ==
    outdated \cap sent \subseteq UNION {modified[t] : t \in Threads}

(***************************************************************************)
(* When a generated chunk is copied to the map, no client has been sent a  *)
(* block of it: the reason emerge.cpp gives for ignoring the map edit      *)
(* events of on_generated.                                                 *)
(***************************************************************************)
ChunkNotSentBefore ==
    [][\A t \in Threads :
           FinishBlockMake(t) => Chunk(job[t].p) \cap sent = {}]_vars

(***************************************************************************)
(* What a player changed is lost only in the border of a chunk that is     *)
(* being generated, never in the blocks of the chunk itself: a chunk is    *)
(* not generated again over the changes.                                   *)
(***************************************************************************)
OnlyBordersLoseEdits ==
    [][\A b \in edited \ edited' : \E t \in Threads :
           FinishBlockMake(t) /\ b \in Area(job[t].p) \ Chunk(job[t].p)]_vars

\* Every enqueued block leaves the queue, unless the server shuts down.
EveryBlockPopped ==
    \A p \in Blocks : p \in Enqueued ~> (p \notin Enqueued \/ ~Alive)

\* Once it begins, the shutdown ends all the threads and completes.
ShutdownCompletes == ~Alive ~> dtor.thread = NThreads + 1
=============================================================================
