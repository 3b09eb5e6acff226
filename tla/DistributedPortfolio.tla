------------------------ MODULE DistributedPortfolio ------------------------
(***************************************************************************)
(* The distributed portfolio of Painless (-wkr-strat=6).  Every MPI rank   *)
(* runs a main thread, a communicator thread and a set of solver threads   *)
(* (SequentialWorkers under a LocalWorker).  Rank 0, the root, also holds  *)
(* a Portfolio with one Dispatcher per rank; it hands the (empty) cube to  *)
(* every rank, takes the first REPORT, and stops everybody.                *)
(*                                                                         *)
(* The control messages CUBE, REPORT, INTERRUPT and STOP travel on one     *)
(* non-overtaking channel per pair of ranks.  Learned clauses are not      *)
(* modelled here.  Solvers are sound: they answer Answer, or, once they    *)
(* have been interrupted, UNKNOWN.  LocalPortfolio details how a solver is *)
(* interrupted and released, which is one step here.                       *)
(***************************************************************************)
EXTENDS Integers, Sequences

CONSTANTS
    NumRanks,       \* mpiSize
    Worker,         \* the solver threads of all ranks
    RankOf,         \* RankOf[w]: the rank whose LocalWorker owns w
    Answer,         \* what a solver that finishes says of the formula
    HasTimeout,     \* -t is given
    NoModel         \* the empty model

Ranks == 0 .. NumRanks - 1
Root  == 0
Link  == Ranks \X Ranks

Results == {"UNKNOWN", "SAT", "UNSAT"}
Model   == Worker \cup {NoModel}

ASSUME NumRanksAssumption == NumRanks \in Nat \ {0}
ASSUME RankOfAssumption   == RankOf \in [Worker -> Ranks]
ASSUME AnswerAssumption   == Answer \in {"SAT", "UNSAT"}
ASSUME FlagAssumption     == HasTimeout \in BOOLEAN
ASSUME NoModelAssumption  == NoModel \notin Worker

Message == [tag   : {"CUBE", "REPORT", "INTERRUPT", "STOP"},
            res   : Results,
            model : Model]

Cube         == [tag |-> "CUBE",      res |-> "UNKNOWN", model |-> NoModel]
Interrupt    == [tag |-> "INTERRUPT", res |-> "UNKNOWN", model |-> NoModel]
Stop(r)      == [tag |-> "STOP",      res |-> r,         model |-> NoModel]
Report(r, m) == [tag |-> "REPORT",    res |-> r,         model |-> m]

VARIABLES
    globalEnding,    \* one flag per process
    res,             \* MpiComm::res of every rank
    model,           \* MpiComm::model of the root
    strategyEnding,  \* of the root's Portfolio
    joining,         \* the result handed to the running Portfolio::join
    finalResult,     \* globals of the root's process
    finalModel,
    chan,            \* chan[src, dst]: messages under way
    mainPc,          \* where the main thread of a rank is
    commPc,          \* where the communicator thread of a rank is
    cubesSent,       \* how many Dispatchers the root's main has served
    wPc,             \* where a solver thread is
    wInterrupt,      \* SequentialWorker::interrupt (and its solver's flag)
    wRes,            \* the result of solve() that is being reported
    output           \* what the root printed

rootVars == <<model, strategyEnding, joining, finalResult, finalModel>>
wVars    == <<wPc, wInterrupt, wRes>>
vars     == <<globalEnding, res, rootVars, chan, mainPc, commPc, cubesSent,
              wVars, output>>

NotPrinted == [res |-> "none", model |-> NoModel]

TypeOK ==
    /\ globalEnding \in [Ranks -> BOOLEAN]
    /\ res \in [Ranks -> Results]
    /\ model \in Model
    /\ strategyEnding \in BOOLEAN
    /\ joining \in Results
    /\ finalResult \in Results
    /\ finalModel \in Model
    /\ chan \in [Link -> Seq(Message)]
    /\ mainPc \in [Ranks -> {"solve", "poll", "sleep", "interrupt", "bcast",
                             "print", "barrier", "teardown", "clean",
                             "finalized", "exited", "crashed"}]
    /\ commPc \in [Ranks -> {"loop", "recv", "join", "interrupt", "ending",
                             "final", "model", "done"}]
    /\ cubesSent \in 0 .. NumRanks
    /\ wPc \in [Worker -> {"top", "wait", "solving", "join", "report",
                           "claim", "send", "done"}]
    /\ wInterrupt \in [Worker -> BOOLEAN]
    /\ wRes \in [Worker -> Results]
    /\ output \in [res : Results \cup {"none"}, model : Model]

Init ==
    /\ globalEnding = [r \in Ranks |-> FALSE]
    /\ res = [r \in Ranks |-> "UNKNOWN"]
    /\ model = NoModel
    /\ strategyEnding = FALSE
    /\ joining = "UNKNOWN"
    /\ finalResult = "UNKNOWN"
    /\ finalModel = NoModel
    /\ chan = [l \in Link |-> <<>>]
    /\ mainPc = [r \in Ranks |-> IF r = Root THEN "solve" ELSE "poll"]
    /\ commPc = [r \in Ranks |-> "loop"]
    /\ cubesSent = 0
    /\ wPc = [w \in Worker |-> "top"]
    /\ wInterrupt = [w \in Worker |-> TRUE]
    /\ wRes = [w \in Worker |-> "UNKNOWN"]
    /\ output = NotPrinted

-----------------------------------------------------------------------------
\* The threads of a rank run until its process exits or crashes.
Alive(r) == mainPc[r] \notin {"exited", "crashed"}

MainAt(r, pc) == mainPc[r] = pc
CommAt(r, pc) == commPc[r] = pc /\ Alive(r)
WorkerAt(w, pc) == wPc[w] = pc /\ Alive(RankOf[w])

MainGo(r, pc)   == mainPc' = [mainPc EXCEPT ![r] = pc]
CommGo(r, pc)   == commPc' = [commPc EXCEPT ![r] = pc]
WorkerGo(w, pc) == wPc' = [wPc EXCEPT ![w] = pc]

\* Channels after message m has been sent from src to every rank of dsts.
Sent(src, dsts, m) ==
    [l \in Link |-> IF l[1] = src /\ l[2] \in dsts
                    THEN Append(chan[l], m) ELSE chan[l]]

\* Channels after the first message of link l has been received.
Received(l) == [chan EXCEPT ![l] = Tail(chan[l])]

-----------------------------------------------------------------------------
\* The solver threads: mainWorker, SequentialWorker::join, LocalWorker::join
\* and MpiComm::reportResult.

\* LocalWorker::solve: every slave gets the cube and is released.
SlavesSolve(r) ==
    /\ wInterrupt' = [w \in Worker |-> RankOf[w] # r /\ wInterrupt[w]]
    /\ wPc' = [w \in Worker |-> IF RankOf[w] = r /\ wPc[w] = "wait"
                                THEN "solving" ELSE wPc[w]]
    /\ UNCHANGED wRes

\* LocalWorker::setInterrupt.
SlavesInterrupt(r) ==
    /\ wInterrupt' = [w \in Worker |-> RankOf[w] = r \/ wInterrupt[w]]
    /\ UNCHANGED <<wPc, wRes>>

\* The loop test and the wait for an order to solve.
WorkerTop(w) ==
    /\ WorkerAt(w, "top")
    /\ WorkerGo(w, IF globalEnding[RankOf[w]] THEN "done"
                   ELSE IF wInterrupt[w] THEN "wait" ELSE "solving")
    /\ UNCHANGED <<globalEnding, res, rootVars, chan, mainPc, commPc, cubesSent,
                   wInterrupt, wRes, output>>

\* solve() returns: with the answer, whether or not it has been interrupted ...
WorkerAnswer(w) ==
    /\ WorkerAt(w, "solving")
    /\ WorkerGo(w, "join")
    /\ wRes' = [wRes EXCEPT ![w] = Answer]
    /\ UNCHANGED <<globalEnding, res, rootVars, chan, mainPc, commPc, cubesSent,
                   wInterrupt, output>>

\* ... or without one, because it has been interrupted.
WorkerGiveUp(w) ==
    /\ WorkerAt(w, "solving")
    /\ wInterrupt[w]
    /\ WorkerGo(w, "join")
    /\ wRes' = [wRes EXCEPT ![w] = "UNKNOWN"]
    /\ UNCHANGED <<globalEnding, res, rootVars, chan, mainPc, commPc, cubesSent,
                   wInterrupt, output>>

\* join returns: back to the loop test, the last result is of no use any more.
Again(w) == WorkerGo(w, "top") /\ wRes' = [wRes EXCEPT ![w] = "UNKNOWN"]

\* SequentialWorker::join, then LocalWorker::join.
WorkerJoin(w) ==
    /\ WorkerAt(w, "join")
    /\ IF globalEnding[RankOf[w]] \/ wRes[w] = "UNKNOWN"
       THEN Again(w)
       ELSE WorkerGo(w, "report") /\ UNCHANGED wRes
    /\ UNCHANGED <<globalEnding, res, rootVars, chan, mainPc, commPc, cubesSent,
                   wInterrupt, output>>

\* MpiComm::reportResult: the test of res ...
WorkerReport(w) ==
    /\ WorkerAt(w, "report")
    /\ IF res[RankOf[w]] # "UNKNOWN"
       THEN Again(w)
       ELSE WorkerGo(w, "claim") /\ UNCHANGED wRes
    /\ UNCHANGED <<globalEnding, res, rootVars, chan, mainPc, commPc, cubesSent,
                   wInterrupt, output>>

\* ... its assignment ...
WorkerClaim(w) ==
    /\ WorkerAt(w, "claim")
    /\ WorkerGo(w, "send")
    /\ res' = [res EXCEPT ![RankOf[w]] = wRes[w]]
    /\ UNCHANGED <<globalEnding, rootVars, chan, mainPc, commPc, cubesSent,
                   wInterrupt, wRes, output>>

\* Faulty: model is cleared before the result is reported.
WorkerSendNoModel(w) ==
    /\ WorkerAt(w, "send")
    /\ Again(w)
    /\ chan' = Sent(RankOf[w], {Root}, Report(wRes[w], NoModel))
    /\ UNCHANGED <<globalEnding, res, rootVars, mainPc, commPc, cubesSent,
                   wInterrupt, output>>

\* ... and the message to the root, with the model of a SAT answer.
WorkerSend(w) ==
    /\ WorkerAt(w, "send")
    /\ Again(w)
    /\ chan' = Sent(RankOf[w], {Root},
                    Report(wRes[w], IF wRes[w] = "SAT" THEN w ELSE NoModel))
    /\ UNCHANGED <<globalEnding, res, rootVars, mainPc, commPc, cubesSent,
                   wInterrupt, output>>

WorkerStep(w) ==
    \/ WorkerTop(w) \/ WorkerJoin(w) \/ WorkerReport(w) \/ WorkerClaim(w)
    \/ WorkerSend(w)

-----------------------------------------------------------------------------
\* The communicator thread: its loop, MpiComm::receiveIncomingMsg, and
\* Dispatcher::join and Portfolio::join, which run on the root's thread.

\* The loop test.
CommLoop(r) ==
    /\ CommAt(r, "loop")
    /\ CommGo(r, IF globalEnding[r] THEN "done" ELSE "recv")
    /\ UNCHANGED <<globalEnding, res, rootVars, chan, mainPc, cubesSent, wVars,
                   output>>

\* MPI_Iprobe finds nothing: receiveIncomingMsg returns.
CommDrained(r) ==
    /\ CommAt(r, "recv")
    /\ \A s \in Ranks : chan[<<s, r>>] = <<>>
    /\ CommGo(r, "loop")
    /\ UNCHANGED <<globalEnding, res, rootVars, chan, mainPc, cubesSent, wVars,
                   output>>

\* MPI_Iprobe finds a message, the first one of link s -> r.
Probes(s, r, tag) ==
    /\ CommAt(r, "recv")
    /\ chan[<<s, r>>] # <<>>
    /\ Head(chan[<<s, r>>]).tag = tag
    /\ ~globalEnding[r]

\* After the end every message is garbage.
CommDiscard(s, r) ==
    /\ CommAt(r, "recv")
    /\ chan[<<s, r>>] # <<>>
    /\ globalEnding[r]
    /\ chan' = Received(<<s, r>>)
    /\ UNCHANGED <<globalEnding, res, rootVars, mainPc, commPc, cubesSent, wVars,
                   output>>

CommCube(s, r) ==
    /\ Probes(s, r, "CUBE")
    /\ chan' = Received(<<s, r>>)
    /\ SlavesSolve(r)
    /\ UNCHANGED <<globalEnding, res, rootVars, mainPc, commPc, cubesSent, output>>

CommInterrupt(s, r) ==
    /\ Probes(s, r, "INTERRUPT")
    /\ chan' = Received(<<s, r>>)
    /\ SlavesInterrupt(r)
    /\ UNCHANGED <<globalEnding, res, rootVars, mainPc, commPc, cubesSent, output>>

CommStop(s, r) ==
    /\ Probes(s, r, "STOP")
    /\ chan' = Received(<<s, r>>)
    /\ res' = [res EXCEPT ![r] = Head(chan[<<s, r>>]).res]
    /\ globalEnding' = [globalEnding EXCEPT ![r] = TRUE]
    /\ UNCHANGED <<rootVars, mainPc, commPc, cubesSent, wVars, output>>

\* Faulty: whatever sets res of the root first wins, its own report included.
LosesAlways(s) == res[Root] # "UNKNOWN"

\* A report loses against an earlier result, unless it is the root's own: the
\* root's res may then have been set by the very thread that sent it.
Loses(s) == res[Root] # "UNKNOWN" /\ s # Root

CommReport(s) ==
    LET m == Head(chan[<<s, Root>>])
    IN  /\ Probes(s, Root, "REPORT")
        /\ chan' = Received(<<s, Root>>)
        /\ IF Loses(s)
           THEN UNCHANGED <<res, model, joining, commPc>>
           ELSE /\ res' = [res EXCEPT ![Root] = m.res]
                /\ model' = IF m.model = NoModel THEN model ELSE m.model
                /\ joining' = m.res
                /\ CommGo(Root, "join")
        /\ UNCHANGED <<globalEnding, strategyEnding, finalResult, finalModel,
                       mainPc, cubesSent, wVars, output>>

\* Faulty: the search is declared over before the slaves are interrupted.
JoinTestEndsFirst ==
    /\ CommAt(Root, "join")
    /\ IF globalEnding[Root] \/ joining = "UNKNOWN" \/ strategyEnding
       THEN CommGo(Root, "recv") /\ UNCHANGED <<strategyEnding, globalEnding>>
       ELSE /\ CommGo(Root, "interrupt")
            /\ strategyEnding' = TRUE
            /\ globalEnding' = [globalEnding EXCEPT ![Root] = TRUE]
    /\ UNCHANGED <<res, model, joining, finalResult, finalModel, chan, mainPc,
                   cubesSent, wVars, output>>

\* Dispatcher::join and the first tests of Portfolio::join.
JoinTest ==
    /\ CommAt(Root, "join")
    /\ IF globalEnding[Root] \/ joining = "UNKNOWN" \/ strategyEnding
       THEN CommGo(Root, "recv") /\ UNCHANGED strategyEnding
       ELSE CommGo(Root, "interrupt") /\ strategyEnding' = TRUE
    /\ UNCHANGED <<globalEnding, res, model, joining, finalResult, finalModel,
                   chan, mainPc, cubesSent, wVars, output>>

JoinInterrupt ==
    /\ CommAt(Root, "interrupt")
    /\ CommGo(Root, "ending")
    /\ chan' = Sent(Root, Ranks, Interrupt)
    /\ UNCHANGED <<globalEnding, res, rootVars, mainPc, cubesSent, wVars, output>>

JoinEnding ==
    /\ CommAt(Root, "ending")
    /\ CommGo(Root, "final")
    /\ globalEnding' = [globalEnding EXCEPT ![Root] = TRUE]
    /\ UNCHANGED <<res, rootVars, chan, mainPc, cubesSent, wVars, output>>

JoinResult ==
    /\ CommAt(Root, "final")
    /\ CommGo(Root, IF joining = "SAT" THEN "model" ELSE "recv")
    /\ finalResult' = joining
    /\ UNCHANGED <<globalEnding, res, model, strategyEnding, joining, finalModel,
                   chan, mainPc, cubesSent, wVars, output>>

JoinModel ==
    /\ CommAt(Root, "model")
    /\ CommGo(Root, "recv")
    /\ finalModel' = model
    /\ UNCHANGED <<globalEnding, res, model, strategyEnding, joining, finalResult,
                   chan, mainPc, cubesSent, wVars, output>>

CommStep(r) ==
    \/ CommLoop(r)
    \/ CommDrained(r)
    \/ \E s \in Ranks : \/ CommDiscard(s, r) \/ CommCube(s, r)
                        \/ CommInterrupt(s, r) \/ CommStop(s, r)
    \/ r = Root /\ \E s \in Ranks : CommReport(s)
    \/ r = Root /\ (JoinTest \/ JoinInterrupt \/ JoinEnding \/ JoinResult \/ JoinModel)

-----------------------------------------------------------------------------
\* The main thread of every rank, from working->solve(cube) on.

\* Faulty: one Dispatcher too many.
MainSendCubeBeyond ==
    /\ MainAt(Root, "solve")
    /\ cubesSent <= NumRanks
    /\ strategyEnding' = IF cubesSent = 0 THEN FALSE ELSE strategyEnding
    /\ chan' = Sent(Root, {cubesSent}, Cube)
    /\ cubesSent' = cubesSent + 1
    /\ UNCHANGED <<globalEnding, res, model, joining, finalResult, finalModel,
                   mainPc, commPc, wVars, output>>

\* Portfolio::solve and Dispatcher::solve: one cube per rank, in rank order.
MainSendCube ==
    /\ MainAt(Root, "solve")
    /\ cubesSent < NumRanks
    /\ strategyEnding' = IF cubesSent = 0 THEN FALSE ELSE strategyEnding
    /\ chan' = Sent(Root, {cubesSent}, Cube)
    /\ cubesSent' = cubesSent + 1
    /\ UNCHANGED <<globalEnding, res, model, joining, finalResult, finalModel,
                   mainPc, commPc, wVars, output>>

MainSolved ==
    /\ MainAt(Root, "solve")
    /\ cubesSent = NumRanks
    /\ MainGo(Root, "poll")
    /\ UNCHANGED <<globalEnding, res, rootVars, chan, commPc, cubesSent, wVars,
                   output>>

\* The test of the waiting loop.
MainPoll(r) ==
    /\ MainAt(r, "poll")
    /\ globalEnding[r] \/ HasTimeout
    /\ MainGo(r, IF ~globalEnding[r] THEN "sleep"
                 ELSE IF r = Root THEN "bcast" ELSE "barrier")
    /\ UNCHANGED <<globalEnding, res, rootVars, chan, commPc, cubesSent, wVars,
                   output>>

MainWake(r) ==
    /\ MainAt(r, "sleep")
    /\ MainGo(r, "poll")
    /\ UNCHANGED <<globalEnding, res, rootVars, chan, commPc, cubesSent, wVars,
                   output>>

\* The time limit has passed.
MainTimeout(r) ==
    /\ MainAt(r, "sleep")
    /\ MainGo(r, "interrupt")
    /\ globalEnding' = [globalEnding EXCEPT ![r] = TRUE]
    /\ UNCHANGED <<res, rootVars, chan, commPc, cubesSent, wVars, output>>

\* working->setInterrupt(); working is NULL on every rank but the root.
MainInterrupt(r) ==
    /\ MainAt(r, "interrupt")
    /\ IF r = Root
       THEN MainGo(r, "poll") /\ chan' = Sent(Root, Ranks, Interrupt)
       ELSE MainGo(r, "crashed") /\ UNCHANGED chan
    /\ UNCHANGED <<globalEnding, res, rootVars, commPc, cubesSent, wVars, output>>

\* Faulty: the broadcast misses the last rank.
MainBcastShort ==
    /\ MainAt(Root, "bcast")
    /\ MainGo(Root, "print")
    /\ chan' = Sent(Root, Ranks \ {Root, NumRanks - 1}, Stop(res[Root]))
    /\ UNCHANGED <<globalEnding, res, rootVars, commPc, cubesSent, wVars, output>>

\* MpiComm::updateWorkingStatus.
MainBcast ==
    /\ MainAt(Root, "bcast")
    /\ MainGo(Root, "print")
    /\ chan' = Sent(Root, Ranks \ {Root}, Stop(res[Root]))
    /\ UNCHANGED <<globalEnding, res, rootVars, commPc, cubesSent, wVars, output>>

MainPrint ==
    /\ MainAt(Root, "print")
    /\ MainGo(Root, "barrier")
    /\ output' = [res   |-> finalResult,
                  model |-> IF finalResult = "SAT" THEN finalModel ELSE NoModel]
    /\ UNCHANGED <<globalEnding, res, rootVars, chan, commPc, cubesSent, wVars>>

\* MPI_Barrier returns once every rank has entered it.
MainBarrier(r) ==
    /\ MainAt(r, "barrier")
    /\ \A q \in Ranks : mainPc[q] \in {"barrier", "teardown", "clean",
                                       "finalized", "exited"}
    /\ MainGo(r, "teardown")
    /\ UNCHANGED <<globalEnding, res, rootVars, chan, commPc, cubesSent, wVars,
                   output>>

\* commThread.join().
MainJoinComm(r) ==
    /\ MainAt(r, "teardown")
    /\ commPc[r] = "done"
    /\ MainGo(r, "clean")
    /\ UNCHANGED <<globalEnding, res, rootVars, chan, commPc, cubesSent, wVars,
                   output>>

\* MpiComm::cleanReceivingBuffer, then MPI_Finalize.
MainClean(r) ==
    /\ MainAt(r, "clean")
    /\ MainGo(r, "finalized")
    /\ chan' = [l \in Link |-> IF l[2] = r THEN <<>> ELSE chan[l]]
    /\ UNCHANGED <<globalEnding, res, rootVars, commPc, cubesSent, wVars, output>>

\* main returns and ends the process with every thread still in it.
MainExit(r) ==
    /\ MainAt(r, "finalized")
    /\ MainGo(r, "exited")
    /\ UNCHANGED <<globalEnding, res, rootVars, chan, commPc, cubesSent, wVars,
                   output>>

MainStep(r) ==
    \/ r = Root /\ (MainSendCube \/ MainSolved \/ MainBcast \/ MainPrint)
    \/ MainPoll(r) \/ MainWake(r) \/ MainInterrupt(r) \/ MainBarrier(r)
    \/ MainJoinComm(r) \/ MainClean(r) \/ MainExit(r)

-----------------------------------------------------------------------------
\* The job is over: every process has left, or one has crashed and taken the
\* others with it.
Terminated ==
    /\ \/ \A r \in Ranks : mainPc[r] = "exited"
       \/ \E r \in Ranks : mainPc[r] = "crashed"
    /\ UNCHANGED vars

Next ==
    \/ \E r \in Ranks : MainStep(r) \/ MainTimeout(r) \/ CommStep(r)
    \/ \E w \in Worker : WorkerStep(w) \/ WorkerAnswer(w) \/ WorkerGiveUp(w)
    \/ Terminated

Spec == Init /\ [][Next]_vars

\* Every thread that can run does run in the end.  A solver need not find an
\* answer nor notice an interruption, and the time limit need not be reached.
FairSpec ==
    /\ Spec
    /\ \A r \in Ranks : WF_vars(MainStep(r)) /\ WF_vars(CommStep(r))
    /\ \A w \in Worker : WF_vars(WorkerStep(w))

-----------------------------------------------------------------------------
HasReport(l) == \E i \in DOMAIN chan[l] : chan[l][i].tag = "REPORT"

\* A worker of rank r has set res and is about to send its report, or the
\* report is on its way to the root.
ReportPending(r) ==
    \/ \E w \in Worker : RankOf[w] = r /\ wPc[w] = "send"
    \/ HasReport(<<r, Root>>)

\* The root's communicator has accepted a report and is inside Portfolio::join.
Joining == commPc[Root] \in {"join", "interrupt", "ending", "final", "model"}

\* No answer is lost.  Once a rank has an answer in res, either the root has
\* stopped the search, or it is inside join with an answer, or a report is
\* pending that it will not drop: the rank's own while the root has no answer,
\* and one of the root's own workers if res of the root was set by one.
\* (the exception for source 0 in receiveIncomingMsg, reportResult)
AnswerNotLost ==
    \A r \in Ranks :
        res[r] # "UNKNOWN" /\ ~globalEnding[Root] =>
            \/ Joining
            \/ ReportPending(Root)
            \/ r # Root /\ res[Root] = "UNKNOWN" /\ ReportPending(r)

\* Nothing follows STOP: it is the last control message the root ever sends a
\* rank, so no rank is left with an order it will not handle.  (the order of
\* setInterrupt and globalEnding in Portfolio::join, updateWorkingStatus)
StopIsLast ==
    \A r \in Ranks \ {Root} :
        \A i \in DOMAIN chan[<<Root, r>>] :
            chan[<<Root, r>>][i].tag = "STOP" => i = Len(chan[<<Root, r>>])

\* Only the root's decision stops a rank: no rank ends its search before the
\* root has ended, has left its waiting loop and has sent STOP.
OnlyRootStops ==
    \A r \in Ranks \ {Root} :
        globalEnding[r] =>
            /\ globalEnding[Root]
            /\ mainPc[Root] \notin {"solve", "poll", "sleep", "interrupt", "bcast"}

\* The final result and the final model are those of one report: an answer is
\* the solvers' answer and, outside the two assignments of Portfolio::join, a
\* satisfiable final result has a model.
ResultHasModel ==
    /\ finalResult \in {"UNKNOWN", Answer}
    /\ finalModel # NoModel => finalResult = "SAT"
    /\ finalResult = "SAT" /\ commPc[Root] # "model" => finalModel # NoModel

\* An answer that one solver of the cluster is about to report makes every rank
\* stop and leave, however the messages, the threads and the time limit
\* interleave, unless a rank crashes.  (join of all strategies, reportResult,
\* updateWorkingStatus, the barrier and commThread.join)
AnswerEndsAll ==
    \A w \in Worker :
        wPc[w] = "join" /\ wRes[w] = Answer
            ~> \/ \A r \in Ranks : mainPc[r] = "exited"
               \/ \E r \in Ranks : mainPc[r] = "crashed"

\* What painless.cpp:358 says: the root prints the result, and the model if SAT.
PrintsResult ==
    output # NotPrinted /\ ~HasTimeout =>
        output.res # "UNKNOWN" /\ (output.res = "SAT" => output.model # NoModel)

\* Not true of the code.  What painless.cpp:92 says: -t is a time limit, so reaching it ends the search.
TimeoutStops == \A r \in Ranks : mainPc[r] # "crashed"

\* Not true of the code.  What painless.cpp:389 says: the MPI buffer is clean when MPI is finalized,
\* and nothing arrives at a rank that has finalized MPI.
BuffersStayClean ==
    \A s, r \in Ranks : mainPc[r] = "finalized" => chan[<<s, r>>] = <<>>

=============================================================================
