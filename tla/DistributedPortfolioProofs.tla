---------------------- MODULE DistributedPortfolioProofs ----------------------
(***************************************************************************)
(* Type correctness of DistributedPortfolio and its safety properties, for *)
(* every number of ranks and every distribution of solver threads.  The    *)
(* inductive invariant is the conjunction of the parts below with TypeOK.  *)
(***************************************************************************)
EXTENDS DistributedPortfolio, TLAPS

AfterBcast == {"print", "barrier", "teardown", "clean", "finalized", "exited"}

\* A worker on its way through join holds the answer.
WorkersHoldAnswer ==
    \A w \in Worker : wPc[w] \in {"report", "claim", "send"} => wRes[w] = Answer

WorkerResults == \A w \in Worker : wRes[w] \in {"UNKNOWN", Answer}

\* Reports carry the answer, and its model if it is SAT; STOP goes from the
\* root, once it has broadcast, to the others; only the root sends CUBE and
\* INTERRUPT.
GoodMessage(l, m) ==
    /\ m.tag = "REPORT" => /\ m.res = Answer
                           /\ m.res = "SAT" => m.model # NoModel
    /\ m.tag = "STOP" => /\ l[1] = Root /\ l[2] # Root
                         /\ mainPc[Root] \in AfterBcast

GoodMessages ==
    \A l \in Link : \A i \in DOMAIN chan[l] : GoodMessage(l, chan[l][i])

\* Where the two threads of the root are when its search has ended.
RootThreads ==
    /\ mainPc[Root] \in AfterBcast \cup {"interrupt", "bcast"} => globalEnding[Root]
    /\ mainPc[Root] # "crashed"
    /\ strategyEnding => \/ commPc[Root] \in {"interrupt", "ending"}
                         \/ globalEnding[Root]
    /\ commPc[Root] \in {"final", "model"} => globalEnding[Root]

\* What the running Portfolio::join holds.
JoinHoldsAnswer ==
    /\ joining \in {"UNKNOWN", Answer}
    /\ Joining => /\ joining = Answer
                  /\ joining = "SAT" => model # NoModel
    /\ commPc[Root] = "model" => joining = "SAT" /\ finalResult = "SAT"

\* Without a time limit nothing but the end of join ends the root's search.
NoTimeoutYet ==
    ~HasTimeout =>
        /\ \A r \in Ranks : mainPc[r] \notin {"sleep", "interrupt"}
        /\ globalEnding[Root] => commPc[Root] \notin {"join", "interrupt", "ending"}

EndsAfterBcast ==
    ~HasTimeout => \A r \in Ranks \ {Root} :
                       globalEnding[r] => mainPc[Root] \in AfterBcast

IInv ==
    /\ WorkersHoldAnswer /\ WorkerResults /\ GoodMessages /\ RootThreads
    /\ JoinHoldsAnswer /\ NoTimeoutYet /\ EndsAfterBcast
    /\ AnswerNotLost /\ ResultHasModel
    /\ ~HasTimeout => StopIsLast

-----------------------------------------------------------------------------
\* Channels: what sending and receiving leave in them.

LEMMA LinkParts == \A l \in Link : l = <<l[1], l[2]>> /\ l[1] \in Ranks /\ l[2] \in Ranks
BY DEF Link

LEMMA RootIsRank == Root \in Ranks
BY NumRanksAssumption DEF Root, Ranks

LEMMA SentType ==
    ASSUME chan \in [Link -> Seq(Message)], NEW src, NEW dsts, NEW m \in Message
    PROVE  Sent(src, dsts, m) \in [Link -> Seq(Message)]
BY DEF Sent

LEMMA ReceivedType ==
    ASSUME chan \in [Link -> Seq(Message)], NEW l \in Link, chan[l] # <<>>
    PROVE  /\ Received(l) \in [Link -> Seq(Message)]
           /\ Head(chan[l]) \in Message
BY DEF Received

LEMMA MessageTypes ==
    /\ Cube \in Message /\ Interrupt \in Message
    /\ \A r \in Results : Stop(r) \in Message
    /\ \A r \in Results, m \in Model : Report(r, m) \in Message
BY NoModelAssumption DEF Cube, Interrupt, Stop, Report, Message, Results, Model

LEMMA AnswerIsResult == Answer \in Results /\ Answer # "UNKNOWN"
BY AnswerAssumption DEF Results

-----------------------------------------------------------------------------
LEMMA InitType == Init => TypeOK
<1> SUFFICES ASSUME Init PROVE TypeOK
  OBVIOUS
<1>1. cubesSent \in 0 .. NumRanks
  BY NumRanksAssumption DEF Init
<1>2. chan \in [Link -> Seq(Message)]
  <2>1. <<>> \in Seq(Message)
    OBVIOUS
  <2> QED
    BY <2>1 DEF Init
<1>3. output \in [res : Results \cup {"none"}, model : Model]
  BY DEF Init, NotPrinted, Model
<1> QED
  BY <1>1, <1>2, <1>3 DEF Init, TypeOK, Results, Model

LEMMA StepType == TypeOK /\ [Next]_vars => TypeOK'
<1> SUFFICES ASSUME TypeOK, [Next]_vars PROVE TypeOK'
  OBVIOUS
<1> USE RootIsRank
<1>1. ASSUME NEW r \in Ranks, MainStep(r) PROVE TypeOK'
  <2>1. CASE r = Root /\ MainSendCube
    <3>1. chan' \in [Link -> Seq(Message)]
      BY <2>1, SentType, MessageTypes DEF MainSendCube, TypeOK
    <3>2. cubesSent' \in 0 .. NumRanks
      BY <2>1, NumRanksAssumption DEF MainSendCube, TypeOK
    <3> QED
      BY <2>1, <3>1, <3>2 DEF MainSendCube, TypeOK, wVars
  <2>2. CASE r = Root /\ MainSolved
    BY <2>2 DEF MainSolved, MainGo, TypeOK, rootVars, wVars
  <2>3. CASE r = Root /\ MainBcast
    <3>1. chan' \in [Link -> Seq(Message)]
      BY <2>3, SentType, MessageTypes DEF MainBcast, TypeOK
    <3> QED
      BY <2>3, <3>1 DEF MainBcast, MainGo, TypeOK, rootVars, wVars
  <2>4. CASE r = Root /\ MainPrint
    <3>1. output' \in [res : Results \cup {"none"}, model : Model]
      BY <2>4 DEF MainPrint, TypeOK, Model
    <3> QED
      BY <2>4, <3>1 DEF MainPrint, MainGo, TypeOK, rootVars, wVars
  <2>5. CASE MainPoll(r)
    BY <2>5 DEF MainPoll, MainGo, TypeOK, rootVars, wVars
  <2>6. CASE MainWake(r)
    BY <2>6 DEF MainWake, MainGo, TypeOK, rootVars, wVars
  <2>7. CASE MainInterrupt(r)
    <3>1. chan' \in [Link -> Seq(Message)]
      BY <2>7, SentType, MessageTypes DEF MainInterrupt, TypeOK
    <3> QED
      BY <2>7, <3>1 DEF MainInterrupt, MainGo, TypeOK, rootVars, wVars
  <2>8. CASE MainBarrier(r)
    BY <2>8 DEF MainBarrier, MainGo, TypeOK, rootVars, wVars
  <2>9. CASE MainJoinComm(r)
    BY <2>9 DEF MainJoinComm, MainGo, TypeOK, rootVars, wVars
  <2>10. CASE MainClean(r)
    BY <2>10 DEF MainClean, MainGo, TypeOK, rootVars, wVars
  <2>11. CASE MainExit(r)
    BY <2>11 DEF MainExit, MainGo, TypeOK, rootVars, wVars
  <2> QED
    BY <1>1, <2>1, <2>2, <2>3, <2>4, <2>5, <2>6, <2>7, <2>8, <2>9, <2>10, <2>11
       DEF MainStep
<1>2. ASSUME NEW r \in Ranks, MainTimeout(r) PROVE TypeOK'
  BY <1>2 DEF MainTimeout, MainGo, TypeOK, rootVars, wVars
<1>3. ASSUME NEW r \in Ranks, CommStep(r) PROVE TypeOK'
  <2>1. CASE CommLoop(r)
    BY <2>1 DEF CommLoop, CommGo, TypeOK, rootVars, wVars
  <2>2. CASE CommDrained(r)
    BY <2>2 DEF CommDrained, CommGo, TypeOK, rootVars, wVars
  <2>3. ASSUME NEW s \in Ranks, CommDiscard(s, r) PROVE TypeOK'
    <3>1. chan' \in [Link -> Seq(Message)]
      BY <2>3, ReceivedType DEF CommDiscard, TypeOK, Link
    <3> QED
      BY <2>3, <3>1 DEF CommDiscard, TypeOK, rootVars, wVars
  <2>4. ASSUME NEW s \in Ranks, CommCube(s, r) PROVE TypeOK'
    <3>1. chan' \in [Link -> Seq(Message)]
      BY <2>4, ReceivedType DEF CommCube, Probes, TypeOK, Link
    <3> QED
      BY <2>4, <3>1 DEF CommCube, SlavesSolve, TypeOK, rootVars
  <2>5. ASSUME NEW s \in Ranks, CommInterrupt(s, r) PROVE TypeOK'
    <3>1. chan' \in [Link -> Seq(Message)]
      BY <2>5, ReceivedType DEF CommInterrupt, Probes, TypeOK, Link
    <3> QED
      BY <2>5, <3>1 DEF CommInterrupt, SlavesInterrupt, TypeOK, rootVars
  <2>6. ASSUME NEW s \in Ranks, CommStop(s, r) PROVE TypeOK'
    <3>1. /\ chan' \in [Link -> Seq(Message)]
          /\ Head(chan[<<s, r>>]).res \in Results
      BY <2>6, ReceivedType DEF CommStop, Probes, TypeOK, Link, Message
    <3> QED
      BY <2>6, <3>1 DEF CommStop, TypeOK, rootVars, wVars
  <2>7. ASSUME NEW s \in Ranks, CommReport(s) PROVE TypeOK'
    <3>1. /\ chan' \in [Link -> Seq(Message)]
          /\ Head(chan[<<s, Root>>]).res \in Results
          /\ Head(chan[<<s, Root>>]).model \in Model
      BY <2>7, ReceivedType DEF CommReport, Probes, TypeOK, Link, Message
    <3>2. /\ res' \in [Ranks -> Results]
          /\ model' \in Model
          /\ joining' \in Results
          /\ UNCHANGED <<globalEnding, strategyEnding, finalResult, finalModel,
                         mainPc, cubesSent, wVars, output>>
      BY <2>7, <3>1 DEF CommReport, TypeOK
    <3>3. commPc' = commPc \/ commPc' = [commPc EXCEPT ![Root] = "join"]
      BY <2>7 DEF CommReport, CommGo
    <3> QED
      BY <3>1, <3>2, <3>3 DEF TypeOK, wVars
  <2>8. CASE r = Root /\ JoinTest
    BY <2>8 DEF JoinTest, CommGo, TypeOK, wVars
  <2>9. CASE r = Root /\ JoinInterrupt
    <3>1. chan' \in [Link -> Seq(Message)]
      BY <2>9, SentType, MessageTypes DEF JoinInterrupt, TypeOK
    <3> QED
      BY <2>9, <3>1 DEF JoinInterrupt, CommGo, TypeOK, rootVars, wVars
  <2>10. CASE r = Root /\ JoinEnding
    BY <2>10 DEF JoinEnding, CommGo, TypeOK, rootVars, wVars
  <2>11. CASE r = Root /\ JoinResult
    BY <2>11 DEF JoinResult, CommGo, TypeOK, wVars
  <2>12. CASE r = Root /\ JoinModel
    BY <2>12 DEF JoinModel, CommGo, TypeOK, wVars
  <2> QED
    BY <1>3, <2>1, <2>2, <2>3, <2>4, <2>5, <2>6, <2>7, <2>8, <2>9, <2>10,
       <2>11, <2>12 DEF CommStep
<1>4. ASSUME NEW w \in Worker, WorkerStep(w) \/ WorkerAnswer(w) \/ WorkerGiveUp(w)
      PROVE TypeOK'
  <2>1. CASE WorkerTop(w)
    BY <2>1 DEF WorkerTop, WorkerGo, TypeOK, rootVars
  <2>2. CASE WorkerAnswer(w)
    BY <2>2, AnswerIsResult DEF WorkerAnswer, WorkerGo, TypeOK, rootVars
  <2>3. CASE WorkerGiveUp(w)
    BY <2>3 DEF WorkerGiveUp, WorkerGo, TypeOK, rootVars, Results
  <2>4. CASE WorkerJoin(w)
    BY <2>4 DEF WorkerJoin, Again, WorkerGo, TypeOK, rootVars, Results
  <2>5. CASE WorkerReport(w)
    BY <2>5 DEF WorkerReport, Again, WorkerGo, TypeOK, rootVars, Results
  <2>6. CASE WorkerClaim(w)
    BY <2>6, RankOfAssumption DEF WorkerClaim, WorkerGo, TypeOK, rootVars
  <2>7. CASE WorkerSend(w)
    <3>1. chan' \in [Link -> Seq(Message)]
      BY <2>7, SentType, MessageTypes DEF WorkerSend, TypeOK, Model
    <3> QED
      BY <2>7, <3>1 DEF WorkerSend, Again, WorkerGo, TypeOK, rootVars, Results
  <2> QED
    BY <1>4, <2>1, <2>2, <2>3, <2>4, <2>5, <2>6, <2>7 DEF WorkerStep
<1>5. CASE Terminated \/ UNCHANGED vars
  BY <1>5 DEF Terminated, vars, TypeOK, rootVars, wVars
<1> QED
  BY <1>1, <1>2, <1>3, <1>4, <1>5 DEF Next

\* Every variable keeps its type.
THEOREM TypeCorrect == Spec => []TypeOK
BY InitType, StepType, PTL DEF Spec

-----------------------------------------------------------------------------
\* What sending and receiving preserve of the invariant.

LEMMA AppendFacts ==
    ASSUME NEW S, NEW s \in Seq(S), NEW m \in S
    PROVE  /\ DOMAIN s = 1 .. Len(s) /\ Len(s) \in Nat
           /\ DOMAIN Append(s, m) = 1 .. Len(s) + 1
           /\ Len(Append(s, m)) = Len(s) + 1
           /\ \A i \in 1 .. Len(s) : Append(s, m)[i] = s[i]
           /\ Append(s, m)[Len(s) + 1] = m
OBVIOUS

LEMMA TailFacts ==
    ASSUME NEW S, NEW s \in Seq(S), s # <<>>
    PROVE  /\ DOMAIN s = 1 .. Len(s) /\ Len(s) \in Nat /\ Len(s) > 0
           /\ Head(s) = s[1] /\ Len(Tail(s)) = Len(s) - 1
           /\ DOMAIN Tail(s) = 1 .. Len(s) - 1
           /\ \A i \in 1 .. Len(s) - 1 : Tail(s)[i] = s[i + 1]
OBVIOUS

LEMMA SendKeepsReports ==
    ASSUME chan \in [Link -> Seq(Message)],
           NEW src, NEW dsts, NEW m \in Message, chan' = Sent(src, dsts, m)
    PROVE  \A l \in Link : HasReport(l) => HasReport(l)'
<1> SUFFICES ASSUME NEW l \in Link, NEW i \in DOMAIN chan[l], chan[l][i].tag = "REPORT"
             PROVE  i \in DOMAIN chan'[l] /\ chan'[l][i].tag = "REPORT"
  BY DEF HasReport
<1>1. chan'[l] = chan[l] \/ chan'[l] = Append(chan[l], m)
  BY DEF Sent
<1> QED
  BY <1>1, AppendFacts

LEMMA ReceiveKeepsReports ==
    ASSUME chan \in [Link -> Seq(Message)],
           NEW k \in Link, chan[k] # <<>>, chan' = Received(k)
    PROVE  \A l \in Link : HasReport(l) /\ (l = k => Head(chan[k]).tag # "REPORT")
                              => HasReport(l)'
<1> SUFFICES ASSUME NEW l \in Link, l = k => Head(chan[k]).tag # "REPORT",
                    NEW i \in DOMAIN chan[l], chan[l][i].tag = "REPORT"
             PROVE  \E j \in DOMAIN chan'[l] : chan'[l][j].tag = "REPORT"
  BY DEF HasReport
<1>1. CASE l # k
  BY <1>1 DEF Received
<1>2. CASE l = k
  <2>1. chan'[l] = Tail(chan[l]) /\ i \in 2 .. Len(chan[l])
    BY <1>2, TailFacts DEF Received
  <2>2. i - 1 \in DOMAIN chan'[l] /\ chan'[l][i - 1] = chan[l][i]
    BY <1>2, <2>1, TailFacts
  <2> QED
    BY <2>2
<1> QED
  BY <1>1, <1>2

LEMMA SendKeepsGood ==
    ASSUME chan \in [Link -> Seq(Message)], GoodMessages,
           NEW src, NEW dsts, NEW m \in Message, chan' = Sent(src, dsts, m),
           mainPc[Root] \in AfterBcast => mainPc'[Root] \in AfterBcast,
           m.tag = "REPORT" => m.res = Answer /\ (m.res = "SAT" => m.model # NoModel),
           m.tag = "STOP" => src = Root /\ Root \notin dsts /\ mainPc'[Root] \in AfterBcast
    PROVE  GoodMessages'
<1> SUFFICES ASSUME NEW l \in Link, NEW i \in DOMAIN chan'[l]
             PROVE  GoodMessage(l, chan[l][i])'
  BY DEF GoodMessages
<1>1. \/ i \in DOMAIN chan[l] /\ chan'[l][i] = chan[l][i]
      \/ l[1] = src /\ l[2] \in dsts /\ chan'[l][i] = m
  BY AppendFacts DEF Sent
<1> QED
  BY <1>1 DEF GoodMessages, GoodMessage

LEMMA ReceiveKeepsGood ==
    ASSUME chan \in [Link -> Seq(Message)], GoodMessages,
           NEW k \in Link, chan[k] # <<>>, chan' = Received(k),
           mainPc[Root] \in AfterBcast => mainPc'[Root] \in AfterBcast
    PROVE  GoodMessages' /\ GoodMessage(k, Head(chan[k]))
<1>1. ASSUME NEW l \in Link, NEW i \in DOMAIN chan'[l]
      PROVE  \E j \in DOMAIN chan[l] : chan'[l][i] = chan[l][j]
  BY TailFacts DEF Received
<1>2. GoodMessages'
  BY <1>1 DEF GoodMessages, GoodMessage
<1>3. GoodMessage(k, Head(chan[k]))
  BY TailFacts DEF GoodMessages
<1> QED
  BY <1>2, <1>3

LEMMA SendKeepsStopLast ==
    ASSUME chan \in [Link -> Seq(Message)], StopIsLast,
           NEW src, NEW dsts, NEW m \in Message, chan' = Sent(src, dsts, m),
           \A r \in dsts \ {Root} : src = Root =>
               \A i \in DOMAIN chan[<<Root, r>>] : chan[<<Root, r>>][i].tag # "STOP"
    PROVE  StopIsLast'
<1> SUFFICES ASSUME NEW r \in Ranks \ {Root}, NEW i \in DOMAIN chan'[<<Root, r>>],
                    chan'[<<Root, r>>][i].tag = "STOP"
             PROVE  i = Len(chan'[<<Root, r>>])
  BY DEF StopIsLast
<1> DEFINE l == <<Root, r>>
<1>0. l \in Link
  BY RootIsRank DEF Link
<1>1. CASE chan'[l] = chan[l]
  BY <1>1 DEF StopIsLast
<1>2. CASE Root = src /\ r \in dsts /\ chan'[l] = Append(chan[l], m)
  BY <1>0, <1>2, AppendFacts
<1> QED
  BY <1>0, <1>1, <1>2 DEF Sent

LEMMA ReceiveKeepsStopLast ==
    ASSUME chan \in [Link -> Seq(Message)], StopIsLast,
           NEW k \in Link, chan[k] # <<>>, chan' = Received(k)
    PROVE  StopIsLast'
<1> SUFFICES ASSUME NEW r \in Ranks \ {Root}, NEW i \in DOMAIN chan'[<<Root, r>>],
                    chan'[<<Root, r>>][i].tag = "STOP"
             PROVE  i = Len(chan'[<<Root, r>>])
  BY DEF StopIsLast
<1> DEFINE l == <<Root, r>>
<1>0. l \in Link
  BY RootIsRank DEF Link
<1>1. CASE l # k
  BY <1>0, <1>1 DEF Received, StopIsLast
<1>2. CASE l = k
  <2>0. chan'[l] = Tail(chan[l]) /\ chan[l] # <<>> /\ chan[l] \in Seq(Message)
    BY <1>0, <1>2 DEF Received
  <2>1. /\ i + 1 \in DOMAIN chan[l] /\ chan[l][i + 1].tag = "STOP"
        /\ Len(chan'[l]) = Len(chan[l]) - 1 /\ i \in Nat
    BY <2>0, TailFacts
  <2>2. i + 1 = Len(chan[l])
    BY <2>1 DEF StopIsLast
  <2> QED
    BY <2>1, <2>2, <1>0
<1> QED
  BY <1>1, <1>2

-----------------------------------------------------------------------------
\* The steps of a thread that touch no channel.

QuietMain(r) ==
    \/ r = Root /\ (MainSolved \/ MainPrint)
    \/ MainPoll(r) \/ MainWake(r) \/ MainTimeout(r) \/ MainBarrier(r)
    \/ MainJoinComm(r) \/ MainExit(r)

QuietComm(r) ==
    \/ CommLoop(r) \/ CommDrained(r)
    \/ r = Root /\ (JoinTest \/ JoinEnding \/ JoinResult \/ JoinModel)

QuietWorker(w) ==
    \/ WorkerTop(w) \/ WorkerAnswer(w) \/ WorkerGiveUp(w) \/ WorkerJoin(w)
    \/ WorkerReport(w) \/ WorkerClaim(w)

LEMMA InitInv == Init => IInv
<1> SUFFICES ASSUME Init PROVE IInv
  OBVIOUS
<1> USE RootIsRank, AnswerIsResult DEF Init
<1>1. WorkersHoldAnswer /\ WorkerResults
  BY DEF WorkersHoldAnswer, WorkerResults
<1>2. GoodMessages
  BY DEF GoodMessages
<1>3. RootThreads /\ NoTimeoutYet /\ EndsAfterBcast
  BY DEF RootThreads, NoTimeoutYet, EndsAfterBcast, AfterBcast
<1>4. JoinHoldsAnswer /\ AnswerNotLost /\ ResultHasModel
  BY DEF JoinHoldsAnswer, AnswerNotLost, ResultHasModel, Joining
<1>5. StopIsLast
  <2> SUFFICES ASSUME NEW r \in Ranks \ {Root} PROVE DOMAIN chan[<<Root, r>>] = {}
    BY DEF StopIsLast
  <2> QED
    BY DEF Link
<1> QED
  BY <1>1, <1>2, <1>3, <1>4, <1>5 DEF IInv

\* A step that leaves res alone, keeps every pending report and leaves join
\* only after the end loses nothing.
LEMMA NotLostFrame ==
    ASSUME AnswerNotLost,
           UNCHANGED res,
           \A q \in Ranks : ReportPending(q) => ReportPending(q)' \/ globalEnding'[Root],
           globalEnding[Root] => globalEnding'[Root],
           Joining => Joining' \/ globalEnding'[Root]
    PROVE  AnswerNotLost'
<1>1. SUFFICES ASSUME NEW r \in Ranks, res'[r] # "UNKNOWN", ~globalEnding'[Root]
      PROVE  (\/ Joining
              \/ ReportPending(Root)
              \/ r # Root /\ res[Root] = "UNKNOWN" /\ ReportPending(r))'
  BY DEF AnswerNotLost
<1>2. \/ Joining
      \/ ReportPending(Root)
      \/ r # Root /\ res[Root] = "UNKNOWN" /\ ReportPending(r)
  BY <1>1 DEF AnswerNotLost
<1> QED
  BY <1>1, <1>2, RootIsRank

LEMMA QuietNotLost ==
    ASSUME AnswerNotLost,
           UNCHANGED <<res, chan>>,
           \A v \in Worker : wPc[v] = "send" => wPc'[v] = "send",
           globalEnding[Root] => globalEnding'[Root],
           Joining => Joining' \/ globalEnding'[Root]
    PROVE  AnswerNotLost'
<1>1. \A q \in Ranks : ReportPending(q) => ReportPending(q)'
  BY DEF ReportPending, HasReport
<1> QED
  BY <1>1, NotLostFrame

LEMMA QuietMainInv ==
    ASSUME TypeOK, IInv, NEW r \in Ranks, QuietMain(r)
    PROVE  IInv'
<1> USE RootIsRank DEF TypeOK, MainGo, MainAt
<1>1. /\ UNCHANGED <<res, rootVars, chan, commPc, wVars>>
      /\ \A q \in Ranks : globalEnding[q] => globalEnding'[q]
      /\ mainPc[Root] \in AfterBcast => mainPc'[Root] \in AfterBcast
  BY DEF QuietMain, MainSolved, MainPrint, MainPoll, MainWake, MainTimeout,
         MainBarrier, MainJoinComm, MainExit, AfterBcast
<1>2. (WorkersHoldAnswer /\ WorkerResults /\ JoinHoldsAnswer)'
  BY <1>1 DEF IInv, WorkersHoldAnswer, WorkerResults, JoinHoldsAnswer, Joining,
              wVars, rootVars
<1>3. GoodMessages'
  BY <1>1 DEF IInv, GoodMessages, GoodMessage
<1>4. (RootThreads /\ NoTimeoutYet /\ EndsAfterBcast)'
  BY <1>1 DEF IInv, RootThreads, NoTimeoutYet, EndsAfterBcast, AfterBcast, rootVars,
         QuietMain, MainSolved, MainPrint, MainPoll, MainWake, MainTimeout,
         MainBarrier, MainJoinComm, MainExit
<1>5. AnswerNotLost'
  BY <1>1 DEF IInv, AnswerNotLost, Joining, ReportPending, HasReport, wVars
<1>6. (ResultHasModel /\ (~HasTimeout => StopIsLast))'
  BY <1>1 DEF IInv, ResultHasModel, StopIsLast, rootVars
<1> QED
  BY <1>2, <1>3, <1>4, <1>5, <1>6 DEF IInv

LEMMA QuietCommInv ==
    ASSUME TypeOK, IInv, NEW r \in Ranks, QuietComm(r)
    PROVE  IInv'
<1> USE RootIsRank DEF TypeOK, CommGo, CommAt
<1>1. /\ UNCHANGED <<res, model, joining, chan, mainPc, wVars>>
      /\ \A q \in Ranks : globalEnding[q] => globalEnding'[q]
  BY DEF QuietComm, CommLoop, CommDrained, JoinTest, JoinEnding, JoinResult,
         JoinModel, rootVars
<1>2. (WorkersHoldAnswer /\ WorkerResults /\ GoodMessages)'
  BY <1>1 DEF IInv, WorkersHoldAnswer, WorkerResults, GoodMessages, GoodMessage,
              wVars
<1>3. JoinHoldsAnswer'
  <2> USE <1>1 DEF IInv, JoinHoldsAnswer, Joining
  <2>1. CASE CommLoop(r) \/ CommDrained(r)
    BY <2>1 DEF CommLoop, CommDrained, rootVars
  <2>2. CASE r = Root /\ (JoinTest \/ JoinEnding)
    BY <2>2 DEF JoinTest, JoinEnding, rootVars
  <2>3. CASE r = Root /\ (JoinResult \/ JoinModel)
    BY <2>3 DEF JoinResult, JoinModel
  <2> QED
    BY <2>1, <2>2, <2>3 DEF QuietComm
<1>4. (RootThreads /\ NoTimeoutYet /\ EndsAfterBcast)'
  BY <1>1, AnswerIsResult
     DEF IInv, RootThreads, NoTimeoutYet, EndsAfterBcast, AfterBcast, rootVars,
         JoinHoldsAnswer, Joining, QuietComm, CommLoop, CommDrained, JoinTest,
         JoinEnding, JoinResult, JoinModel
<1>5. AnswerNotLost'
  <2>1. Joining => Joining' \/ globalEnding'[Root]
    BY AnswerIsResult
       DEF IInv, RootThreads, JoinHoldsAnswer, Joining, QuietComm, CommLoop,
           CommDrained, JoinTest, JoinEnding, JoinResult, JoinModel, rootVars
  <2> QED
    BY <1>1, <2>1, QuietNotLost DEF IInv, wVars
<1>6. ResultHasModel'
  <2>1. CASE r = Root /\ (JoinResult \/ JoinModel)
    BY <2>1, <1>1 DEF IInv, ResultHasModel, JoinHoldsAnswer, Joining, JoinResult,
                      JoinModel
  <2>2. CASE CommLoop(r) \/ CommDrained(r) \/ (r = Root /\ (JoinTest \/ JoinEnding))
    <3>1. UNCHANGED <<finalResult, finalModel>>
      BY <2>2 DEF CommLoop, CommDrained, JoinTest, JoinEnding, rootVars
    <3>2. commPc[Root] = "model" <=> commPc'[Root] = "model"
      BY <2>2 DEF CommLoop, CommDrained, JoinTest, JoinEnding
    <3> QED
      BY <3>1, <3>2 DEF IInv, ResultHasModel
  <2> QED
    BY <2>1, <2>2 DEF QuietComm
<1>7. (~HasTimeout => StopIsLast)'
  BY <1>1 DEF IInv, StopIsLast
<1> QED
  BY <1>2, <1>3, <1>4, <1>5, <1>6, <1>7 DEF IInv

LEMMA QuietWorkerInv ==
    ASSUME TypeOK, IInv, NEW w \in Worker, QuietWorker(w)
    PROVE  IInv'
<1> USE RootIsRank, AnswerIsResult, RankOfAssumption
    DEF TypeOK, WorkerGo, WorkerAt, Again
<1>1. /\ UNCHANGED <<globalEnding, rootVars, chan, mainPc, commPc>>
      /\ \A v \in Worker : wPc[v] = "send" => wPc'[v] = "send"
  BY DEF QuietWorker, WorkerTop, WorkerAnswer, WorkerGiveUp, WorkerJoin,
         WorkerReport, WorkerClaim
<1>2. (WorkersHoldAnswer /\ WorkerResults)'
  <2> USE DEF IInv, WorkersHoldAnswer, WorkerResults
  <2>1. CASE WorkerTop(w) \/ WorkerClaim(w)
    BY <2>1 DEF WorkerTop, WorkerClaim
  <2>2. CASE WorkerAnswer(w) \/ WorkerGiveUp(w)
    BY <2>2 DEF WorkerAnswer, WorkerGiveUp
  <2>3. CASE WorkerJoin(w)
    BY <2>3 DEF WorkerJoin
  <2>4. CASE WorkerReport(w)
    BY <2>4 DEF WorkerReport
  <2> QED
    BY <2>1, <2>2, <2>3, <2>4 DEF QuietWorker
<1>3. (GoodMessages /\ RootThreads /\ JoinHoldsAnswer /\ NoTimeoutYet)'
  BY <1>1 DEF IInv, GoodMessages, GoodMessage, RootThreads, JoinHoldsAnswer,
              Joining, NoTimeoutYet, rootVars
<1>4. (EndsAfterBcast /\ ResultHasModel /\ (~HasTimeout => StopIsLast))'
  BY <1>1 DEF IInv, EndsAfterBcast, ResultHasModel, StopIsLast, rootVars
<1>5. AnswerNotLost'
  <2>1. CASE WorkerClaim(w)
    <3>1. wPc'[w] = "send" /\ res' = [res EXCEPT ![RankOf[w]] = wRes[w]]
      BY <2>1 DEF WorkerClaim
    <3> QED
      BY <1>1, <3>1 DEF IInv, AnswerNotLost, Joining, ReportPending, HasReport
  <2>2. CASE ~WorkerClaim(w)
    <3>1. res' = res
      BY <2>2 DEF QuietWorker, WorkerTop, WorkerAnswer, WorkerGiveUp, WorkerJoin,
                  WorkerReport
    <3> QED
      BY <1>1, <3>1 DEF IInv, AnswerNotLost, Joining, ReportPending, HasReport
  <2> QED
    BY <2>1, <2>2
<1> QED
  BY <1>2, <1>3, <1>4, <1>5 DEF IInv

-----------------------------------------------------------------------------
\* The steps that send.

\* The root sends message m, which is neither REPORT nor STOP, to the ranks of
\* dsts before it has broadcast.
LEMMA RootSendInv ==
    ASSUME TypeOK, IInv, NEW dsts, NEW m \in Message,
           m.tag \notin {"REPORT", "STOP"},
           chan' = Sent(Root, dsts, m),
           UNCHANGED <<globalEnding, res, model, joining, finalResult, finalModel, wPc, wRes>>,
           mainPc[Root] \in AfterBcast => mainPc'[Root] \in AfterBcast,
           ~HasTimeout => mainPc[Root] \notin AfterBcast,
           RootThreads', NoTimeoutYet', JoinHoldsAnswer', Joining => Joining',
           commPc'[Root] = "model" <=> commPc[Root] = "model"
    PROVE  IInv'
<1> USE RootIsRank
<1>1. (WorkersHoldAnswer /\ WorkerResults /\ EndsAfterBcast /\ ResultHasModel)'
  BY DEF IInv, WorkersHoldAnswer, WorkerResults, EndsAfterBcast, ResultHasModel
<1>2. GoodMessages'
  BY SendKeepsGood DEF IInv, TypeOK
<1>3. AnswerNotLost'
  <2>1. \A l \in Link : HasReport(l) => HasReport(l)'
    BY SendKeepsReports DEF TypeOK
  <2>2. \A q \in Ranks : ReportPending(q) => ReportPending(q)'
    BY <2>1 DEF ReportPending, Link
  <2> QED
    BY <2>2, NotLostFrame DEF IInv
<1>4. (~HasTimeout => StopIsLast)'
  <2> SUFFICES ASSUME ~HasTimeout PROVE StopIsLast'
    OBVIOUS
  <2>1. \A l \in Link : \A i \in DOMAIN chan[l] : chan[l][i].tag # "STOP"
    BY DEF IInv, GoodMessages, GoodMessage
  <2> DEFINE d == dsts \cap Ranks
  <2>2. \A r \in d \ {Root} :
            \A i \in DOMAIN chan[<<Root, r>>] : chan[<<Root, r>>][i].tag # "STOP"
    BY <2>1 DEF Link
  <2>3. chan' = Sent(Root, d, m)
    BY DEF Sent, Link
  <2>4. chan \in [Link -> Seq(Message)] /\ StopIsLast
    BY DEF TypeOK, IInv
  <2> HIDE DEF d
  <2> QED
    BY <2>2, <2>3, <2>4, SendKeepsStopLast
<1> QED
  BY <1>1, <1>2, <1>3, <1>4 DEF IInv

LEMMA SendCubeInv == ASSUME TypeOK, IInv, MainSendCube PROVE IInv'
<1>1. /\ mainPc[Root] = "solve" /\ mainPc' = mainPc /\ commPc' = commPc
      /\ chan' = Sent(Root, {cubesSent}, Cube) /\ (strategyEnding' => strategyEnding)
      /\ UNCHANGED <<globalEnding, res, model, joining, finalResult, finalModel, wPc, wRes>>
  BY DEF MainSendCube, MainAt, wVars, TypeOK
<1>2. (RootThreads /\ NoTimeoutYet /\ JoinHoldsAnswer)' /\ (Joining => Joining')
  BY <1>1 DEF IInv, RootThreads, NoTimeoutYet, JoinHoldsAnswer, Joining
<1>3. Cube \in Message /\ Cube.tag = "CUBE"
  BY MessageTypes DEF Cube
<1> QED
  BY <1>1, <1>2, <1>3, RootSendInv DEF AfterBcast

LEMMA MainInterruptInv ==
    ASSUME TypeOK, IInv, NEW r \in Ranks, MainInterrupt(r) PROVE IInv'
<1> USE RootIsRank
<1>1. CASE r = Root
  <2>1. /\ mainPc[Root] = "interrupt" /\ mainPc' = [mainPc EXCEPT ![Root] = "poll"]
        /\ UNCHANGED <<commPc, strategyEnding>> /\ chan' = Sent(Root, Ranks, Interrupt)
        /\ UNCHANGED <<globalEnding, res, model, joining, finalResult, finalModel, wPc, wRes>>
    BY <1>1 DEF MainInterrupt, MainAt, MainGo, wVars, rootVars
  <2>2. (RootThreads /\ NoTimeoutYet /\ JoinHoldsAnswer)' /\ (Joining => Joining')
    BY <2>1 DEF IInv, RootThreads, NoTimeoutYet, JoinHoldsAnswer, Joining, TypeOK, AfterBcast
  <2>3. Interrupt \in Message /\ Interrupt.tag = "INTERRUPT"
    BY MessageTypes DEF Interrupt
  <2> QED
    BY <2>1, <2>2, <2>3, RootSendInv DEF AfterBcast, IInv, NoTimeoutYet
<1>2. CASE r # Root
  <2>1. /\ mainPc[r] = "interrupt" /\ mainPc'[Root] = mainPc[Root]
        /\ mainPc' = [mainPc EXCEPT ![r] = "crashed"]
        /\ UNCHANGED <<globalEnding, res, rootVars, chan, commPc, wVars>>
    BY <1>2 DEF MainInterrupt, MainAt, MainGo, TypeOK
  <2>2. (WorkersHoldAnswer /\ WorkerResults /\ JoinHoldsAnswer /\ EndsAfterBcast)'
    BY <2>1 DEF IInv, WorkersHoldAnswer, WorkerResults, JoinHoldsAnswer, Joining,
                EndsAfterBcast, wVars, rootVars
  <2>3. (GoodMessages /\ ResultHasModel /\ (~HasTimeout => StopIsLast))'
    BY <2>1 DEF IInv, GoodMessages, GoodMessage, ResultHasModel, StopIsLast, rootVars
  <2>4. (RootThreads /\ NoTimeoutYet)'
    BY <2>1 DEF IInv, RootThreads, NoTimeoutYet, rootVars, TypeOK
  <2>5. AnswerNotLost'
    BY <2>1, QuietNotLost DEF IInv, Joining, wVars
  <2> QED
    BY <2>2, <2>3, <2>4, <2>5 DEF IInv
<1> QED
  BY <1>1, <1>2

LEMMA JoinInterruptInv == ASSUME TypeOK, IInv, JoinInterrupt PROVE IInv'
<1> USE RootIsRank
<1>1. /\ commPc[Root] = "interrupt" /\ commPc' = [commPc EXCEPT ![Root] = "ending"]
      /\ UNCHANGED <<mainPc, strategyEnding>> /\ chan' = Sent(Root, Ranks, Interrupt)
      /\ UNCHANGED <<globalEnding, res, model, joining, finalResult, finalModel, wPc, wRes>>
  BY DEF JoinInterrupt, CommAt, CommGo, wVars, rootVars
<1>2. (RootThreads /\ NoTimeoutYet /\ JoinHoldsAnswer)' /\ (Joining => Joining')
  BY <1>1 DEF IInv, RootThreads, NoTimeoutYet, JoinHoldsAnswer, Joining, TypeOK
<1>3. ~HasTimeout => mainPc[Root] \notin AfterBcast
  BY <1>1 DEF IInv, RootThreads, NoTimeoutYet
<1>4. Interrupt \in Message /\ Interrupt.tag = "INTERRUPT"
  BY MessageTypes DEF Interrupt
<1>5. commPc'[Root] = "model" <=> commPc[Root] = "model"
  BY <1>1 DEF TypeOK
<1> QED
  BY <1>1, <1>2, <1>3, <1>4, <1>5, RootSendInv

LEMMA BcastInv == ASSUME TypeOK, IInv, MainBcast PROVE IInv'
<1> USE RootIsRank
<1> DEFINE m == Stop(res[Root])
<1>1. /\ mainPc[Root] = "bcast" /\ mainPc' = [mainPc EXCEPT ![Root] = "print"]
      /\ chan' = Sent(Root, Ranks \ {Root}, m)
      /\ UNCHANGED <<globalEnding, res, rootVars, commPc, wVars>>
  BY DEF MainBcast, MainAt, MainGo
<1>2. m \in Message /\ m.tag = "STOP"
  BY MessageTypes DEF TypeOK, Stop
<1>3. mainPc'[Root] = "print"
  BY <1>1 DEF TypeOK
<1>4. (WorkersHoldAnswer /\ WorkerResults /\ JoinHoldsAnswer /\ ResultHasModel)'
  BY <1>1 DEF IInv, WorkersHoldAnswer, WorkerResults, JoinHoldsAnswer, Joining,
              ResultHasModel, wVars, rootVars
<1>5. GoodMessages'
  BY <1>1, <1>2, <1>3, SendKeepsGood DEF IInv, TypeOK, AfterBcast
<1>6. (RootThreads /\ NoTimeoutYet /\ EndsAfterBcast)'
  BY <1>1, <1>3 DEF IInv, RootThreads, NoTimeoutYet, EndsAfterBcast, rootVars, TypeOK,
                    AfterBcast
<1>7. AnswerNotLost'
  BY <1>1 DEF IInv, AnswerNotLost, RootThreads
<1>8. (~HasTimeout => StopIsLast)'
  <2>1. \A l \in Link : \A i \in DOMAIN chan[l] : chan[l][i].tag # "STOP"
    BY <1>1 DEF IInv, GoodMessages, GoodMessage, AfterBcast
  <2> DEFINE d == Ranks \ {Root}
  <2>2. \A r \in d \ {Root} :
            \A i \in DOMAIN chan[<<Root, r>>] : chan[<<Root, r>>][i].tag # "STOP"
    BY <2>1 DEF Link
  <2>3. chan' = Sent(Root, d, m) /\ chan \in [Link -> Seq(Message)]
    BY <1>1 DEF TypeOK
  <2> HIDE DEF m, d
  <2> QED
    BY <1>2, <2>2, <2>3, SendKeepsStopLast DEF IInv
<1> QED
  BY <1>4, <1>5, <1>6, <1>7, <1>8 DEF IInv

LEMMA WorkerSendInv == ASSUME TypeOK, IInv, NEW w \in Worker, WorkerSend(w) PROVE IInv'
<1> USE RootIsRank, RankOfAssumption
<1> DEFINE m == Report(wRes[w], IF wRes[w] = "SAT" THEN w ELSE NoModel)
<1>1. /\ wPc[w] = "send" /\ wPc' = [wPc EXCEPT ![w] = "top"]
      /\ wRes' = [wRes EXCEPT ![w] = "UNKNOWN"] /\ chan' = Sent(RankOf[w], {Root}, m)
      /\ UNCHANGED <<globalEnding, res, rootVars, mainPc, commPc>>
  BY DEF WorkerSend, WorkerAt, Again, WorkerGo
<1>2. /\ m \in Message /\ m.tag = "REPORT" /\ m.res = Answer
      /\ m.res = "SAT" => m.model # NoModel
  BY <1>1, MessageTypes, NoModelAssumption
     DEF TypeOK, Report, Model, IInv, WorkersHoldAnswer
<1>3. (WorkersHoldAnswer /\ WorkerResults)'
  BY <1>1 DEF IInv, WorkersHoldAnswer, WorkerResults, TypeOK
<1>4. GoodMessages'
  BY <1>1, <1>2, SendKeepsGood DEF IInv, TypeOK
<1>5. (RootThreads /\ NoTimeoutYet /\ EndsAfterBcast /\ JoinHoldsAnswer /\ ResultHasModel)'
  BY <1>1 DEF IInv, RootThreads, NoTimeoutYet, EndsAfterBcast, JoinHoldsAnswer, Joining,
              ResultHasModel, rootVars
<1>6. AnswerNotLost'
  <2>1. \A l \in Link : HasReport(l) => HasReport(l)'
    BY <1>1, <1>2, SendKeepsReports DEF TypeOK
  <2>2. HasReport(<<RankOf[w], Root>>)'
    <3> DEFINE l == <<RankOf[w], Root>>
    <3>1. l \in Link /\ chan'[l] = Append(chan[l], m) /\ chan[l] \in Seq(Message)
      BY <1>1 DEF Sent, Link, TypeOK
    <3>2. Len(chan[l]) + 1 \in DOMAIN chan'[l] /\ chan'[l][Len(chan[l]) + 1] = m
      BY <3>1, <1>2, AppendFacts
    <3> QED
      BY <3>2, <1>2 DEF HasReport
  <2>3. \A q \in Ranks : ReportPending(q) => ReportPending(q)'
    BY <1>1, <2>1, <2>2 DEF ReportPending, Link, TypeOK
  <2> QED
    BY <1>1, <2>3, NotLostFrame DEF IInv, Joining
<1>7. (~HasTimeout => StopIsLast)'
  BY <1>1, <1>2, SendKeepsStopLast DEF IInv, TypeOK
<1> QED
  BY <1>3, <1>4, <1>5, <1>6, <1>7 DEF IInv

-----------------------------------------------------------------------------
\* The steps that receive.

\* A communicator takes the first message of link k, which is no report to the
\* root, or finds that its search has ended.
Take(k) ==
    /\ chan[k] # <<>> /\ chan' = Received(k)
    /\ k[2] = Root => Head(chan[k]).tag # "REPORT" \/ globalEnding[Root]
    /\ UNCHANGED <<globalEnding, res, rootVars, mainPc, commPc, wRes>>
    /\ \A w \in Worker : \/ wPc'[w] = wPc[w]
                         \/ wPc'[w] = "solving" /\ wPc[w] = "wait"

LEMMA TakeInv == ASSUME TypeOK, IInv, NEW k \in Link, Take(k) PROVE IInv'
<1> USE RootIsRank DEF Take
<1>1. (WorkersHoldAnswer /\ WorkerResults /\ EndsAfterBcast /\ ResultHasModel)'
  BY DEF IInv, WorkersHoldAnswer, WorkerResults, EndsAfterBcast, ResultHasModel, rootVars
<1>2. GoodMessages'
  BY ReceiveKeepsGood DEF IInv, TypeOK
<1>3. (RootThreads /\ NoTimeoutYet /\ JoinHoldsAnswer)'
  BY DEF IInv, RootThreads, NoTimeoutYet, JoinHoldsAnswer, Joining, rootVars
<1>4. AnswerNotLost'
  <2>1. CASE globalEnding[Root]
    BY <2>1 DEF AnswerNotLost
  <2>2. CASE ~globalEnding[Root]
    <3>1. \A q \in Ranks : HasReport(<<q, Root>>) => HasReport(<<q, Root>>)'
      BY <2>2, ReceiveKeepsReports DEF TypeOK, Link
    <3>2. \A q \in Ranks : ReportPending(q) => ReportPending(q)'
      BY <3>1 DEF ReportPending
    <3> QED
      BY <3>2, NotLostFrame DEF IInv, Joining
  <2> QED
    BY <2>1, <2>2
<1>5. (~HasTimeout => StopIsLast)'
  BY ReceiveKeepsStopLast DEF IInv, TypeOK
<1> QED
  BY <1>1, <1>2, <1>3, <1>4, <1>5 DEF IInv

LEMMA DiscardInv ==
    ASSUME TypeOK, IInv, NEW s \in Ranks, NEW r \in Ranks, CommDiscard(s, r)
    PROVE  IInv'
<1>1. <<s, r>> \in Link /\ Take(<<s, r>>)
  BY DEF CommDiscard, Link, Take, wVars
<1> QED
  BY <1>1, TakeInv

LEMMA CubeInv ==
    ASSUME TypeOK, IInv, NEW s \in Ranks, NEW r \in Ranks, CommCube(s, r)
    PROVE  IInv'
<1>1. <<s, r>> \in Link /\ Take(<<s, r>>)
  BY DEF CommCube, Link, Take, Probes, SlavesSolve
<1> QED
  BY <1>1, TakeInv

LEMMA InterruptInv ==
    ASSUME TypeOK, IInv, NEW s \in Ranks, NEW r \in Ranks, CommInterrupt(s, r)
    PROVE  IInv'
<1>1. <<s, r>> \in Link /\ Take(<<s, r>>)
  BY DEF CommInterrupt, Link, Take, Probes, SlavesInterrupt
<1> QED
  BY <1>1, TakeInv

LEMMA StopInv ==
    ASSUME TypeOK, IInv, NEW s \in Ranks, NEW r \in Ranks, CommStop(s, r)
    PROVE  IInv'
<1> USE RootIsRank
<1> DEFINE k == <<s, r>>
<1>1. /\ k \in Link /\ chan[k] # <<>> /\ chan' = Received(k)
      /\ Head(chan[k]).tag = "STOP"
      /\ globalEnding' = [globalEnding EXCEPT ![r] = TRUE]
      /\ UNCHANGED <<rootVars, mainPc, commPc, wVars>>
  BY DEF CommStop, Probes, Link
<1>2. GoodMessages' /\ GoodMessage(k, Head(chan[k]))
  <2> HIDE DEF k
  <2> QED
    BY <1>1, ReceiveKeepsGood DEF IInv, TypeOK
<1>3. r # Root /\ mainPc[Root] \in AfterBcast /\ globalEnding[Root]
  BY <1>1, <1>2 DEF GoodMessage, IInv, RootThreads
<1>4. globalEnding'[Root] = globalEnding[Root]
  BY <1>1, <1>3 DEF TypeOK
<1>5. (WorkersHoldAnswer /\ WorkerResults /\ EndsAfterBcast /\ ResultHasModel)'
  BY <1>1, <1>3 DEF IInv, WorkersHoldAnswer, WorkerResults, EndsAfterBcast,
                    ResultHasModel, rootVars, wVars
<1>6. (RootThreads /\ NoTimeoutYet /\ JoinHoldsAnswer)'
  BY <1>1, <1>4 DEF IInv, RootThreads, NoTimeoutYet, JoinHoldsAnswer, Joining, rootVars
<1>7. AnswerNotLost'
  BY <1>3, <1>4 DEF AnswerNotLost
<1>8. (~HasTimeout => StopIsLast)'
  <2> HIDE DEF k
  <2> QED
    BY <1>1, ReceiveKeepsStopLast DEF IInv, TypeOK
<1> QED
  BY <1>2, <1>5, <1>6, <1>7, <1>8 DEF IInv

LEMMA ReportInv ==
    ASSUME TypeOK, IInv, NEW s \in Ranks, CommReport(s) PROVE IInv'
<1> USE RootIsRank, AnswerIsResult
<1> DEFINE k == <<s, Root>>
           m == Head(chan[k])
<1>1. /\ k \in Link /\ chan[k] # <<>> /\ chan' = Received(k)
      /\ m.tag = "REPORT" /\ commPc[Root] = "recv" /\ ~globalEnding[Root]
      /\ UNCHANGED <<globalEnding, strategyEnding, finalResult, finalModel, mainPc, wVars>>
  BY DEF CommReport, Probes, Link, CommAt
<1>2. GoodMessages' /\ GoodMessage(k, m)
  <2> HIDE DEF k
  <2> QED
    BY <1>1, ReceiveKeepsGood DEF IInv, TypeOK
<1>3. m.res = Answer /\ (m.res = "SAT" => m.model # NoModel)
  BY <1>1, <1>2 DEF GoodMessage
<1>4. (WorkersHoldAnswer /\ WorkerResults /\ EndsAfterBcast)'
  BY <1>1 DEF IInv, WorkersHoldAnswer, WorkerResults, EndsAfterBcast, wVars
<1>5. commPc' = commPc \/ commPc' = [commPc EXCEPT ![Root] = "join"]
  BY DEF CommReport, CommGo
<1>6. (RootThreads /\ NoTimeoutYet /\ ResultHasModel)'
  BY <1>1, <1>5 DEF IInv, RootThreads, NoTimeoutYet, ResultHasModel, TypeOK
<1>7. (~HasTimeout => StopIsLast)'
  <2> HIDE DEF k
  <2> QED
    BY <1>1, ReceiveKeepsStopLast DEF IInv, TypeOK
<1>8. CASE Loses(s)
  <2>1. UNCHANGED <<res, model, joining, commPc>>
    BY <1>8 DEF CommReport
  <2>2. JoinHoldsAnswer'
    BY <1>1, <2>1 DEF IInv, JoinHoldsAnswer, Joining
  <2>3. AnswerNotLost'
    <3>1. <<Root, Root>> \in Link /\ <<Root, Root>> # k
      BY <1>8 DEF Loses, Link
    <3>2. HasReport(<<Root, Root>>) => HasReport(<<Root, Root>>)'
      <4> HIDE DEF k
      <4> QED
        BY <1>1, <3>1, ReceiveKeepsReports DEF TypeOK
    <3>3. ReportPending(Root)
      BY <1>1, <1>8 DEF IInv, AnswerNotLost, Joining, Loses
    <3>4. ReportPending(Root)'
      BY <1>1, <3>2, <3>3 DEF ReportPending, wVars
    <3> QED
      BY <3>4 DEF AnswerNotLost
  <2> QED
    BY <1>2, <1>4, <1>6, <1>7, <2>2, <2>3 DEF IInv
<1>9. CASE ~Loses(s)
  <2>1. /\ joining' = m.res /\ commPc' = [commPc EXCEPT ![Root] = "join"]
        /\ model' = IF m.model = NoModel THEN model ELSE m.model
    BY <1>9 DEF CommReport, CommGo
  <2>2. commPc'[Root] = "join"
    BY <2>1 DEF TypeOK
  <2>3. JoinHoldsAnswer' /\ AnswerNotLost'
    BY <1>3, <2>1, <2>2 DEF JoinHoldsAnswer, Joining, AnswerNotLost
  <2> QED
    BY <1>2, <1>4, <1>6, <1>7, <2>3 DEF IInv
<1> QED
  BY <1>8, <1>9

LEMMA CleanInv ==
    ASSUME TypeOK, IInv, NEW r \in Ranks, MainClean(r) PROVE IInv'
<1> USE RootIsRank
<1>1. /\ mainPc[r] = "clean" /\ mainPc' = [mainPc EXCEPT ![r] = "finalized"]
      /\ \A l \in Link : chan'[l] = IF l[2] = r THEN <<>> ELSE chan[l]
      /\ UNCHANGED <<globalEnding, res, rootVars, commPc, wVars>>
  BY DEF MainClean, MainAt, MainGo
<1>2. mainPc[Root] \in AfterBcast <=> mainPc'[Root] \in AfterBcast
  BY <1>1 DEF TypeOK, AfterBcast
<1>3. (WorkersHoldAnswer /\ WorkerResults /\ JoinHoldsAnswer /\ ResultHasModel)'
  BY <1>1 DEF IInv, WorkersHoldAnswer, WorkerResults, JoinHoldsAnswer, Joining,
              ResultHasModel, wVars, rootVars
<1>4. GoodMessages'
  BY <1>1, <1>2 DEF IInv, GoodMessages, GoodMessage
<1>5. (RootThreads /\ NoTimeoutYet /\ EndsAfterBcast)'
  BY <1>1, <1>2 DEF IInv, RootThreads, NoTimeoutYet, EndsAfterBcast, rootVars, TypeOK,
                    AfterBcast
<1>6. AnswerNotLost'
  <2>1. CASE r = Root
    BY <1>1, <2>1 DEF IInv, RootThreads, AnswerNotLost, AfterBcast
  <2>2. CASE r # Root
    <3>1. \A q \in Ranks : chan'[<<q, Root>>] = chan[<<q, Root>>]
      BY <1>1, <2>2 DEF Link
    <3>2. \A q \in Ranks : ReportPending(q) => ReportPending(q)'
      BY <1>1, <3>1 DEF ReportPending, HasReport, wVars
    <3> QED
      BY <1>1, <3>2, NotLostFrame DEF IInv, Joining
  <2> QED
    BY <2>1, <2>2
<1>7. (~HasTimeout => StopIsLast)'
  BY <1>1 DEF IInv, StopIsLast, Link
<1> QED
  BY <1>3, <1>4, <1>5, <1>6, <1>7 DEF IInv

-----------------------------------------------------------------------------
LEMMA StepInv == TypeOK /\ IInv /\ [Next]_vars => IInv'
<1> SUFFICES ASSUME TypeOK, IInv, [Next]_vars PROVE IInv'
  OBVIOUS
<1>1. ASSUME NEW r \in Ranks, MainStep(r) \/ MainTimeout(r) PROVE IInv'
  BY <1>1, QuietMainInv, SendCubeInv, BcastInv, MainInterruptInv, CleanInv
     DEF MainStep, QuietMain
<1>2. ASSUME NEW r \in Ranks, CommStep(r) PROVE IInv'
  BY <1>2, QuietCommInv, DiscardInv, CubeInv, InterruptInv, StopInv, ReportInv,
     JoinInterruptInv DEF CommStep, QuietComm
<1>3. ASSUME NEW w \in Worker, WorkerStep(w) \/ WorkerAnswer(w) \/ WorkerGiveUp(w)
      PROVE IInv'
  BY <1>3, QuietWorkerInv, WorkerSendInv DEF WorkerStep, QuietWorker
<1>4. CASE Terminated \/ UNCHANGED vars
  <2>1. UNCHANGED <<globalEnding, res, rootVars, chan, mainPc, commPc, wVars>>
    BY <1>4 DEF Terminated, vars
  <2>2. (WorkersHoldAnswer /\ WorkerResults /\ JoinHoldsAnswer /\ ResultHasModel)'
    BY <2>1 DEF IInv, WorkersHoldAnswer, WorkerResults, JoinHoldsAnswer, Joining,
                ResultHasModel, wVars, rootVars
  <2>3. (GoodMessages /\ RootThreads /\ NoTimeoutYet /\ EndsAfterBcast)'
    BY <2>1 DEF IInv, GoodMessages, GoodMessage, RootThreads, NoTimeoutYet,
                EndsAfterBcast, rootVars
  <2>4. (AnswerNotLost /\ (~HasTimeout => StopIsLast))'
    BY <2>1, QuietNotLost DEF IInv, StopIsLast, Joining, wVars
  <2> QED
    BY <2>2, <2>3, <2>4 DEF IInv
<1> QED
  BY <1>1, <1>2, <1>3, <1>4 DEF Next

\* The inductive invariant of every rank, link and thread.
THEOREM Invariance == Spec => []IInv
BY InitType, StepType, InitInv, StepInv, PTL DEF Spec

\* No answer is lost: as long as the root searches, a rank that has set res has
\* a report under way that the root will take.
THEOREM NoAnswerLost == Spec => []AnswerNotLost
<1>1. IInv => AnswerNotLost
  BY DEF IInv
<1> QED
  BY <1>1, Invariance, PTL

\* The root's final result is the solvers' answer, and one that is SAT comes
\* with a model.
THEOREM ResultWithModel == Spec => []ResultHasModel
<1>1. IInv => ResultHasModel
  BY DEF IInv
<1> QED
  BY <1>1, Invariance, PTL

\* Without a time limit STOP is the last message the root sends to a rank.
THEOREM StopComesLast == ASSUME ~HasTimeout PROVE Spec => []StopIsLast
<1>1. IInv => StopIsLast
  BY DEF IInv
<1> QED
  BY <1>1, Invariance, PTL

\* Without a time limit no rank stops before the root has broadcast STOP.
THEOREM RootStopsAll == ASSUME ~HasTimeout PROVE Spec => []OnlyRootStops
<1>1. TypeOK /\ IInv => OnlyRootStops
  BY RootIsRank DEF IInv, EndsAfterBcast, RootThreads, OnlyRootStops, AfterBcast
<1> QED
  BY <1>1, Invariance, TypeCorrect, PTL

=============================================================================
