------------------------------ MODULE DeskProofs ------------------------------
(***************************************************************************)
(* The promises of the desk, for any number of requests, any questions and *)
(* any worlds.  A plan with a direction is warranted by the context it was *)
(* answered from, and the journal row it cites tells the same story        *)
(* (DeskInv); the tables hold one row for each thing answered (AnswersIInv)*)
(* and a reply was earned from its context (RepliesInv), so worse input    *)
(* never makes a plan; the two scales of the audit agree on every debate,  *)
(* its consensus takes no side (FairInv), and no two pools are closer than *)
(* the tolerance that tells them apart (PoolInv).                          *)
(***************************************************************************)
EXTENDS Desk, SequenceTheorems, FiniteSetTheorems, WellFoundedInduction, TLAPS

(* An answer exists only once it is given, and every job, context and row
   has the fields the steps read. *)
Answering == {"persist", "done"}
NotYet(j) == j.pc \notin Answering => j.reply = NoReply
JobShape(j) == DOMAIN j = {"pc", "q", "ctx", "reply"}
CtxShape(ctx) ==
  {"bid", "ask", "snapshot", "price"} \subseteq DOMAIN ctx /\ ctx.bid \in Nat /\ ctx.ask \in Nat
JobOK(j) == JobShape(j) /\ CtxShape(j.ctx) /\ NotYet(j)

JobsOK == DOMAIN job = Askers /\ \A a \in Askers : JobOK(job[a])
FeedOK ==
  /\ quotes \in Seq(QuoteRow)
  /\ "market" \in DOMAIN world /\ world.market.feeds \subseteq QuoteRow
JournalOK == \E S : journal \in Seq(S)
Shape == JobsOK /\ FeedOK /\ JournalOK

-----------------------------------------------------------------------------
(* The gates: what a direction in the reply implies. *)

LEMMA AlwaysCalled ==
  ASSUME NEW q
  PROVE  {"quant-architect", "liquidity-analyst"} \subseteq AgentsFor(q)
  BY DEF AgentsFor, AlwaysOn

LEMMA NoVetoMeans ==
  ASSUME NEW q, NEW ctx, CtxShape(ctx), ~Vetoed(Opinions(AgentsFor(q), ctx))
  PROVE  /\ ~(ctx.quality < 400)
         /\ Known(ctx.bid) /\ Known(ctx.ask) /\ ctx.ask > ctx.bid => SpreadBelow(ctx, 20)
  <1> DEFINE ops == Opinions(AgentsFor(q), ctx)
  <1>1. /\ ops["quant-architect"] = SpecialistFuncs("quant-architect", ctx)
        /\ ops["liquidity-analyst"] = SpecialistFuncs("liquidity-analyst", ctx)
        /\ {"quant-architect", "liquidity-analyst"} \subseteq DOMAIN ops
    BY AlwaysCalled DEF Opinions
  <1>2. /\ SpecialistFuncs("quant-architect", ctx) = Quant(ctx)
        /\ SpecialistFuncs("liquidity-analyst", ctx) = LiquidityDesk(ctx)
    BY DEF SpecialistFuncs
  <1>3. Quant(ctx).stance # "REJECT" /\ LiquidityDesk(ctx).stance # "REJECT"
    BY <1>1, <1>2 DEF Vetoed
  <1>4. ~(ctx.quality < 400)
    BY <1>3 DEF Quant, Opinion
  <1>5. ASSUME Known(ctx.bid) /\ Known(ctx.ask) /\ ctx.ask > ctx.bid
        PROVE  SpreadBelow(ctx, 5) \/ SpreadBelow(ctx, 20)
    BY <1>3, <1>5 DEF LiquidityDesk, Opinion
  <1>6. SpreadBelow(ctx, 5) => SpreadBelow(ctx, 20)
    BY DEF SpreadBelow, CtxShape
  <1> QED
    BY <1>4, <1>5, <1>6

LEMMA TradeMeans ==
  ASSUME NEW ctx, Decide(ctx) = "TRADE", Known(ctx.price)
  PROVE  /\ ctx.swept
         /\ ctx.buy \cup ctx.sell # {}
         /\ \E rr \in RewardRisks(ctx) : ~(rr[1] < 2 * rr[2])
         /\ ~Chasing(ctx)
         /\ ctx.snapshot # "RED_LIGHT"
  <1>1. /\ ctx.snapshot # "RED_LIGHT" /\ Known(PoolDistance(ctx)) /\ ctx.swept
        /\ ~Chasing(ctx) /\ ~BestRRBelowTwo(ctx)
    BY DEF Decide
  <1>2. ctx.buy \cup ctx.sell # {}
    BY <1>1 DEF PoolDistance, Known
  <1> QED
    BY <1>1, <1>2 DEF BestRRBelowTwo

(* PlanIsWarranted, of one context. *)
LEMMA DirectionIsWarranted ==
  ASSUME NEW q, NEW ctx, CtxShape(ctx),
         Plan(ctx, Opinions(AgentsFor(q), ctx)) \in Directions
  PROVE  Warranted(ctx)
  <1> DEFINE ops == Opinions(AgentsFor(q), ctx)
  <1> HIDE DEF ops
  <1>1. ~Blocked(ctx, ops) /\ Decide(ctx) = "TRADE"
    BY DEF Plan, Directions, ops
  <1>2. Known(ctx.price) /\ ctx.status \notin {"STALE", "DISCONNECTED"} /\ ~Vetoed(ops)
    BY <1>1 DEF Blocked, NoFreshQuote
  <1>3. /\ ~(ctx.quality < 400)
        /\ Known(ctx.bid) /\ Known(ctx.ask) /\ ctx.ask > ctx.bid => SpreadBelow(ctx, 20)
    BY <1>2, NoVetoMeans DEF ops
  <1> QED
    BY <1>1, <1>2, <1>3, TradeMeans DEF Warranted

(* JournalTellsTheReply, of one context and its row. *)
Tells(row, plan, ctx) ==
  /\ plan \in Directions =>
       row.decision = "TRADE" /\ row.price = ctx.price
       /\ row.bias = (IF plan = "BUY" THEN "LONG" ELSE "SHORT")
  /\ plan = "NO TRADE" => row.decision = "NO_TRADE" /\ row.bias = "WAIT"
  /\ row.decision = "TRADE" => plan # "NO TRADE" /\ row.risk # "RED_LIGHT"

LEMMA RowTells ==
  ASSUME NEW ctx, NEW ops
  PROVE  Tells(JournalRow(ctx, ops), Plan(ctx, ops), ctx)
  <1>1. CASE Blocked(ctx, ops)
    BY <1>1 DEF Tells, JournalRow, Plan, Bias, Directions
  <1>2. CASE ~Blocked(ctx, ops)
    <2>1. ctx.snapshot # "RED_LIGHT"
      BY <1>2 DEF Blocked
    <2>2. Bias(ctx, ops) \in {"LONG", "SHORT", "NEUTRAL"}
      BY <1>2 DEF Bias
    <2> QED
      BY <1>2, <2>1, <2>2 DEF Tells, JournalRow, Plan, Directions
  <1> QED
    BY <1>1, <1>2

-----------------------------------------------------------------------------
(* The inductive invariant. *)
Cites(a) ==
  LET r == job[a].reply
  IN  r.entry \in 0 .. Len(journal)
      /\ (r.entry # 0 => Tells(journal[r.entry], r.plan, job[a].ctx))
Apart ==
  \A a, b \in Askers : a # b /\ job[a].reply.entry # 0 =>
    job[a].reply.entry # job[b].reply.entry

DeskInv == Shape /\ PlanIsWarranted /\ (\A a \in Askers : Cites(a)) /\ Apart

LEMMA InvMeans == DeskInv => PlanIsWarranted /\ JournalTellsTheReply
  BY DEF DeskInv, JournalTellsTheReply, Cites, Tells, Apart, Read

LEMMA BlankShape == CtxShape(Blank)
  BY DEF CtxShape, Blank, NoValue

LEMMA DeskInit == Init => DeskInv
  <1> SUFFICES ASSUME Init PROVE DeskInv
    OBVIOUS
  <1>1. JobsOK /\ \A a \in Askers : job[a] = Nobody
    BY BlankShape DEF Init, JobsOK, JobOK, JobShape, NotYet, Nobody
  <1>2. PICK w \in Worlds : world.market = w.market /\ "market" \in DOMAIN world /\ quotes = w.quotes
    BY DEF Init
  <1>3. FeedOK
    BY <1>2, WorldsAssumption DEF FeedOK
  <1>4. journal = <<>> /\ JournalOK
    BY DEF Init, JournalOK
  <1> QED
    BY <1>1, <1>3, <1>4
    DEF DeskInv, Shape, PlanIsWarranted, Cites, Apart, Nobody, NoReply, Directions

-----------------------------------------------------------------------------
(* Steps that give no reading: each request keeps its answer and the context
   it was given from, or has no direction and cites nothing. *)
Same(a) == job'[a].reply = job[a].reply /\ job'[a].ctx = job[a].ctx
Harmless(r) == r.plan \notin Directions /\ r.entry = 0

LEMMA NoReplyHarmless == Harmless(NoReply) /\ \A kind : Harmless(Reply(kind))
  BY DEF Harmless, NoReply, Reply, Directions

LEMMA Frame ==
  ASSUME DeskInv, JobsOK', FeedOK', journal' = journal,
         \A a \in Askers : Same(a) \/ Harmless(job'[a].reply)
  PROVE  DeskInv'
  <1>1. Len(journal) \in Nat
    BY DEF DeskInv, Shape, JournalOK
  <1>2. PlanIsWarranted'
    BY DEF DeskInv, PlanIsWarranted, Same, Harmless
  <1>3. ASSUME NEW a \in Askers PROVE Cites(a)'
    BY <1>1, <1>3 DEF DeskInv, Cites, Same, Harmless
  <1>4. Apart'
    BY DEF DeskInv, Apart, Same, Harmless
  <1> QED
    BY <1>2, <1>3, <1>4 DEF DeskInv, Shape, JournalOK

(* What the two ways of moving a job do to the jobs. *)
LEMMA GoesOn ==
  ASSUME DeskInv, NEW a \in Askers, job[a].pc \notin Answering,
         NEW pc, pc \notin Answering, NEW ctx, CtxShape(ctx), Goes(a, pc, ctx)
  PROVE  JobsOK' /\ \A b \in Askers : Same(b) \/ Harmless(job'[b].reply)
  <1>0. DOMAIN job = Askers /\ DOMAIN job[a] = {"pc", "q", "ctx", "reply"}
    BY DEF DeskInv, Shape, JobsOK, JobOK, JobShape
  <1>1. /\ DOMAIN job' = Askers /\ DOMAIN job'[a] = {"pc", "q", "ctx", "reply"}
        /\ job'[a].pc = pc /\ job'[a].ctx = ctx /\ job'[a].reply = job[a].reply
        /\ \A b \in Askers \ {a} : job'[b] = job[b]
    BY <1>0 DEF Goes
  <1>2. job[a].reply = NoReply
    BY DEF DeskInv, Shape, JobsOK, JobOK, NotYet
  <1> QED
    BY <1>1, <1>2, NoReplyHarmless DEF DeskInv, Shape, JobsOK, JobOK, JobShape, NotYet, Same

LEMMA RepliesWith ==
  ASSUME DeskInv, NEW a \in Askers, NEW pc, pc \in Answering, NEW ctx, CtxShape(ctx),
         NEW reply, Replies(a, pc, ctx, reply)
  PROVE  /\ JobsOK'
         /\ job'[a].ctx = ctx /\ job'[a].reply = reply
         /\ \A b \in Askers \ {a} : job'[b] = job[b]
  <1>0. DOMAIN job = Askers /\ DOMAIN job[a] = {"pc", "q", "ctx", "reply"}
    BY DEF DeskInv, Shape, JobsOK, JobOK, JobShape
  <1>1. /\ DOMAIN job' = Askers /\ DOMAIN job'[a] = {"pc", "q", "ctx", "reply"}
        /\ job'[a].pc = pc /\ job'[a].ctx = ctx /\ job'[a].reply = reply
        /\ \A b \in Askers \ {a} : job'[b] = job[b]
    BY <1>0 DEF Replies
  <1> QED
    BY <1>1 DEF DeskInv, Shape, JobsOK, JobOK, JobShape, NotYet

(* The bounds of the world count down; its market stays. *)
LEMMA WorldKeepsFeeds ==
  ASSUME FeedOK, NEW ok \in BOOLEAN, Commits(ok), UNCHANGED quotes
  PROVE  FeedOK'
  BY DEF FeedOK, Commits

(* A request that answers something else than a reading. *)
LEMMA RepliesQuietly ==
  ASSUME DeskInv, FeedOK', journal' = journal, NEW a \in Askers, NEW pc, pc \in Answering,
         NEW ctx, CtxShape(ctx), NEW reply, Harmless(reply), Replies(a, pc, ctx, reply)
  PROVE  DeskInv'
  <1>1. JobsOK' /\ job'[a].reply = reply /\ \A b \in Askers \ {a} : job'[b] = job[b]
    BY RepliesWith
  <1> QED
    BY <1>1, Frame DEF Same

LEMMA GoesQuietly ==
  ASSUME DeskInv, UNCHANGED <<world, quotes, journal>>, NEW a \in Askers,
         job[a].pc \notin Answering, NEW pc, pc \notin Answering, NEW ctx, CtxShape(ctx),
         Goes(a, pc, ctx)
  PROVE  DeskInv'
  <1>1. FeedOK'
    BY DEF DeskInv, Shape, FeedOK
  <1> QED
    BY <1>1, GoesOn, Frame

LEMMA OwnCtx ==
  ASSUME DeskInv, NEW a \in Askers
  PROVE  CtxShape(job[a].ctx) /\ CtxShape(Completed(job[a].ctx))
  <1>1. CtxShape(job[a].ctx)
    BY DEF DeskInv, Shape, JobsOK, JobOK
  <1> QED
    BY <1>1 DEF CtxShape, Completed

LEMMA AskKeeps ==
  ASSUME DeskInv, NEW a \in Askers, Ask(a)
  PROVE  DeskInv'
  <1>1. PICK q \in world.asks : job' = [job EXCEPT ![a] = [Nobody EXCEPT !.pc = FirstStep(q), !.q = q]]
    BY DEF Ask
  <1>2. JobsOK' /\ job'[a].reply = NoReply /\ \A b \in Askers \ {a} : job'[b] = job[b]
    BY <1>1, BlankShape
    DEF DeskInv, Shape, JobsOK, JobOK, JobShape, NotYet, Nobody
  <1>3. FeedOK' /\ journal' = journal
    BY DEF Ask, DeskInv, Shape, FeedOK
  <1> QED
    BY <1>2, <1>3, Frame, NoReplyHarmless DEF Same

LEMMA ReadPriceKeeps ==
  ASSUME DeskInv, NEW a \in Askers, ReadPrice(a)
  PROVE  DeskInv'
  <1>1. Latest.bid \in Nat /\ Latest.ask \in Nat
    <2>1. CASE quotes = <<>>
      BY <2>1 DEF Latest, NoQuote, NoValue
    <2>2. CASE quotes # <<>>
      <3>1. quotes[Len(quotes)] \in QuoteRow
        BY <2>2 DEF DeskInv, Shape, FeedOK
      <3> QED
        BY <2>2, <3>1 DEF Latest, Last, QuoteRow
    <2> QED
      BY <2>1, <2>2
  <1>2. PICK ctx : CtxShape(ctx) /\ Goes(a, "technicals", ctx)
    BY <1>1 DEF ReadPrice, CtxShape, Blank
  <1> QED
    BY <1>2, GoesQuietly DEF ReadPrice, At, Answering

LEMMA ReadTechnicalsKeeps ==
  ASSUME DeskInv, NEW a \in Askers, ReadTechnicals(a)
  PROVE  DeskInv'
  <1>1. PICK ctx : CtxShape(ctx) /\ Goes(a, "brain", ctx)
    BY OwnCtx DEF ReadTechnicals, CtxShape
  <1> QED
    BY <1>1, GoesQuietly DEF ReadTechnicals, At, Answering

LEMMA ReadBrainKeeps ==
  ASSUME DeskInv, NEW a \in Askers, ReadBrain(a)
  PROVE  DeskInv'
  <1>1. PICK ctx : CtxShape(ctx) /\ Goes(a, "cftc", ctx)
    BY OwnCtx DEF ReadBrain, CtxShape
  <1> QED
    BY <1>1, GoesQuietly DEF ReadBrain, At, Answering

LEMMA ReadPositioningKeeps ==
  ASSUME DeskInv, NEW a \in Askers, ReadPositioning(a)
  PROVE  DeskInv'
  <1>1. PICK ctx : CtxShape(ctx) /\ Goes(a, "headlines", ctx)
    BY OwnCtx DEF ReadPositioning, CtxShape
  <1> QED
    BY <1>1, GoesQuietly DEF ReadPositioning, At, Answering

LEMMA ReadNewsKeeps ==
  ASSUME DeskInv, NEW a \in Askers, ReadNews(a)
  PROVE  DeskInv'
  <1>1. PICK ctx : CtxShape(ctx) /\ Goes(a, "report", ctx)
    BY OwnCtx DEF ReadNews, CtxShape
  <1> QED
    BY <1>1, GoesQuietly DEF ReadNews, At, Answering

LEMMA DebateReadKeeps ==
  ASSUME DeskInv, NEW a \in Askers, DebateRead(a)
  PROVE  DeskInv'
  <1>1. PICK ctx : CtxShape(ctx) /\ Goes(a, "convene", ctx)
    BY BlankShape DEF DebateRead, CtxShape
  <1> QED
    BY <1>1, GoesQuietly DEF DebateRead, At, Answering

(* The one step that gives a reading and writes its row. *)
LEMMA AnswerPipelineKeeps ==
  ASSUME DeskInv, NEW a \in Askers, AnswerPipeline(a)
  PROVE  DeskInv'
  <1> DEFINE ctx == Completed(job[a].ctx)
             ops == Opinions(AgentsFor(job[a].q), ctx)
             row == JournalRow(ctx, ops)
  <1>1. PICK ok \in BOOLEAN :
          /\ Commits(ok)
          /\ Replies(a, "persist", ctx,
               [Reply("READ") EXCEPT !.bias = Bias(ctx, ops), !.conf = Confidence(ctx, ops),
                                     !.plan = Plan(ctx, ops), !.gaps = Gaps(ctx),
                                     !.cited = Sources(ctx), !.entry = EntryNumber(ok)])
          /\ journal' = IF ok THEN Append(journal, row) ELSE journal
    BY DEF AnswerPipeline
  <1>2. PICK reply : /\ reply.plan = Plan(ctx, ops) /\ reply.entry = EntryNumber(ok)
                     /\ Replies(a, "persist", ctx, reply)
    BY <1>1 DEF Reply, NoReply
  <1>3. CtxShape(ctx) /\ CtxShape(job[a].ctx)
    BY OwnCtx
  <1> HIDE DEF ctx, ops, row
  <1>4. /\ JobsOK' /\ job'[a].ctx = ctx /\ job'[a].reply = reply
        /\ \A b \in Askers \ {a} : job'[b] = job[b]
    BY <1>2, <1>3, RepliesWith DEF Answering
  <1>5. FeedOK'
    BY <1>1, WorldKeepsFeeds DEF AnswerPipeline, DeskInv, Shape
  <1>6. /\ JournalOK' /\ Len(journal) \in Nat
        /\ Len(journal') = IF ok THEN Len(journal) + 1 ELSE Len(journal)
        /\ \A i \in 1 .. Len(journal) : journal'[i] = journal[i]
        /\ ok => journal'[Len(journal) + 1] = row
    <2>1. PICK S : journal \in Seq(S)
      BY DEF DeskInv, Shape, JournalOK
    <2>2. journal \in Seq(S \cup {row})
      BY <2>1, SeqMonotonic
    <2> QED
      BY <1>1, <2>2, AppendProperties DEF JournalOK
  <1>7. PlanIsWarranted'
    <2>1. job'[a].reply.plan \in Directions => Warranted(ctx)
      BY <1>2, <1>3, <1>4, DirectionIsWarranted DEF ops
    <2> QED
      BY <2>1, <1>4 DEF DeskInv, PlanIsWarranted
  <1>8. ASSUME NEW b \in Askers PROVE Cites(b)'
    <2>1. CASE b = a
      BY <2>1, <1>2, <1>4, <1>6, RowTells DEF Cites, EntryNumber, row
    <2>2. CASE b # a
      BY <2>2, <1>4, <1>6 DEF DeskInv, Cites
    <2> QED
      BY <2>1, <2>2
  <1>9. Apart'
    BY <1>2, <1>4, <1>6 DEF DeskInv, Apart, Cites, EntryNumber
  <1> QED
    BY <1>4, <1>5, <1>6, <1>7, <1>8, <1>9 DEF DeskInv, Shape

(* The answers that are no reading. *)
LEMMA OtherAnswersKeep ==
  ASSUME DeskInv, NEW a \in Askers,
         AnswerMode(a) \/ AnswerPlaybook(a) \/ AnswerWatch(a) \/ Convene(a)
           \/ AnswerMacro(a) \/ AnswerSystem(a)
  PROVE  DeskInv'
  <1> USE NoReplyHarmless, OwnCtx, BlankShape DEF Answering
  <1>0. FeedOK
    BY DEF DeskInv, Shape
  <1>1. CASE AnswerMode(a)
    <2>1. PICK reply : Harmless(reply) /\ Replies(a, "persist", Completed(job[a].ctx), reply)
      BY <1>1 DEF AnswerMode, Reply, NoReply, Harmless, Directions
    <2>2. FeedOK' /\ journal' = journal
      BY <1>0, <1>1, WorldKeepsFeeds DEF AnswerMode
    <2> QED
      BY <2>1, <2>2, RepliesQuietly
  <1>2. CASE AnswerPlaybook(a)
    <2>1. FeedOK' /\ journal' = journal
      BY <1>0, <1>2 DEF AnswerPlaybook, FeedOK
    <2>2. PICK pc, ctx, reply :
            /\ pc \in Answering /\ CtxShape(ctx)
            /\ Harmless(reply) /\ Replies(a, pc, ctx, reply)
      BY <1>2 DEF AnswerPlaybook, Fails
    <2> QED
      BY <2>1, <2>2, RepliesQuietly
  <1>3. CASE AnswerWatch(a)
    <2>1. FeedOK' /\ journal' = journal
      BY <1>0, <1>3 DEF AnswerWatch, FeedOK
    <2> QED
      BY <1>3, <2>1, RepliesQuietly DEF AnswerWatch
  <1>4. CASE Convene(a)
    <2>1. FeedOK' /\ journal' = journal
      BY <1>0, <1>4 DEF Convene, FeedOK
    <2>2. PICK ctx, reply : CtxShape(ctx) /\ Harmless(reply) /\ Replies(a, "persist", ctx, reply)
      <3>1. CtxShape([job[a].ctx EXCEPT !.snapshot = world.snapshot])
        BY DEF CtxShape
      <3>2. Harmless(DebateReply(job[a].ctx))
        BY DEF DebateReply, Reply, NoReply, Harmless, Directions
      <3> QED
        BY <1>4, <3>1, <3>2 DEF Convene
    <2> QED
      BY <2>1, <2>2, RepliesQuietly
  <1>5. CASE AnswerMacro(a)
    <2>1. FeedOK' /\ journal' = journal
      BY <1>0, <1>5 DEF AnswerMacro, FeedOK
    <2> QED
      BY <1>5, <2>1, RepliesQuietly DEF AnswerMacro
  <1>6. CASE AnswerSystem(a)
    <2>1. FeedOK' /\ journal' = journal
      BY <1>0, <1>6 DEF AnswerSystem, FeedOK
    <2>2. PICK pc, ctx, reply :
            /\ pc \in Answering /\ CtxShape(ctx)
            /\ Harmless(reply) /\ Replies(a, pc, ctx, reply)
      BY <1>6 DEF AnswerSystem, Fails
    <2> QED
      BY <2>1, <2>2, RepliesQuietly
  <1> QED
    BY <1>1, <1>2, <1>3, <1>4, <1>5, <1>6

LEMMA PersistKeeps ==
  ASSUME DeskInv, NEW a \in Askers, Persist(a)
  PROVE  DeskInv'
  <1>1. FeedOK' /\ journal' = journal
    BY WorldKeepsFeeds DEF Persist, DeskInv, Shape
  <1>2. /\ JobsOK'
        /\ \A b \in Askers : Same(b)
    BY DEF Persist, DeskInv, Shape, JobsOK, JobOK, JobShape, NotYet, Same, Answering
  <1> QED
    BY <1>1, <1>2, Frame

LEMMA BreakKeeps ==
  ASSUME DeskInv, NEW a \in Askers, Break(a)
  PROVE  DeskInv'
  <1>1. FeedOK' /\ journal' = journal /\ job[a].pc \notin Answering
    BY DEF Break, DeskInv, Shape, FeedOK, Answering
  <1>2. CASE \E pc, ctx : pc \notin Answering /\ CtxShape(ctx) /\ Goes(a, pc, ctx)
    BY <1>1, <1>2, GoesOn, Frame
  <1>3. CASE Fails(a)
    BY <1>1, <1>3, RepliesQuietly, NoReplyHarmless, OwnCtx DEF Fails, Answering
  <1> QED
    BY <1>2, <1>3, OwnCtx, BlankShape DEF Break, Answering

LEMMA RestartKeeps ==
  ASSUME DeskInv, Restart
  PROVE  DeskInv'
  <1>1. FeedOK' /\ journal' = journal
    BY DEF Restart, DeskInv, Shape, FeedOK
  <1>2. JobsOK' /\ \A a \in Askers : job'[a].reply = NoReply
    BY BlankShape DEF Restart, JobsOK, JobOK, JobShape, NotYet, Nobody
  <1> QED
    BY <1>1, <1>2, Frame, NoReplyHarmless

(* The monitor writes quotes, headlines and lights, and no answer. *)
LEMMA MonitorKeeps ==
  ASSUME DeskInv, Monitor
  PROVE  DeskInv'
  <1>1. UNCHANGED <<job, journal>>
    BY DEF Monitor, StoreQuote, QuoteAges, StoreNews, StoreSnapshot, Writes
  <1>2. quotes \in Seq(QuoteRow) /\ "market" \in DOMAIN world /\ world.market.feeds \subseteq QuoteRow
    BY DEF DeskInv, Shape, FeedOK
  <1>3. "market" \in DOMAIN world' /\ world'.market = world.market
    BY <1>2 DEF Monitor, StoreQuote, QuoteAges, StoreNews, StoreSnapshot
  <1>4. quotes' \in Seq(QuoteRow)
    <2>1. CASE StoreQuote
      <3>1. PICK q \in world.market.feeds : quotes' = Append(quotes, q)
        BY <2>1 DEF StoreQuote, Market
      <3> QED
        BY <1>2, <3>1, AppendProperties
    <2>2. CASE QuoteAges
      <3> DEFINE source(i) == IF quotes[i].source = "FRESH" THEN "OLD" ELSE "ANCIENT"
                 old(i) == [quotes[i] EXCEPT !.received = "OLD", !.source = source(i)]
      <3>1. DOMAIN quotes = 1 .. Len(quotes) /\ Len(quotes) \in Nat
            /\ \A i \in 1 .. Len(quotes) : quotes[i] \in QuoteRow
        BY <1>2
      <3>2. ASSUME NEW i \in 1 .. Len(quotes) PROVE old(i) \in QuoteRow
        <4>1. quotes[i] \in QuoteRow /\ source(i) \in {"FRESH", "OLD", "ANCIENT"}
          BY <3>1
        <4> HIDE DEF source
        <4> QED
          BY <4>1 DEF QuoteRow
      <3>3. quotes' = [i \in 1 .. Len(quotes) |-> old(i)]
        BY <2>2, <3>1 DEF QuoteAges
      <3> HIDE DEF old
      <3>4. quotes' \in [1 .. Len(quotes) -> QuoteRow]
        BY <3>2, <3>3
      <3> QED
        BY <3>1, <3>4
    <2>3. CASE StoreNews \/ StoreSnapshot
      BY <1>2, <2>3 DEF StoreNews, StoreSnapshot
    <2> QED
      BY <2>1, <2>2, <2>3 DEF Monitor
  <1>5. FeedOK'
    BY <1>2, <1>3, <1>4 DEF FeedOK
  <1>6. JobsOK' /\ \A a \in Askers : Same(a)
    BY <1>1 DEF DeskInv, Shape, JobsOK, JobOK, JobShape, NotYet, Same
  <1> QED
    BY <1>1, <1>5, <1>6, Frame

-----------------------------------------------------------------------------
LEMMA DeskStep == DeskInv /\ [Next]_vars => DeskInv'
  <1> SUFFICES ASSUME DeskInv, [Next]_vars PROVE DeskInv'
    OBVIOUS
  <1>1. CASE Monitor \/ Restart
    BY <1>1, MonitorKeeps, RestartKeeps
  <1>2. ASSUME NEW a \in Askers, Ask(a) \/ Break(a) PROVE DeskInv'
    BY <1>2, AskKeeps, BreakKeeps
  <1>3. ASSUME NEW a \in Askers, Handler(a) PROVE DeskInv'
    BY <1>3, ReadPriceKeeps, ReadTechnicalsKeeps, ReadBrainKeeps, ReadPositioningKeeps, ReadNewsKeeps,
       AnswerPipelineKeeps, OtherAnswersKeep, DebateReadKeeps, PersistKeeps DEF Handler
  <1>4. CASE UNCHANGED vars
    <2>1. FeedOK' /\ JobsOK' /\ journal' = journal /\ \A a \in Askers : Same(a)
      BY <1>4 DEF vars, DeskInv, Shape, FeedOK, JobsOK, JobOK, JobShape, NotYet, Same
    <2> QED
      BY <2>1, Frame
  <1> QED
    BY <1>1, <1>2, <1>3, <1>4 DEF Next

(* Every plan the desk gives with a direction is warranted: by the quote it
   read first, the pools it drew from a second read, the quality from a third,
   and the light it read after the wait (core/desk/cio.py). *)
THEOREM PlansAreWarranted == Spec => []PlanIsWarranted
  <1>1. DeskInv => PlanIsWarranted
    BY InvMeans
  <1> QED
    BY <1>1, DeskInit, DeskStep, PTL DEF Spec

(* Every reply and the journal row it cites tell the same story, and no two
   replies cite one row, however many are being answered. *)
THEOREM JournalIsTrue == Spec => []JournalTellsTheReply
  <1>1. DeskInv => JournalTellsTheReply
    BY InvMeans
  <1> QED
    BY <1>1, DeskInit, DeskStep, PTL DEF Spec

-----------------------------------------------------------------------------
(* The tables of answers. *)
Bit(holds) == IF holds THEN 1 ELSE 0

(* Rows of the kinds K after one more row. *)
LEMMA KindsAppend ==
  ASSUME NEW S, NEW s \in Seq(S), NEW x \in S, NEW K
  PROVE  Kinds(s, K) \in Nat /\ Kinds(Append(s, x), K) = Kinds(s, K) + Bit(x \in K)
  <1> DEFINE old == {i \in DOMAIN s : s[i] \in K}
             new == {i \in DOMAIN Append(s, x) : Append(s, x)[i] \in K}
             n == Len(s) + 1
  <1>1. /\ Len(s) \in Nat /\ DOMAIN s = 1 .. Len(s)
        /\ DOMAIN Append(s, x) = 1 .. (Len(s) + 1) /\ Append(s, x)[Len(s) + 1] = x
        /\ \A i \in 1 .. Len(s) : Append(s, x)[i] = s[i]
    BY AppendProperties
  <1>2. IsFiniteSet(old)
    <2>1. old \subseteq 1 .. Len(s)
      BY <1>1
    <2>2. IsFiniteSet(1 .. Len(s))
      BY <1>1, FS_Interval
    <2> HIDE DEF old
    <2> QED
      BY <2>1, <2>2, FS_Subset
  <1>3. Cardinality(old) \in Nat
    BY <1>2, FS_CardinalityType
  <1>4. n \notin old
    BY <1>1
  <1>5. CASE x \in K
    <2>1. new = old \cup {n}
      BY <1>1, <1>5
    <2> HIDE DEF old, new, n
    <2>2. Cardinality(new) = Cardinality(old) + 1
      BY <1>2, <1>4, <2>1, FS_AddElement
    <2> QED
      BY <1>3, <1>5, <2>2 DEF Kinds, Bit, old, new
  <1>6. CASE x \notin K
    <2>1. new = old
      BY <1>1, <1>6
    <2> HIDE DEF old, new, n
    <2>2. Cardinality(new) = Cardinality(old)
      BY <2>1
    <2>3. Kinds(s, K) = Cardinality(old) /\ Kinds(Append(s, x), K) = Cardinality(new)
      BY DEF Kinds, old, new
    <2> QED
      BY <1>3, <1>6, <2>2, <2>3 DEF Bit
  <1> QED
    BY <1>5, <1>6

Holds(j, K) == j.pc = "persist" /\ j.reply.kind \in K

(* Answers of the kinds K on their way to their row, when one request moves. *)
LEMMA PendingType ==
  ASSUME NEW K
  PROVE  IsFiniteSet({a \in Askers : Holds(job[a], K)}) /\ Pending(K) \in Nat
  <1>1. IsFiniteSet({a \in Askers : Holds(job[a], K)})
    BY AskersAssumption, FS_Subset
  <1> QED
    BY <1>1, FS_CardinalityType DEF Pending, Holds

LEMMA PendingMoves ==
  ASSUME NEW a \in Askers, \A b \in Askers \ {a} : job'[b] = job[b], NEW K
  PROVE  Pending(K)' + Bit(Holds(job[a], K)) = Pending(K) + Bit(Holds(job'[a], K))
  <1> DEFINE old == {b \in Askers : Holds(job[b], K)}
             new == {b \in Askers : Holds(job'[b], K)}
  <1>1. IsFiniteSet(old) /\ Cardinality(old) \in Nat
    BY PendingType, FS_CardinalityType
  <1>2. Pending(K) = Cardinality(old) /\ Pending(K)' = Cardinality(new)
    BY DEF Pending, Holds
  <1>3. \A b \in Askers \ {a} : b \in old <=> b \in new
    OBVIOUS
  <1>4. (a \in old <=> Holds(job[a], K)) /\ (a \in new <=> Holds(job'[a], K))
    OBVIOUS
  <1>5. old \subseteq Askers /\ new \subseteq Askers
    OBVIOUS
  <1> HIDE DEF old, new
  <1>6. CASE a \in old /\ a \notin new
    <2>1. new = old \ {a}
      BY <1>3, <1>5, <1>6
    <2>2. Cardinality(new) = Cardinality(old) - 1
      BY <1>1, <1>6, <2>1, FS_RemoveElement
    <2> QED
      BY <1>1, <1>2, <1>4, <1>6, <2>2 DEF Bit
  <1>7. CASE a \notin old /\ a \in new
    <2>1. new = old \cup {a}
      BY <1>3, <1>5, <1>7
    <2>2. Cardinality(new) = Cardinality(old) + 1
      BY <1>1, <1>7, <2>1, FS_AddElement
    <2> QED
      BY <1>1, <1>2, <1>4, <1>7, <2>2 DEF Bit
  <1>8. CASE a \in old <=> a \in new
    <2>1. new = old
      BY <1>3, <1>5, <1>8
    <2> QED
      BY <1>1, <1>2, <1>4, <1>8, <2>1 DEF Bit
  <1> QED
    BY <1>6, <1>7, <1>8

-----------------------------------------------------------------------------
(* The inductive invariant of the answers: every job, row and bound has its
   type, what waits to be kept is an answer, and the rows add up. *)
Kept == {"READ", "MODE", "PLAYBOOK", "DEBATE", "MACRO"}
Answered == Kept \cup {"WATCH", "SYSTEM"}
ReplyKind == Answered \cup {"NONE", "FAILED"}
Steps == Waiting \cup {"technicals", "brain", "headlines", "report", "convene", "persist"}

ReplyOK(r) ==
  /\ r.kind \in ReplyKind /\ r.conf \in DOMAIN Rank
  /\ r.plan \in Directions \cup {"NONE", "WAIT", "NO TRADE"}
CtxOK(ctx) == DOMAIN ctx = DOMAIN Blank /\ ctx.status \in QuoteStatus \cup {"NONE"}
JobTyped(j) ==
  /\ j.pc \in Steps /\ CtxOK(j.ctx) /\ ReplyOK(j.reply)
  /\ j.pc = "persist" => j.reply.kind \in Answered

WorldOK ==
  /\ {"market", "news", "snapshot", "left", "writes", "faults", "restarts", "clean"} \subseteq DOMAIN world
  /\ {world.left, world.writes, world.faults, world.restarts} \subseteq Nat
TablesOK ==
  /\ analyses \in Seq({"cio", "cio_brief", "debate"})
  /\ log \in Seq(ReplyKind)
  /\ watches \in Seq(BOOLEAN)
JobsTyped == \A a \in Askers : JobTyped(job[a])
RegistryOK == cio \in {"NEVER_RUN", "READY", "DEGRADED"}

Typed == WorldOK /\ TablesOK /\ JobsTyped /\ RegistryOK
AnswersIInv == DeskInv /\ Typed /\ RowsOfAnswers

LEMMA TypedMeans == AnswersIInv => AnswersInv
  <1> SUFFICES ASSUME AnswersIInv PROVE TypeOK
    BY DEF AnswersIInv, AnswersInv
  <1>1. ASSUME NEW a \in Askers PROVE job[a].reply.entry \in 0 .. Len(journal)
    BY <1>1 DEF AnswersIInv, DeskInv, Cites
  <1>2. ToSet(analyses) \subseteq {"cio", "cio_brief", "debate"}
    BY DEF AnswersIInv, Typed, TablesOK, ToSet
  <1>3. world.left >= 0 /\ world.writes >= 0 /\ world.faults >= 0 /\ world.restarts >= 0
    BY DEF AnswersIInv, Typed, WorldOK
  <1> QED
    BY <1>1, <1>2, <1>3 DEF AnswersIInv, Typed, JobsTyped, JobTyped, CtxOK, ReplyOK, Steps,
                            RegistryOK, TypeOK

LEMMA BlankOK ==
  /\ CtxOK(Blank) /\ ReplyOK(NoReply)
  /\ \A kind \in ReplyKind : ReplyOK(Reply(kind)) /\ Reply(kind).kind = kind
  <1> QED
    BY DEF Rank, CtxOK, ReplyOK, NoReply, Reply, Blank, ReplyKind, Answered, Kept

LEMMA NothingYet == ASSUME NEW K PROVE Kinds(<<>>, K) = 0
  <1>1. {i \in DOMAIN <<>> : <<>>[i] \in K} = {}
    OBVIOUS
  <1> QED
    BY <1>1, FS_EmptySet DEF Kinds

LEMMA NonePending == ASSUME \A a \in Askers : job[a].pc # "persist", NEW K PROVE Pending(K) = 0
  <1>1. {a \in Askers : job[a].pc = "persist" /\ job[a].reply.kind \in K} = {}
    OBVIOUS
  <1> QED
    BY <1>1, FS_EmptySet DEF Pending

LEMMA AnswersInit == Init => AnswersIInv
  <1> SUFFICES ASSUME Init PROVE AnswersIInv
    OBVIOUS
  <1>1. PICK w \in Worlds :
          world = [market |-> w.market, news |-> w.news, snapshot |-> w.snapshot, asks |-> w.asks,
                   left |-> w.left, writes |-> w.writes, faults |-> w.faults,
                   restarts |-> w.restarts, clean |-> TRUE]
    BY DEF Init
  <1>2. WorldOK
    BY <1>1, WorldsAssumption DEF WorldOK
  <1>3. TablesOK /\ RegistryOK
    BY DEF Init, TablesOK, RegistryOK
  <1>4. JobsTyped /\ \A a \in Askers : job[a].pc # "persist"
    BY BlankOK DEF Init, JobsTyped, JobTyped, Nobody, Steps, Waiting
  <1>5. RowsOfAnswers
    <2>1. \A K : Kinds(log, K) = 0 /\ Kinds(analyses, K) = 0 /\ Pending(K) = 0
      BY <1>4, NothingYet, NonePending DEF Init
    <2>2. Len(journal) = 0 /\ Len(watches) = 0
      BY DEF Init
    <2> QED
      BY <2>1, <2>2 DEF RowsOfAnswers
  <1> QED
    BY DeskInit, <1>2, <1>3, <1>4, <1>5 DEF AnswersIInv, Typed

-----------------------------------------------------------------------------
(* What the ways of moving a job do to it and to the others. *)
LEMMA MovesTo ==
  ASSUME DeskInv, NEW a \in Askers, NEW pc, NEW ctx, Goes(a, pc, ctx)
  PROVE  /\ job'[a].pc = pc /\ job'[a].ctx = ctx /\ job'[a].reply = job[a].reply
         /\ \A b \in Askers \ {a} : job'[b] = job[b]
  <1>1. DOMAIN job = Askers /\ DOMAIN job[a] = {"pc", "q", "ctx", "reply"}
    BY DEF DeskInv, Shape, JobsOK, JobOK, JobShape
  <1> QED
    BY <1>1 DEF Goes

LEMMA RepliesTo ==
  ASSUME DeskInv, NEW a \in Askers, NEW pc, NEW ctx, NEW reply, Replies(a, pc, ctx, reply)
  PROVE  /\ job'[a].pc = pc /\ job'[a].ctx = ctx /\ job'[a].reply = reply /\ job'[a].q = job[a].q
         /\ \A b \in Askers \ {a} : job'[b] = job[b]
  <1>1. DOMAIN job = Askers /\ DOMAIN job[a] = {"pc", "q", "ctx", "reply"}
    BY DEF DeskInv, Shape, JobsOK, JobOK, JobShape
  <1> QED
    BY <1>1 DEF Replies

LEMMA OnlyOneMoves ==
  ASSUME JobsTyped, NEW a \in Askers, JobTyped(job'[a]), \A b \in Askers \ {a} : job'[b] = job[b]
  PROVE  JobsTyped'
  BY DEF JobsTyped

(* A step that neither answers nor keeps: it moves a job that is not at its
   last step, or forgets some, and writes FAILED at most. *)
LEMMA Uncounted ==
  ASSUME RowsOfAnswers, UNCHANGED <<journal, analyses, watches>>, world'.clean => world.clean,
         \A K : Pending(K) \in Nat /\ Pending(K)' \in Nat /\ Kinds(log, K) \in Nat
               /\ Kinds(analyses, K) \in Nat,
         \A K \in SUBSET Answered : Kinds(log', K) = Kinds(log, K),
         \A K : Pending(K)' <= Pending(K),
         world'.clean => \A K : Pending(K)' = Pending(K)
  PROVE  RowsOfAnswers'
  <1>1. {{"READ"}, {"MODE"}, {"DEBATE"}, {"WATCH"}, Kept} \subseteq SUBSET Answered
    BY DEF Answered, Kept
  <1>2. ASSUME NEW K \in {{"READ"}, {"MODE"}, {"DEBATE"}, {"WATCH"}, Kept}
        PROVE  /\ Kinds(log', K) = Kinds(log, K)
               /\ Kinds(log', K) + Pending(K)' <= Kinds(log, K) + Pending(K)
               /\ world'.clean => Kinds(log', K) + Pending(K)' = Kinds(log, K) + Pending(K)
    BY <1>1
  <1> DEFINE Counted(K) ==
        /\ Kinds(log', K) = Kinds(log, K)
        /\ Kinds(log', K) + Pending(K)' <= Kinds(log, K) + Pending(K)
        /\ world'.clean => Kinds(log', K) + Pending(K)' = Kinds(log, K) + Pending(K)
        /\ Kinds(log', K) + Pending(K)' \in Nat
        /\ Kinds(log, K) + Pending(K) \in Nat
  <1>3. Counted({"READ"}) /\ Counted({"MODE"}) /\ Counted({"DEBATE"}) /\ Counted({"WATCH"}) /\ Counted(Kept)
    BY <1>2
  <1>4. Kinds(analyses, {"debate"}) \in Nat
    OBVIOUS
  <1>5. Kinds(log', {"DEBATE"}) + Pending({"DEBATE"})' <= Kinds(analyses', {"debate"})
    BY <1>3, <1>4 DEF RowsOfAnswers
  <1>6. Kinds(analyses', {"cio"}) <= Kinds(log', {"READ", "MODE", "PLAYBOOK", "DEBATE", "MACRO"})
    BY <1>3 DEF RowsOfAnswers, Kept
  <1>7. ASSUME world'.clean
        PROVE  /\ Kinds(log', {"READ"}) + Pending({"READ"})' = Len(journal')
               /\ Kinds(log', {"MODE"}) + Pending({"MODE"})' = Kinds(analyses', {"cio_brief"})
               /\ Kinds(log', {"DEBATE"}) + Pending({"DEBATE"})' = Kinds(analyses', {"debate"})
               /\ Kinds(log', {"WATCH"}) + Pending({"WATCH"})' = Len(watches')
               /\ Kinds(log', {"READ", "MODE", "PLAYBOOK", "DEBATE", "MACRO"}) = Kinds(analyses', {"cio"})
    BY <1>3, <1>7 DEF RowsOfAnswers, Kept
  <1> HIDE DEF Counted
  <1> QED
    BY <1>5, <1>6, <1>7 DEF RowsOfAnswers

LEMMA PendingOf ==
  ASSUME NEW jobs, NEW K
  PROVE  Cardinality({a \in Askers : jobs[a].pc = "persist" /\ jobs[a].reply.kind \in K}) \in Nat
  <1>1. IsFiniteSet({a \in Askers : jobs[a].pc = "persist" /\ jobs[a].reply.kind \in K})
    BY AskersAssumption, FS_Subset
  <1> QED
    BY <1>1, FS_CardinalityType

LEMMA CountsType ==
  ASSUME AnswersIInv
  PROVE  \A K : /\ Pending(K) \in Nat /\ Pending(K)' \in Nat
               /\ Kinds(log, K) \in Nat /\ Kinds(analyses, K) \in Nat
  <1> SUFFICES ASSUME NEW K
               PROVE  /\ Pending(K) \in Nat /\ Pending(K)' \in Nat
                      /\ Kinds(log, K) \in Nat /\ Kinds(analyses, K) \in Nat
    OBVIOUS
  <1>1. Pending(K) \in Nat /\ Pending(K)' \in Nat
    BY PendingOf DEF Pending
  <1>2. Kinds(log, K) \in Nat
    BY KindsAppend DEF AnswersIInv, Typed, TablesOK, ReplyKind
  <1>3. Kinds(analyses, K) \in Nat
    BY KindsAppend DEF AnswersIInv, Typed, TablesOK
  <1> QED
    BY <1>1, <1>2, <1>3

(* One more failure in the log is no answer of any kind. *)
LEMMA FailureUncounted ==
  ASSUME AnswersIInv, log' = log \/ log' = Append(log, "FAILED")
  PROVE  /\ log' \in Seq(ReplyKind)
         /\ \A K \in SUBSET Answered : Kinds(log', K) = Kinds(log, K)
  <1>1. log \in Seq(ReplyKind) /\ "FAILED" \in ReplyKind
    BY DEF AnswersIInv, Typed, TablesOK, ReplyKind
  <1>2. log' \in Seq(ReplyKind)
    BY <1>1, AppendProperties
  <1>3. ASSUME NEW K \in SUBSET Answered PROVE Kinds(log', K) = Kinds(log, K)
    <2>1. "FAILED" \notin K
      BY DEF Answered, Kept
    <2>2. Kinds(log, K) \in Nat /\ Kinds(Append(log, "FAILED"), K) = Kinds(log, K) + Bit("FAILED" \in K)
      BY <1>1, KindsAppend
    <2>3. Kinds(Append(log, "FAILED"), K) = Kinds(log, K)
      BY <2>1, <2>2 DEF Bit
    <2> QED
      BY <2>3
  <1> QED
    BY <1>2, <1>3

LEMMA PassesBy ==
  ASSUME AnswersIInv, NEW a \in Askers, \A b \in Askers \ {a} : job'[b] = job[b],
         job[a].pc # "persist", job'[a].pc # "persist", JobTyped(job'[a]),
         UNCHANGED <<journal, analyses, watches>>, log' = log \/ log' = Append(log, "FAILED"),
         WorldOK', world'.clean => world.clean, RegistryOK'
  PROVE  Typed' /\ RowsOfAnswers'
  <1>1. Typed'
    BY FailureUncounted, OnlyOneMoves DEF AnswersIInv, Typed, TablesOK
  <1>2. ASSUME NEW K PROVE Pending(K)' = Pending(K)
    <2>1. ~Holds(job[a], K) /\ ~Holds(job'[a], K)
      BY DEF Holds
    <2>2. Pending(K)' + Bit(Holds(job[a], K)) = Pending(K) + Bit(Holds(job'[a], K))
      BY PendingMoves
    <2> QED
      BY <2>1, <2>2, CountsType DEF Bit
  <1> QED
    BY <1>1, <1>2, CountsType, FailureUncounted, Uncounted DEF AnswersIInv

(* A request that answers: what it owes to the log is pending. *)
LEMMA Owes ==
  ASSUME AnswersIInv, NEW a \in Askers, \A b \in Askers \ {a} : job'[b] = job[b],
         job[a].pc # "persist", job'[a].pc = "persist", NEW K
  PROVE  /\ Pending(K)' = Pending(K) + Bit(job'[a].reply.kind \in K)
         /\ Pending(K) \in Nat /\ Kinds(log, K) \in Nat /\ Kinds(analyses, K) \in Nat
  <1>1. Bit(Holds(job[a], K)) = 0
    BY DEF Holds, Bit
  <1>2. Bit(Holds(job'[a], K)) = Bit(job'[a].reply.kind \in K)
    BY DEF Holds, Bit
  <1>3. Pending(K)' + Bit(Holds(job[a], K)) = Pending(K) + Bit(Holds(job'[a], K))
    BY PendingMoves
  <1>4. Pending(K) \in Nat /\ Pending(K)' \in Nat /\ Kinds(log, K) \in Nat /\ Kinds(analyses, K) \in Nat
    BY CountsType
  <1> QED
    BY <1>1, <1>2, <1>3, <1>4 DEF Bit

LEMMA AnswersBy ==
  ASSUME AnswersIInv, NEW a \in Askers, \A b \in Askers \ {a} : job'[b] = job[b],
         job[a].pc # "persist", job'[a].pc = "persist", log' = log,
         NEW kind, job'[a].reply.kind = kind, kind \in Answered, world'.clean => world.clean,
         Len(journal) \in Nat, Len(watches) \in Nat, \A K : Kinds(analyses', K) \in Nat,
         kind = "DEBATE" => Kinds(analyses', {"debate"}) = Kinds(analyses, {"debate"}) + 1,
         kind # "DEBATE" => Kinds(analyses', {"debate"}) = Kinds(analyses, {"debate"}),
         Kinds(analyses', {"cio"}) = Kinds(analyses, {"cio"}),
         world'.clean =>
           /\ Len(journal') = Len(journal) + Bit(kind = "READ")
           /\ Kinds(analyses', {"cio_brief"}) = Kinds(analyses, {"cio_brief"}) + Bit(kind = "MODE")
           /\ Len(watches') = Len(watches) + Bit(kind = "WATCH")
  PROVE  RowsOfAnswers'
  <1> DEFINE Owed(K) == /\ Pending(K)' = Pending(K) + Bit(kind \in K)
                        /\ Pending(K) \in Nat /\ Kinds(log, K) \in Nat /\ Kinds(log', K) = Kinds(log, K)
  <1>1. \A K : Owed(K) /\ Kinds(analyses, K) \in Nat
    BY Owes
  <1>2. Owed({"READ"}) /\ Owed({"MODE"}) /\ Owed({"DEBATE"}) /\ Owed({"WATCH"})
    BY <1>1
  <1>3. RowsOfAnswers
    BY DEF AnswersIInv
  <1>4. Kinds(log', {"DEBATE"}) + Pending({"DEBATE"})' <= Kinds(analyses', {"debate"})
    <2>1. Kinds(analyses, {"debate"}) \in Nat
      BY <1>1
    <2> QED
      BY <1>2, <1>3, <2>1 DEF RowsOfAnswers, Bit
  <1>5. Kinds(analyses', {"cio"}) <= Kinds(log', {"READ", "MODE", "PLAYBOOK", "DEBATE", "MACRO"})
    BY <1>3 DEF RowsOfAnswers
  <1>6. ASSUME world'.clean
        PROVE  /\ Kinds(log', {"READ"}) + Pending({"READ"})' = Len(journal')
               /\ Kinds(log', {"MODE"}) + Pending({"MODE"})' = Kinds(analyses', {"cio_brief"})
               /\ Kinds(log', {"DEBATE"}) + Pending({"DEBATE"})' = Kinds(analyses', {"debate"})
               /\ Kinds(log', {"WATCH"}) + Pending({"WATCH"})' = Len(watches')
               /\ Kinds(log', {"READ", "MODE", "PLAYBOOK", "DEBATE", "MACRO"}) = Kinds(analyses', {"cio"})
    <2>1. world.clean /\ Owed({"READ"}) /\ Owed({"MODE"}) /\ Owed({"DEBATE"}) /\ Owed({"WATCH"})
      BY <1>2, <1>6
    <2>2. Kinds(log', {"READ"}) + Pending({"READ"})' = Len(journal')
      <3>1. Kinds(log, {"READ"}) + Pending({"READ"}) = Len(journal)
        BY <2>1, <1>3 DEF RowsOfAnswers
      <3>2. Len(journal') = Len(journal) + Bit(kind = "READ") /\ Len(journal) \in Nat
        BY <1>1, <1>6
      <3>3. Bit(kind \in {"READ"}) = Bit(kind = "READ") /\ Bit(kind = "READ") \in Nat
        BY DEF Bit
      <3> QED
        BY <2>1, <3>1, <3>2, <3>3
    <2>3. Kinds(log', {"MODE"}) + Pending({"MODE"})' = Kinds(analyses', {"cio_brief"})
      <3>1. Kinds(log, {"MODE"}) + Pending({"MODE"}) = Kinds(analyses, {"cio_brief"})
        BY <2>1, <1>3 DEF RowsOfAnswers
      <3>2. /\ Kinds(analyses', {"cio_brief"}) = Kinds(analyses, {"cio_brief"}) + Bit(kind = "MODE")
            /\ Kinds(analyses, {"cio_brief"}) \in Nat
        BY <1>1, <1>6
      <3>3. Bit(kind \in {"MODE"}) = Bit(kind = "MODE") /\ Bit(kind = "MODE") \in Nat
        BY DEF Bit
      <3> QED
        BY <2>1, <3>1, <3>2, <3>3
    <2>4. Kinds(log', {"DEBATE"}) + Pending({"DEBATE"})' = Kinds(analyses', {"debate"})
      BY <2>1, <1>3 DEF RowsOfAnswers, Bit
    <2>5. Kinds(log', {"WATCH"}) + Pending({"WATCH"})' = Len(watches')
      <3>1. Kinds(log, {"WATCH"}) + Pending({"WATCH"}) = Len(watches)
        BY <2>1, <1>3 DEF RowsOfAnswers
      <3>2. Len(watches') = Len(watches) + Bit(kind = "WATCH") /\ Len(watches) \in Nat
        BY <1>1, <1>6
      <3>3. Bit(kind \in {"WATCH"}) = Bit(kind = "WATCH") /\ Bit(kind = "WATCH") \in Nat
        BY DEF Bit
      <3> QED
        BY <2>1, <3>1, <3>2, <3>3
    <2>6. Kinds(log', {"READ", "MODE", "PLAYBOOK", "DEBATE", "MACRO"}) = Kinds(analyses', {"cio"})
      BY <2>1, <1>3 DEF RowsOfAnswers
    <2> QED
      BY <2>2, <2>3, <2>4, <2>5, <2>6
  <1> HIDE DEF Owed
  <1> QED
    BY <1>4, <1>5, <1>6 DEF RowsOfAnswers

-----------------------------------------------------------------------------
(* What the answers are made of. *)
LEMMA AgentsKnown ==
  ASSUME NEW q
  PROVE  AgentsFor(q) \subseteq
           {"metals-analyst", "crypto-analyst", "equities-analyst", "forex-analyst",
            "macro-strategist", "liquidity-analyst", "positioning-analyst",
            "crossasset-analyst", "news-intelligence", "quant-architect"}
  <1>1. ClassAsked(q) \in DOMAIN AnalystOf =>
          AnalystOf[ClassAsked(q)] \in {"metals-analyst", "crypto-analyst", "equities-analyst", "forex-analyst"}
    BY DEF AnalystOf
  <1> QED
    BY <1>1 DEF AgentsFor, AlwaysOn

LEMMA OpinionConf ==
  ASSUME NEW q, NEW a \in AgentsFor(q), NEW ctx
  PROVE  SpecialistFuncs(a, ctx).conf \in {"LOW", "MODERATE", "HIGH"}
  <1>1. /\ Metals(ctx).conf \in {"LOW", "MODERATE", "HIGH"}
        /\ Crypto(ctx).conf \in {"LOW", "MODERATE", "HIGH"}
        /\ Equities(ctx).conf \in {"LOW", "MODERATE", "HIGH"}
        /\ Forex(ctx).conf \in {"LOW", "MODERATE", "HIGH"}
    BY DEF Metals, Crypto, Equities, Forex, NoRead, Opinion
  <1>2. /\ Macro(ctx).conf \in {"LOW", "MODERATE", "HIGH"}
        /\ LiquidityDesk(ctx).conf \in {"LOW", "MODERATE", "HIGH"}
        /\ Positioning(ctx).conf \in {"LOW", "MODERATE", "HIGH"}
        /\ CrossAsset(ctx).conf \in {"LOW", "MODERATE", "HIGH"}
        /\ News(ctx).conf \in {"LOW", "MODERATE", "HIGH"}
        /\ Quant(ctx).conf \in {"LOW", "MODERATE", "HIGH"}
    BY DEF Macro, LiquidityDesk, Positioning, CrossAsset, News, Quant, Opinion
  <1> QED
    BY <1>1, <1>2, AgentsKnown DEF SpecialistFuncs

LEMMA SomeIsLowest ==
  ASSUME NEW f, NEW C, C # {}, \A c \in C : f[c] \in 0 .. 3
  PROVE  \E c \in C : \A d \in C : f[c] <= f[d]
  <1>1. CASE \E c \in C : f[c] = 0
    BY <1>1
  <1>2. CASE \A c \in C : f[c] \in 1 .. 3
    <2>1. CASE \E c \in C : f[c] = 1
      BY <1>2, <2>1
    <2>2. CASE \A c \in C : f[c] \in 2 .. 3
      <3>1. CASE \E c \in C : f[c] = 2
        BY <2>2, <3>1
      <3>2. CASE \A c \in C : f[c] = 3
        BY <3>2
      <3> QED
        BY <2>2, <3>1, <3>2
    <2> QED
      BY <1>2, <2>1, <2>2
  <1> QED
    BY <1>1, <1>2

LEMMA LowestIsOne ==
  ASSUME NEW C \in SUBSET DOMAIN Rank, C # {}
  PROVE  Lowest(C) \in C
  <1>1. \A c \in C : Rank[c] \in 0 .. 3
    <2> DEFINE place(c) == IF c = "LOW" THEN 0 ELSE IF c = "MODERATE" THEN 1 ELSE IF c = "HIGH" THEN 2 ELSE 3
    <2>2. Rank = [c \in {"LOW", "MODERATE", "HIGH", "VERY HIGH"} |-> place(c)]
      BY DEF Rank
    <2>3. \A c : place(c) \in 0 .. 3
      OBVIOUS
    <2> HIDE DEF place
    <2>1. \A c \in DOMAIN Rank : Rank[c] \in 0 .. 3
      BY <2>2, <2>3
    <2> QED
      BY <2>1
  <1>2. \E c \in C : \A d \in C : Rank[c] <= Rank[d]
    BY <1>1, SomeIsLowest
  <1> QED
    BY <1>2 DEF Lowest

LEMMA ConfidenceType ==
  ASSUME NEW q, NEW ctx
  PROVE  Confidence(ctx, Opinions(AgentsFor(q), ctx)) \in DOMAIN Rank
  <1> DEFINE ops == Opinions(AgentsFor(q), ctx)
             C == {GapCap(Gaps(ctx))} \cup {ops[a].conf : a \in DOMAIN ops}
  <1>1. DOMAIN Rank = {"LOW", "MODERATE", "HIGH", "VERY HIGH"}
    BY DEF Rank
  <1>2. GapCap(Gaps(ctx)) \in DOMAIN Rank
    BY <1>1 DEF GapCap
  <1>3. ASSUME NEW a \in DOMAIN ops PROVE ops[a].conf \in DOMAIN Rank
    <2>1. a \in AgentsFor(q) /\ ops[a] = SpecialistFuncs(a, ctx)
      BY DEF Opinions
    <2> QED
      BY <1>1, <2>1, OpinionConf
  <1>4. C \subseteq DOMAIN Rank /\ C # {}
    BY <1>2, <1>3
  <1>5. Lowest(C) \in DOMAIN Rank
    <2> HIDE DEF C
    <2> QED
      BY <1>4, LowestIsOne
  <1> QED
    BY <1>5 DEF Confidence

LEMMA PlanType ==
  ASSUME NEW ctx, NEW ops
  PROVE  Plan(ctx, ops) \in Directions \cup {"NONE", "WAIT", "NO TRADE"}
  BY DEF Plan, Directions

LEMMA LatestType == ASSUME DeskInv PROVE StatusOf(Latest) \in QuoteStatus \cup {"NONE"}
  <1>1. CASE quotes = <<>>
    BY <1>1 DEF Latest, NoQuote, StatusOf
  <1>2. CASE quotes # <<>>
    <2>1. quotes[Len(quotes)] \in QuoteRow
      BY <1>2 DEF DeskInv, Shape, FeedOK
    <2> QED
      BY <1>2, <2>1 DEF Latest, Last, QuoteRow, QuoteStatus, StatusOf
  <1> QED
    BY <1>1, <1>2

LEMMA OwnCtxOK ==
  ASSUME AnswersIInv, NEW a \in Askers
  PROVE  CtxOK(job[a].ctx) /\ CtxOK(Completed(job[a].ctx)) /\ CtxOK(Blank)
  <1>1. CtxOK(job[a].ctx)
    BY DEF AnswersIInv, Typed, JobsTyped, JobTyped
  <1> QED
    BY <1>1, BlankOK DEF CtxOK, Completed, Blank

LEMMA CommitsType ==
  ASSUME WorldOK, NEW ok \in BOOLEAN, Commits(ok)
  PROVE  WorldOK' /\ (world'.clean => world.clean /\ ok)
  BY DEF WorldOK, Commits

LEMMA KindsIfKept ==
  ASSUME AnswersIInv, NEW kind \in {"cio", "cio_brief", "debate"}, NEW ok \in BOOLEAN,
         analyses' = IF ok THEN Append(analyses, kind) ELSE analyses
  PROVE  /\ analyses' \in Seq({"cio", "cio_brief", "debate"})
         /\ \A K : /\ Kinds(analyses, K) \in Nat /\ Kinds(analyses', K) \in Nat
                  /\ Kinds(analyses', K) = Kinds(analyses, K) + Bit(ok /\ kind \in K)
  <1>1. analyses \in Seq({"cio", "cio_brief", "debate"})
    BY DEF AnswersIInv, Typed, TablesOK
  <1>2. analyses' \in Seq({"cio", "cio_brief", "debate"})
    BY <1>1, AppendProperties
  <1>3. ASSUME NEW K
        PROVE  /\ Kinds(analyses, K) \in Nat /\ Kinds(analyses', K) \in Nat
               /\ Kinds(analyses', K) = Kinds(analyses, K) + Bit(ok /\ kind \in K)
    <2>1. Kinds(analyses, K) \in Nat
          /\ Kinds(Append(analyses, kind), K) = Kinds(analyses, K) + Bit(kind \in K)
      BY <1>1, KindsAppend
    <2>2. CASE ok
      BY <2>1, <2>2 DEF Bit
    <2>3. CASE ~ok
      BY <2>1, <2>3 DEF Bit
    <2> QED
      BY <2>2, <2>3
  <1> QED
    BY <1>2, <1>3

-----------------------------------------------------------------------------
(* The steps. *)
LEMMA AskTyped ==
  ASSUME AnswersIInv, NEW a \in Askers, Ask(a)
  PROVE  Typed' /\ RowsOfAnswers'
  <1>1. PICK q \in world.asks : job' = [job EXCEPT ![a] = [Nobody EXCEPT !.pc = FirstStep(q), !.q = q]]
    BY DEF Ask
  <1>2. DOMAIN job = Askers
    BY DEF AnswersIInv, DeskInv, Shape, JobsOK
  <1>3. /\ job'[a].pc = FirstStep(q) /\ job'[a].ctx = Blank /\ job'[a].reply = NoReply
        /\ \A b \in Askers \ {a} : job'[b] = job[b]
    BY <1>1, <1>2 DEF Nobody
  <1>4. FirstStep(q) \in {"system", "debate", "macro", "price"}
    BY DEF FirstStep
  <1>5. JobTyped(job'[a]) /\ job'[a].pc # "persist"
    BY <1>3, <1>4, BlankOK DEF JobTyped, Steps, Waiting
  <1>6. WorldOK' /\ world'.clean = world.clean
    BY DEF Ask, AnswersIInv, Typed, WorldOK
  <1>7. RegistryOK' /\ job[a].pc # "persist" /\ UNCHANGED <<journal, analyses, watches, log>>
    BY DEF Ask, AnswersIInv, Typed, RegistryOK
  <1> QED
    BY <1>3, <1>5, <1>6, <1>7, PassesBy

LEMMA GoesTyped ==
  ASSUME AnswersIInv, NEW a \in Askers, job[a].pc # "persist", NEW ctx, CtxOK(ctx),
         NEW pc \in Steps \ {"persist"}, Goes(a, pc, ctx),
         UNCHANGED <<journal, analyses, watches, log, cio>>, WorldOK', world'.clean => world.clean
  PROVE  Typed' /\ RowsOfAnswers'
  <1>1. /\ job'[a].pc = pc /\ job'[a].ctx = ctx /\ job'[a].reply = job[a].reply
        /\ \A b \in Askers \ {a} : job'[b] = job[b]
    BY MovesTo DEF AnswersIInv
  <1>2. JobTyped(job'[a]) /\ job'[a].pc # "persist"
    BY <1>1 DEF AnswersIInv, Typed, JobsTyped, JobTyped
  <1>3. RegistryOK'
    BY DEF AnswersIInv, Typed, RegistryOK
  <1> QED
    BY <1>1, <1>2, <1>3, PassesBy

LEMMA FailsTyped ==
  ASSUME AnswersIInv, NEW a \in Askers, job[a].pc # "persist", Fails(a),
         UNCHANGED <<journal, analyses, watches>>, WorldOK', world'.clean => world.clean
  PROVE  Typed' /\ RowsOfAnswers'
  <1>1. /\ job'[a].pc = "done" /\ job'[a].ctx = job[a].ctx /\ job'[a].reply = Reply("FAILED")
        /\ \A b \in Askers \ {a} : job'[b] = job[b]
    BY RepliesTo DEF AnswersIInv, Fails
  <1>2. JobTyped(job'[a])
    BY <1>1, BlankOK, OwnCtxOK DEF JobTyped, Steps, Waiting, ReplyKind
  <1>3. RegistryOK' /\ log' = Append(log, "FAILED")
    BY DEF Fails, RegistryOK
  <1> QED
    BY <1>1, <1>2, <1>3, PassesBy

LEMMA ReadsTyped ==
  ASSUME AnswersIInv, NEW a \in Askers,
         ReadPrice(a) \/ ReadTechnicals(a) \/ ReadBrain(a) \/ ReadPositioning(a) \/ ReadNews(a) \/ DebateRead(a)
  PROVE  Typed' /\ RowsOfAnswers'
  <1>1. /\ UNCHANGED <<world, quotes, journal, analyses, watches, log, cio>>
        /\ job[a].pc # "persist"
    BY DEF ReadPrice, ReadTechnicals, ReadBrain, ReadPositioning, ReadNews, DebateRead, At
  <1>2. WorldOK' /\ world'.clean = world.clean
    BY <1>1 DEF AnswersIInv, Typed, WorldOK
  <1>3. {"technicals", "brain", "cftc", "headlines", "report", "convene"} \subseteq Steps \ {"persist"}
    BY DEF Steps, Waiting
  <1>4. \E ctx, pc : CtxOK(ctx) /\ pc \in Steps \ {"persist"} /\ Goes(a, pc, ctx)
    <2>1. CASE ReadPrice(a)
      <3>1. StatusOf(Latest) \in QuoteStatus \cup {"NONE"}
        BY LatestType DEF AnswersIInv
      <3>2. PICK ctx : /\ DOMAIN ctx = DOMAIN Blank /\ ctx.status = StatusOf(Latest)
                       /\ Goes(a, "technicals", ctx)
        BY <2>1 DEF ReadPrice, Blank
      <3> QED
        BY <1>3, <3>1, <3>2 DEF CtxOK
    <2>2. CASE ReadTechnicals(a)
      <3>1. PICK ctx : /\ DOMAIN ctx = DOMAIN job[a].ctx
                       /\ "status" \in DOMAIN job[a].ctx => ctx.status = job[a].ctx.status
                       /\ Goes(a, "brain", ctx)
        BY <2>2 DEF ReadTechnicals
      <3> QED
        BY <1>3, <3>1, OwnCtxOK DEF CtxOK, Blank
    <2>3. CASE ReadBrain(a)
      <3>1. PICK ctx : /\ DOMAIN ctx = DOMAIN job[a].ctx
                       /\ "status" \in DOMAIN job[a].ctx => ctx.status = job[a].ctx.status
                       /\ Goes(a, "cftc", ctx)
        BY <2>3 DEF ReadBrain
      <3> QED
        BY <1>3, <3>1, OwnCtxOK DEF CtxOK, Blank
    <2>4. CASE ReadPositioning(a)
      <3>1. PICK ctx : /\ DOMAIN ctx = DOMAIN job[a].ctx
                       /\ "status" \in DOMAIN job[a].ctx => ctx.status = job[a].ctx.status
                       /\ Goes(a, "headlines", ctx)
        BY <2>4 DEF ReadPositioning
      <3> QED
        BY <1>3, <3>1, OwnCtxOK DEF CtxOK, Blank
    <2>6. CASE ReadNews(a)
      <3>1. PICK ctx : /\ DOMAIN ctx = DOMAIN job[a].ctx
                       /\ "status" \in DOMAIN job[a].ctx => ctx.status = job[a].ctx.status
                       /\ Goes(a, "report", ctx)
        BY <2>6 DEF ReadNews
      <3> QED
        BY <1>3, <3>1, OwnCtxOK DEF CtxOK, Blank
    <2>5. CASE DebateRead(a)
      <3>1. PICK ctx : /\ DOMAIN ctx = DOMAIN Blank /\ ctx.status = Blank.status
                       /\ Goes(a, "convene", ctx)
        BY <2>5 DEF DebateRead, Blank
      <3> QED
        BY <1>3, <3>1, OwnCtxOK DEF CtxOK, Blank
    <2> QED
      BY <2>1, <2>2, <2>3, <2>4, <2>5, <2>6
  <1> QED
    BY <1>1, <1>2, <1>4, GoesTyped

LEMMA BreakTyped ==
  ASSUME AnswersIInv, NEW a \in Askers, Break(a)
  PROVE  Typed' /\ RowsOfAnswers'
  <1>1. /\ UNCHANGED <<journal, analyses, watches>> /\ job[a].pc # "persist"
    BY DEF Break
  <1>2. WorldOK' /\ ~world'.clean
    BY DEF Break, AnswersIInv, Typed, WorldOK
  <1>3. CASE Fails(a)
    BY <1>1, <1>2, <1>3, FailsTyped
  <1>4. CASE \E pc, ctx : /\ pc \in Steps \ {"persist"} /\ CtxOK(ctx)
                          /\ Goes(a, pc, ctx) /\ UNCHANGED <<cio, log>>
    BY <1>1, <1>2, <1>4, GoesTyped
  <1>5. {"brain", "report"} \subseteq Steps \ {"persist"}
    BY DEF Steps, Waiting
  <1> QED
    BY <1>3, <1>4, <1>5, OwnCtxOK DEF Break

LEMMA RestartTyped ==
  ASSUME AnswersIInv, Restart
  PROVE  Typed' /\ RowsOfAnswers'
  <1>1. WorldOK' /\ ~world'.clean
    BY DEF Restart, AnswersIInv, Typed, WorldOK
  <1>2. JobsTyped' /\ \A a \in Askers : job'[a].pc # "persist"
    BY BlankOK DEF Restart, JobsTyped, JobTyped, Nobody, Steps, Waiting
  <1>3. TablesOK' /\ RegistryOK'
    BY DEF Restart, AnswersIInv, Typed, TablesOK, RegistryOK
  <1>4. ASSUME NEW K PROVE Pending(K)' = 0
    <2>1. {a \in Askers : job'[a].pc = "persist" /\ job'[a].reply.kind \in K} = {}
      BY <1>2
    <2> QED
      BY <2>1, FS_EmptySet DEF Pending
  <1>5. UNCHANGED <<journal, analyses, watches, log>>
    BY DEF Restart
  <1>6. \A K : Pending(K)' <= Pending(K)
    BY <1>4, CountsType
  <1>7. RowsOfAnswers'
    BY <1>1, <1>5, <1>6, CountsType, Uncounted DEF AnswersIInv
  <1> QED
    BY <1>1, <1>2, <1>3, <1>7 DEF Typed

(* Nothing but the world moves. *)
LEMMA StillTyped ==
  ASSUME AnswersIInv, UNCHANGED <<job, journal, analyses, watches, cio, log>>,
         WorldOK', world'.clean => world.clean
  PROVE  Typed' /\ RowsOfAnswers'
  <1>1. Typed'
    BY DEF AnswersIInv, Typed, TablesOK, JobsTyped, RegistryOK
  <1>2. \A K : Pending(K)' = Pending(K)
    BY DEF Pending
  <1>3. RowsOfAnswers'
    BY <1>2, CountsType, Uncounted DEF AnswersIInv
  <1> QED
    BY <1>1, <1>3

LEMMA MonitorTyped ==
  ASSUME AnswersIInv, Monitor
  PROVE  Typed' /\ RowsOfAnswers'
  <1>1. UNCHANGED <<job, journal, analyses, watches, cio, log>> /\ world.writes > 0
    BY DEF Monitor, StoreQuote, QuoteAges, StoreNews, StoreSnapshot, Writes
  <1>2. WorldOK
    BY DEF AnswersIInv, Typed
  <1>3. WorldOK' /\ world'.clean = world.clean
    <2>1. CASE StoreQuote \/ QuoteAges
      <3>1. world' = [world EXCEPT !.writes = @ - 1]
        BY <2>1 DEF StoreQuote, QuoteAges
      <3> QED
        BY <1>1, <1>2, <3>1 DEF WorldOK
    <2>2. CASE StoreNews
      BY <1>1, <1>2, <2>2 DEF WorldOK, StoreNews
    <2>3. CASE StoreSnapshot
      BY <1>1, <1>2, <2>3 DEF WorldOK, StoreSnapshot
    <2> QED
      BY <2>1, <2>2, <2>3 DEF Monitor
  <1> QED
    BY <1>1, <1>3, StillTyped

(* The answers. *)
LEMMA AnswerTyped ==
  ASSUME AnswersIInv, NEW a \in Askers, job[a].pc # "persist", NEW ctx, CtxOK(ctx),
         NEW reply, ReplyOK(reply), reply.kind \in Answered,
         Replies(a, "persist", ctx, reply),
         WorldOK', cio' = cio, log' = log,
         analyses' \in Seq({"cio", "cio_brief", "debate"}), watches' \in Seq(BOOLEAN)
  PROVE  /\ Typed' /\ job'[a].pc = "persist" /\ job'[a].reply = reply
         /\ \A b \in Askers \ {a} : job'[b] = job[b]
  <1>1. /\ job'[a].pc = "persist" /\ job'[a].ctx = ctx /\ job'[a].reply = reply
        /\ \A b \in Askers \ {a} : job'[b] = job[b]
    BY RepliesTo DEF AnswersIInv
  <1>2. JobTyped(job'[a])
    BY <1>1 DEF JobTyped, Steps
  <1>3. JobsTyped'
    BY <1>1, <1>2, OnlyOneMoves DEF AnswersIInv, Typed
  <1>4. TablesOK' /\ RegistryOK'
    BY DEF AnswersIInv, Typed, TablesOK, RegistryOK
  <1> QED
    BY <1>1, <1>3, <1>4 DEF Typed

LEMMA LengthsType ==
  ASSUME AnswersIInv PROVE Len(journal) \in Nat /\ Len(watches) \in Nat
  <1>1. PICK S : journal \in Seq(S)
    BY DEF AnswersIInv, DeskInv, Shape, JournalOK
  <1>2. watches \in Seq(BOOLEAN)
    BY DEF AnswersIInv, Typed, TablesOK
  <1> QED
    BY <1>1, <1>2

(* An answer that keeps no row, or one somewhere else than in analyses. *)
LEMMA AnswerUnkept ==
  ASSUME AnswersIInv, NEW a \in Askers, \A b \in Askers \ {a} : job'[b] = job[b],
         job[a].pc # "persist", job'[a].pc = "persist", log' = log, analyses' = analyses,
         NEW kind \in Answered \ {"DEBATE", "MODE"}, job'[a].reply.kind = kind,
         world'.clean => /\ world.clean
                         /\ Len(journal') = Len(journal) + Bit(kind = "READ")
                         /\ Len(watches') = Len(watches) + Bit(kind = "WATCH")
  PROVE  RowsOfAnswers'
  <1>1. \A K : Kinds(analyses', K) \in Nat /\ Kinds(analyses', K) = Kinds(analyses, K)
    BY CountsType
  <1>2. kind # "DEBATE" /\ kind # "MODE" /\ kind \in Answered
    OBVIOUS
  <1>3. Kinds(analyses', {"cio_brief"}) = Kinds(analyses, {"cio_brief"}) + Bit(kind = "MODE")
    BY <1>1, <1>2 DEF Bit
  <1> QED
    BY <1>1, <1>2, <1>3, LengthsType, AnswersBy

LEMMA PipelineTyped ==
  ASSUME AnswersIInv, NEW a \in Askers, AnswerPipeline(a)
  PROVE  Typed' /\ RowsOfAnswers'
  <1> DEFINE ctx == Completed(job[a].ctx)
             ops == Opinions(AgentsFor(job[a].q), ctx)
             row == JournalRow(ctx, ops)
  <1>1. PICK ok \in BOOLEAN :
          /\ Commits(ok)
          /\ Replies(a, "persist", ctx,
               [Reply("READ") EXCEPT !.bias = Bias(ctx, ops), !.conf = Confidence(ctx, ops),
                                     !.plan = Plan(ctx, ops), !.gaps = Gaps(ctx),
                                     !.cited = Sources(ctx), !.entry = EntryNumber(ok)])
          /\ journal' = IF ok THEN Append(journal, row) ELSE journal
    BY DEF AnswerPipeline
  <1>2. PICK reply : /\ reply.plan = Plan(ctx, ops) /\ reply.conf = Confidence(ctx, ops)
                     /\ reply.kind = "READ" /\ Replies(a, "persist", ctx, reply)
    BY <1>1 DEF Reply, NoReply
  <1>3. ReplyOK(reply)
    BY <1>2, PlanType, ConfidenceType DEF ReplyOK, ReplyKind, Answered, Kept
  <1>4. CtxOK(ctx)
    BY OwnCtxOK
  <1> HIDE DEF ctx, ops, row
  <1>5. WorldOK' /\ (world'.clean => world.clean /\ ok)
    BY <1>1, CommitsType DEF AnswersIInv, Typed
  <1>6. UNCHANGED <<analyses, watches, cio, log>> /\ job[a].pc # "persist"
    BY DEF AnswerPipeline, At
  <1>7. analyses' \in Seq({"cio", "cio_brief", "debate"}) /\ watches' \in Seq(BOOLEAN)
    BY <1>6 DEF AnswersIInv, Typed, TablesOK
  <1>8. "READ" \in Answered \ {"DEBATE", "MODE"}
    BY DEF Answered, Kept
  <1>9. /\ Typed' /\ job'[a].pc = "persist" /\ job'[a].reply = reply
        /\ \A b \in Askers \ {a} : job'[b] = job[b]
    BY <1>2, <1>3, <1>4, <1>5, <1>6, <1>7, <1>8, AnswerTyped
  <1>10. ok => Len(journal') = Len(journal) + 1
    <2>1. PICK S : journal \in Seq(S)
      BY DEF AnswersIInv, DeskInv, Shape, JournalOK
    <2>2. journal \in Seq(S \cup {row})
      BY <2>1, SeqMonotonic
    <2> QED
      BY <1>1, <2>2, AppendProperties
  <1>11. world'.clean => /\ world.clean
                        /\ Len(journal') = Len(journal) + Bit("READ" = "READ")
                        /\ Len(watches') = Len(watches) + Bit("READ" = "WATCH")
    BY <1>5, <1>6, <1>10, LengthsType DEF Bit
  <1>12. RowsOfAnswers'
    BY <1>2, <1>6, <1>8, <1>9, <1>11, AnswerUnkept
  <1> QED
    BY <1>9, <1>12

LEMMA ModeTyped ==
  ASSUME AnswersIInv, NEW a \in Askers, AnswerMode(a)
  PROVE  Typed' /\ RowsOfAnswers'
  <1>1. PICK ok \in BOOLEAN :
          /\ Commits(ok)
          /\ analyses' = IF ok THEN Append(analyses, "cio_brief") ELSE analyses
    BY DEF AnswerMode
  <1>2. PICK reply : /\ reply.kind = "MODE" /\ ReplyOK(reply)
                     /\ Replies(a, "persist", Completed(job[a].ctx), reply)
    <2>1. PICK e : Replies(a, "persist", Completed(job[a].ctx), [Reply("MODE") EXCEPT !.expected = e])
      BY DEF AnswerMode
    <2>2. ReplyOK(Reply("MODE")) /\ Reply("MODE").kind = "MODE"
      BY BlankOK DEF ReplyKind, Answered, Kept
    <2> QED
      BY <2>1, <2>2 DEF ReplyOK, Reply, NoReply
  <1>3. WorldOK' /\ (world'.clean => world.clean /\ ok)
    BY <1>1, CommitsType DEF AnswersIInv, Typed
  <1>4. UNCHANGED <<journal, watches, cio, log>> /\ job[a].pc # "persist"
    BY DEF AnswerMode, At
  <1>5. /\ analyses' \in Seq({"cio", "cio_brief", "debate"})
        /\ \A K : /\ Kinds(analyses, K) \in Nat /\ Kinds(analyses', K) \in Nat
                 /\ Kinds(analyses', K) = Kinds(analyses, K) + Bit(ok /\ "cio_brief" \in K)
    BY <1>1, KindsIfKept
  <1>6. "MODE" \in Answered /\ watches' \in Seq(BOOLEAN)
    BY <1>4 DEF Answered, Kept, AnswersIInv, Typed, TablesOK
  <1>7. /\ Typed' /\ job'[a].pc = "persist" /\ job'[a].reply = reply
        /\ \A b \in Askers \ {a} : job'[b] = job[b]
    BY <1>2, <1>3, <1>4, <1>5, <1>6, OwnCtxOK, AnswerTyped
  <1>8. /\ Kinds(analyses', {"cio"}) = Kinds(analyses, {"cio"})
        /\ Kinds(analyses', {"debate"}) = Kinds(analyses, {"debate"})
        /\ ok => Kinds(analyses', {"cio_brief"}) = Kinds(analyses, {"cio_brief"}) + Bit("MODE" = "MODE")
    BY <1>5 DEF Bit
  <1>9. /\ Len(journal') = Len(journal) + Bit("MODE" = "READ")
        /\ Len(watches') = Len(watches) + Bit("MODE" = "WATCH")
    BY <1>4, LengthsType DEF Bit
  <1>10. RowsOfAnswers'
    BY <1>2, <1>3, <1>4, <1>5, <1>6, <1>7, <1>8, <1>9, LengthsType, AnswersBy
  <1> QED
    BY <1>7, <1>10

LEMMA ConveneTyped ==
  ASSUME AnswersIInv, NEW a \in Askers, Convene(a)
  PROVE  Typed' /\ RowsOfAnswers'
  <1> DEFINE ctx == [job[a].ctx EXCEPT !.snapshot = world.snapshot]
             reply == DebateReply(job[a].ctx)
  <1>1. Replies(a, "persist", ctx, reply) /\ analyses' = Append(analyses, "debate")
    BY DEF Convene, KeepDebate
  <1>2. reply.kind = "DEBATE" /\ ReplyOK(reply)
    <2>1. DOMAIN Rank = {"LOW", "MODERATE", "HIGH", "VERY HIGH"}
      BY DEF Rank
    <2>2. \A class, voices : AgreementConfidence(class, voices) \in DOMAIN Rank
      BY <2>1 DEF AgreementConfidence
    <2>3. reply.kind = "DEBATE" /\ reply.plan = "NONE"
          /\ \E class, voices : reply.conf = AgreementConfidence(class, voices)
      BY DEF DebateReply, Reply, NoReply
    <2> QED
      BY <2>2, <2>3 DEF ReplyOK, ReplyKind, Answered, Kept
  <1>3. CtxOK(ctx)
    BY OwnCtxOK DEF CtxOK, Blank
  <1> HIDE DEF ctx, reply
  <1>4. UNCHANGED <<world, journal, watches, cio, log>> /\ job[a].pc # "persist"
    BY DEF Convene, At
  <1>5. WorldOK' /\ world'.clean = world.clean
    BY <1>4 DEF AnswersIInv, Typed, WorldOK
  <1>6. /\ analyses' \in Seq({"cio", "cio_brief", "debate"})
        /\ \A K : /\ Kinds(analyses, K) \in Nat /\ Kinds(analyses', K) \in Nat
                 /\ Kinds(analyses', K) = Kinds(analyses, K) + Bit(TRUE /\ "debate" \in K)
    BY <1>1, KindsIfKept
  <1>7. "DEBATE" \in Answered /\ watches' \in Seq(BOOLEAN)
    BY <1>4 DEF Answered, Kept, AnswersIInv, Typed, TablesOK
  <1>8. /\ Typed' /\ job'[a].pc = "persist" /\ job'[a].reply = reply
        /\ \A b \in Askers \ {a} : job'[b] = job[b]
    BY <1>1, <1>2, <1>3, <1>4, <1>5, <1>6, <1>7, AnswerTyped
  <1>9. /\ Kinds(analyses', {"cio"}) = Kinds(analyses, {"cio"})
        /\ Kinds(analyses', {"debate"}) = Kinds(analyses, {"debate"}) + 1
        /\ Kinds(analyses', {"cio_brief"}) = Kinds(analyses, {"cio_brief"}) + Bit("DEBATE" = "MODE")
    BY <1>6 DEF Bit
  <1>10. /\ Len(journal') = Len(journal) + Bit("DEBATE" = "READ")
         /\ Len(watches') = Len(watches) + Bit("DEBATE" = "WATCH")
    BY <1>4, LengthsType DEF Bit
  <1>11. RowsOfAnswers'
    BY <1>2, <1>4, <1>5, <1>6, <1>7, <1>8, <1>9, <1>10, LengthsType, AnswersBy
  <1> QED
    BY <1>8, <1>11

LEMMA PlaybookTyped ==
  ASSUME AnswersIInv, NEW a \in Askers, AnswerPlaybook(a)
  PROVE  Typed' /\ RowsOfAnswers'
  <1>1. UNCHANGED <<world, journal, analyses, watches>> /\ job[a].pc # "persist"
    BY DEF AnswerPlaybook, At
  <1>2. WorldOK' /\ world'.clean = world.clean
    BY <1>1 DEF AnswersIInv, Typed, WorldOK
  <1>3. CASE Fails(a)
    BY <1>1, <1>2, <1>3, FailsTyped
  <1>4. CASE /\ Replies(a, "persist", Completed(job[a].ctx), Reply("PLAYBOOK"))
             /\ UNCHANGED <<cio, log>>
    <2>1. /\ "PLAYBOOK" \in Answered \ {"DEBATE", "MODE"}
          /\ analyses' \in Seq({"cio", "cio_brief", "debate"}) /\ watches' \in Seq(BOOLEAN)
      BY <1>1 DEF Answered, Kept, AnswersIInv, Typed, TablesOK
    <2>2. ReplyOK(Reply("PLAYBOOK")) /\ Reply("PLAYBOOK").kind = "PLAYBOOK"
      BY BlankOK DEF ReplyKind, Answered, Kept
    <2>3. /\ Typed' /\ job'[a].pc = "persist" /\ job'[a].reply.kind = "PLAYBOOK"
          /\ \A b \in Askers \ {a} : job'[b] = job[b]
      BY <1>1, <1>2, <1>4, <2>1, <2>2, OwnCtxOK, AnswerTyped
    <2>4. /\ Len(journal') = Len(journal) + Bit("PLAYBOOK" = "READ")
          /\ Len(watches') = Len(watches) + Bit("PLAYBOOK" = "WATCH")
      BY <1>1, LengthsType DEF Bit
    <2> QED
      BY <1>1, <1>2, <1>4, <2>1, <2>3, <2>4, AnswerUnkept
  <1> QED
    BY <1>3, <1>4 DEF AnswerPlaybook

LEMMA WatchTyped ==
  ASSUME AnswersIInv, NEW a \in Askers, AnswerWatch(a)
  PROVE  Typed' /\ RowsOfAnswers'
  <1>1. UNCHANGED <<world, journal, analyses, cio, log>> /\ job[a].pc # "persist"
    BY DEF AnswerWatch, At
  <1>2. WorldOK' /\ world'.clean = world.clean
    BY <1>1 DEF AnswersIInv, Typed, WorldOK
  <1>3. PICK derived \in BOOLEAN : watches' = Append(watches, derived)
    BY DEF AnswerWatch, Known
  <1>4. watches \in Seq(BOOLEAN)
    BY DEF AnswersIInv, Typed, TablesOK
  <1>5. watches' \in Seq(BOOLEAN) /\ Len(watches') = Len(watches) + 1
    BY <1>3, <1>4, AppendProperties
  <1>6. /\ "WATCH" \in Answered \ {"DEBATE", "MODE"}
        /\ analyses' \in Seq({"cio", "cio_brief", "debate"})
    BY <1>1 DEF Answered, AnswersIInv, Typed, TablesOK
  <1>7. ReplyOK(Reply("WATCH")) /\ Reply("WATCH").kind = "WATCH"
    BY BlankOK DEF ReplyKind, Answered
  <1>8. Replies(a, "persist", Completed(job[a].ctx), Reply("WATCH"))
    BY DEF AnswerWatch
  <1>9. /\ Typed' /\ job'[a].pc = "persist" /\ job'[a].reply.kind = "WATCH"
        /\ \A b \in Askers \ {a} : job'[b] = job[b]
    BY <1>1, <1>2, <1>5, <1>6, <1>7, <1>8, OwnCtxOK, AnswerTyped
  <1>10. /\ Len(journal') = Len(journal) + Bit("WATCH" = "READ")
         /\ Len(watches') = Len(watches) + Bit("WATCH" = "WATCH")
    BY <1>1, <1>5, LengthsType DEF Bit
  <1> QED
    BY <1>1, <1>2, <1>6, <1>9, <1>10, AnswerUnkept

(* The macro and the system answer. *)
LEMMA PlainTyped ==
  ASSUME AnswersIInv, NEW a \in Askers, AnswerMacro(a) \/ AnswerSystem(a)
  PROVE  Typed' /\ RowsOfAnswers'
  <1>1. UNCHANGED <<world, journal, analyses, watches>> /\ job[a].pc # "persist"
    BY DEF AnswerMacro, AnswerSystem, At
  <1>2. WorldOK' /\ world'.clean = world.clean
    BY <1>1 DEF AnswersIInv, Typed, WorldOK
  <1>3. CASE Fails(a)
    BY <1>1, <1>2, <1>3, FailsTyped
  <1>4. ASSUME NEW kind \in {"MACRO", "SYSTEM"},
               Replies(a, "persist", Blank, Reply(kind)), UNCHANGED <<cio, log>>
        PROVE  Typed' /\ RowsOfAnswers'
    <2>1. /\ kind \in Answered \ {"DEBATE", "MODE"} /\ kind # "READ" /\ kind # "WATCH"
          /\ analyses' \in Seq({"cio", "cio_brief", "debate"}) /\ watches' \in Seq(BOOLEAN)
      BY <1>1 DEF Answered, Kept, AnswersIInv, Typed, TablesOK
    <2>2. ReplyOK(Reply(kind)) /\ Reply(kind).kind = kind
      BY <2>1, BlankOK DEF ReplyKind
    <2>3. /\ Typed' /\ job'[a].pc = "persist" /\ job'[a].reply.kind = kind
          /\ \A b \in Askers \ {a} : job'[b] = job[b]
      BY <1>1, <1>2, <1>4, <2>1, <2>2, OwnCtxOK, AnswerTyped
    <2>4. /\ Len(journal') = Len(journal) + Bit(kind = "READ")
          /\ Len(watches') = Len(watches) + Bit(kind = "WATCH")
      BY <1>1, <2>1, LengthsType DEF Bit
    <2> QED
      BY <1>1, <1>2, <1>4, <2>1, <2>3, <2>4, AnswerUnkept
  <1>5. Fails(a) \/ \E kind \in {"MACRO", "SYSTEM"} :
                      Replies(a, "persist", Blank, Reply(kind)) /\ UNCHANGED <<cio, log>>
    BY DEF AnswerMacro, AnswerSystem
  <1> QED
    BY <1>3, <1>4, <1>5

(* What was pending is in the log, and its row in analyses unless it failed. *)
LEMMA PersistTyped ==
  ASSUME AnswersIInv, NEW a \in Askers, Persist(a)
  PROVE  Typed' /\ RowsOfAnswers'
  <1> DEFINE kind == job[a].reply.kind
             Five == {"READ", "MODE", "PLAYBOOK", "DEBATE", "MACRO"}
  <1>1. PICK ok \in BOOLEAN :
          /\ Commits(ok)
          /\ IF kind \in Unkept THEN ok /\ UNCHANGED analyses
             ELSE analyses' = IF ok THEN Append(analyses, "cio") ELSE analyses
    BY DEF Persist
  <1>2. /\ UNCHANGED <<journal, watches>> /\ log' = Append(log, kind) /\ cio' = "READY"
        /\ job' = [job EXCEPT ![a].pc = "done"] /\ job[a].pc = "persist"
    BY DEF Persist, At
  <1>3. DOMAIN job = Askers /\ DOMAIN job[a] = {"pc", "q", "ctx", "reply"}
    BY DEF AnswersIInv, DeskInv, Shape, JobsOK, JobOK, JobShape
  <1>4. /\ job'[a].pc = "done" /\ job'[a].ctx = job[a].ctx /\ job'[a].reply = job[a].reply
        /\ \A b \in Askers \ {a} : job'[b] = job[b]
    BY <1>2, <1>3
  <1>5. JobTyped(job[a]) /\ kind \in Answered
    BY <1>2 DEF AnswersIInv, Typed, JobsTyped, JobTyped
  <1>6. JobsTyped'
    <2>1. JobTyped(job'[a])
      BY <1>4, <1>5 DEF JobTyped, Steps, Waiting
    <2> QED
      BY <1>4, <2>1, OnlyOneMoves DEF AnswersIInv, Typed
  <1> HIDE DEF kind
  <1>7. WorldOK' /\ (world'.clean => world.clean /\ ok)
    BY <1>1, CommitsType DEF AnswersIInv, Typed
  <1>8. PICK kept \in BOOLEAN :
          /\ analyses' = IF kept THEN Append(analyses, "cio") ELSE analyses
          /\ kept => kind \in Five
          /\ ok => (kept <=> kind \in Five)
    <2>1. kind \in Unkept <=> kind \notin Five
      BY <1>5 DEF Unkept, Answered, Kept
    <2>2. CASE kind \in Unkept
      BY <1>1, <2>1, <2>2
    <2>3. CASE kind \notin Unkept
      BY <1>1, <2>1, <2>3
    <2> QED
      BY <2>2, <2>3
  <1>9. /\ analyses' \in Seq({"cio", "cio_brief", "debate"})
        /\ \A K : /\ Kinds(analyses, K) \in Nat /\ Kinds(analyses', K) \in Nat
                 /\ Kinds(analyses', K) = Kinds(analyses, K) + Bit(kept /\ "cio" \in K)
    BY <1>8, KindsIfKept
  <1>10. log \in Seq(ReplyKind) /\ kind \in ReplyKind
    BY <1>5 DEF ReplyKind, AnswersIInv, Typed, TablesOK
  <1>11. TablesOK' /\ RegistryOK'
    BY <1>2, <1>9, <1>10, AppendProperties DEF AnswersIInv, Typed, TablesOK, RegistryOK
  <1>12. ASSUME NEW K
         PROVE  /\ Kinds(log, K) \in Nat /\ Kinds(log', K) = Kinds(log, K) + Bit(kind \in K)
                /\ Kinds(log', K) + Pending(K)' = Kinds(log, K) + Pending(K)
    <2>1. Kinds(log, K) \in Nat /\ Kinds(log', K) = Kinds(log, K) + Bit(kind \in K)
      BY <1>2, <1>10, KindsAppend
    <2>2. Bit(Holds(job[a], K)) = Bit(kind \in K) /\ Bit(Holds(job'[a], K)) = 0
      BY <1>2, <1>4 DEF Holds, Bit, kind
    <2>3. Pending(K)' + Bit(Holds(job[a], K)) = Pending(K) + Bit(Holds(job'[a], K))
      BY <1>4, PendingMoves
    <2>4. Pending(K) \in Nat /\ Pending(K)' \in Nat /\ Bit(kind \in K) \in Nat
      BY CountsType DEF Bit
    <2> QED
      BY <2>1, <2>2, <2>3, <2>4
  <1>13. /\ Kinds(analyses', {"debate"}) = Kinds(analyses, {"debate"})
         /\ Kinds(analyses', {"cio_brief"}) = Kinds(analyses, {"cio_brief"})
         /\ Kinds(analyses', {"cio"}) = Kinds(analyses, {"cio"}) + Bit(kept)
    BY <1>9 DEF Bit
  <1>14. Kinds(log', {"DEBATE"}) + Pending({"DEBATE"})' <= Kinds(analyses', {"debate"})
    BY <1>12, <1>13 DEF AnswersIInv, RowsOfAnswers
  <1>15. Kinds(analyses', {"cio"}) <= Kinds(log', Five)
    <2>1. Kinds(log', Five) = Kinds(log, Five) + Bit(kind \in Five) /\ Kinds(log, Five) \in Nat
      BY <1>12
    <2>2. Kinds(analyses, {"cio"}) <= Kinds(log, Five)
      BY DEF AnswersIInv, RowsOfAnswers
    <2>3. Kinds(analyses, {"cio"}) \in Nat
      BY <1>9
    <2> HIDE DEF Five
    <2>4. Bit(kept) <= Bit(kind \in Five) /\ Bit(kept) \in Nat /\ Bit(kind \in Five) \in Nat
      BY <1>8 DEF Bit
    <2> QED
      BY <1>13, <2>1, <2>2, <2>3, <2>4
  <1>16. ASSUME world'.clean
         PROVE  /\ Kinds(log', {"READ"}) + Pending({"READ"})' = Len(journal')
                /\ Kinds(log', {"MODE"}) + Pending({"MODE"})' = Kinds(analyses', {"cio_brief"})
                /\ Kinds(log', {"DEBATE"}) + Pending({"DEBATE"})' = Kinds(analyses', {"debate"})
                /\ Kinds(log', {"WATCH"}) + Pending({"WATCH"})' = Len(watches')
                /\ Kinds(log', Five) = Kinds(analyses', {"cio"})
    <2>1. ok /\ world.clean
      BY <1>7, <1>16
    <2>2. /\ Kinds(log, {"READ"}) + Pending({"READ"}) = Len(journal)
          /\ Kinds(log, {"MODE"}) + Pending({"MODE"}) = Kinds(analyses, {"cio_brief"})
          /\ Kinds(log, {"DEBATE"}) + Pending({"DEBATE"}) = Kinds(analyses, {"debate"})
          /\ Kinds(log, {"WATCH"}) + Pending({"WATCH"}) = Len(watches)
          /\ Kinds(log, Five) = Kinds(analyses, {"cio"})
      BY <2>1 DEF AnswersIInv, RowsOfAnswers
    <2>3. Kinds(log', Five) = Kinds(log, Five) + Bit(kind \in Five)
      BY <1>12
    <2>4. Bit(kept) = Bit(kind \in Five)
      BY <1>8, <2>1 DEF Bit
    <2> HIDE DEF Five
    <2>5. Kinds(log', Five) = Kinds(analyses', {"cio"})
      BY <1>13, <2>2, <2>3, <2>4
    <2> QED
      BY <1>2, <1>12, <1>13, <2>2, <2>5
  <1>17. RowsOfAnswers'
    BY <1>14, <1>15, <1>16 DEF RowsOfAnswers
  <1> QED
    BY <1>6, <1>7, <1>11, <1>17 DEF Typed

LEMMA AnswersStep == AnswersIInv /\ [Next]_vars => AnswersIInv'
  <1> SUFFICES ASSUME AnswersIInv, [Next]_vars PROVE AnswersIInv'
    OBVIOUS
  <1>1. DeskInv'
    BY DeskStep DEF AnswersIInv
  <1>2. CASE Monitor \/ Restart
    BY <1>1, <1>2, MonitorTyped, RestartTyped DEF AnswersIInv
  <1>3. ASSUME NEW a \in Askers, Ask(a) \/ Break(a) PROVE AnswersIInv'
    BY <1>1, <1>3, AskTyped, BreakTyped DEF AnswersIInv
  <1>4. ASSUME NEW a \in Askers, Handler(a) PROVE AnswersIInv'
    <2>1. Typed' /\ RowsOfAnswers'
      BY <1>4, ReadsTyped, PipelineTyped, ModeTyped, PlaybookTyped, WatchTyped, ConveneTyped,
         PlainTyped, PersistTyped DEF Handler
    <2> QED
      BY <1>1, <2>1 DEF AnswersIInv
  <1>5. CASE UNCHANGED vars
    <2>1. WorldOK' /\ world'.clean = world.clean
      BY <1>5 DEF vars, AnswersIInv, Typed, WorldOK
    <2>2. Typed' /\ RowsOfAnswers'
      BY <1>5, <2>1, StillTyped DEF vars
    <2> QED
      BY <1>1, <2>2 DEF AnswersIInv
  <1> QED
    BY <1>2, <1>3, <1>4, <1>5 DEF Next

(* Every variable keeps its type, a debate that was answered was stored, a
   question that failed leaves no answer, and while nothing has failed or
   restarted the tables hold exactly one row for each thing answered, however
   many requests are being served (core/desk/cio.py, _persist_analysis). *)
THEOREM AnswersKept == Spec => []AnswersInv
  <1>1. AnswersIInv => AnswersInv
    BY TypedMeans
  <1> QED
    BY <1>1, AnswersInit, AnswersStep, PTL DEF Spec

-----------------------------------------------------------------------------
(* The gates: what an answer with worse input would have been. *)
PlanFor(q, ctx) == Plan(ctx, Opinions(AgentsFor(q), ctx))

(* Contexts that tell the doctrine the same. *)
SameView(c, d) ==
  /\ d.price = c.price /\ d.hi = c.hi /\ d.lo = c.lo /\ d.atr = c.atr /\ d.zone = c.zone
  /\ d.buy = c.buy /\ d.sell = c.sell /\ d.swept = c.swept /\ d.mapped = c.mapped
  /\ d.macro = c.macro /\ d.rhos = c.rhos /\ d.cot = c.cot /\ d.momentum = c.momentum
  /\ d.liquidity = c.liquidity /\ d.news = c.news

LEMMA SameDecision ==
  ASSUME NEW c, NEW d, SameView(c, d), d.snapshot = "RED_LIGHT" <=> c.snapshot = "RED_LIGHT"
  PROVE  Decide(d) = Decide(c)
  <1>1. PoolDistance(d) = PoolDistance(c)
    BY DEF SameView, PoolDistance
  <1>2. RewardRisks(d) = RewardRisks(c)
    BY DEF SameView, RewardRisks, LongRR, ShortRR
  <1>3. Extension(d) = Extension(c)
    BY <1>1 DEF SameView, Extension
  <1>4. StructureScore(d) = StructureScore(c)
    BY DEF SameView, StructureScore
  <1>5. BiasScore(d) = BiasScore(c)
    <2>1. /\ CrossAssetScore(d) = CrossAssetScore(c) /\ PositioningScore(d) = PositioningScore(c)
          /\ RegimeScore(d) = RegimeScore(c) /\ NewsScore(d) = NewsScore(c)
      BY DEF SameView, CrossAssetScore, PositioningScore, RegimeScore, NewsScore
    <2>2. d.macro = c.macro /\ d.liquidity = c.liquidity
      BY DEF SameView
    <2> QED
      BY <2>1, <2>2, <1>4 DEF BiasScore
  <1>6. Chasing(d) = Chasing(c) /\ BestRRBelowTwo(d) = BestRRBelowTwo(c)
    BY <1>2, <1>3 DEF Chasing, BestRRBelowTwo
  <1>7. DoctrineBias(d) = DoctrineBias(c)
    BY <1>4, <1>5 DEF DoctrineBias
  <1>8. d.swept = c.swept /\ d.mapped = c.mapped
    BY DEF SameView
  <1> QED
    BY <1>1, <1>2, <1>6, <1>7, <1>8 DEF Decide

LEMMA SameOpinions ==
  ASSUME NEW c, NEW d, SameView(c, d), d.vix = c.vix, d.riskMode = c.riskMode,
         d.active = c.active, d.share = c.share, d.quality = c.quality, NEW agent,
         agent # "liquidity-analyst" \/ (d.bid = c.bid /\ d.ask = c.ask)
  PROVE  SpecialistFuncs(agent, d) = SpecialistFuncs(agent, c)
  <1>1. RangeVote(d) = RangeVote(c) /\ \A limit : Wild(d, limit) = Wild(c, limit)
    BY DEF SameView, RangeVote, Ranged, Wild
  <1>2. /\ Metals(d) = Metals(c) /\ Crypto(d) = Crypto(c)
        /\ Equities(d) = Equities(c) /\ Forex(d) = Forex(c)
    BY <1>1 DEF SameView, Metals, Crypto, Equities, Forex
  <1>3. /\ Macro(d) = Macro(c) /\ Positioning(d) = Positioning(c)
        /\ CrossAsset(d) = CrossAsset(c) /\ News(d) = News(c) /\ Quant(d) = Quant(c)
    BY DEF SameView, Macro, Positioning, CrossAsset, News, Quant
  <1>4. CASE agent = "liquidity-analyst"
    <2>1. LiquidityDesk(d) = LiquidityDesk(c)
      BY <1>4 DEF LiquidityDesk, SpreadBelow
    <2> QED
      BY <1>4, <2>1 DEF SpecialistFuncs
  <1>5. CASE agent # "liquidity-analyst"
    BY <1>2, <1>3, <1>5 DEF SpecialistFuncs
  <1> QED
    BY <1>4, <1>5

(* A darker light that is not red changes nothing; a wider spread at most
   turns the plan into none. *)
LEMMA CautionKeepsThePlan ==
  ASSUME NEW q, NEW c, CtxOK(c), c.snapshot = "GREEN_LIGHT"
  PROVE  PlanFor(q, [c EXCEPT !.snapshot = "CAUTION"]) = PlanFor(q, c)
  <1> DEFINE d == [c EXCEPT !.snapshot = "CAUTION"]
  <1>1. /\ SameView(c, d) /\ d.vix = c.vix /\ d.riskMode = c.riskMode /\ d.status = c.status
        /\ d.active = c.active /\ d.share = c.share /\ d.quality = c.quality
        /\ d.bid = c.bid /\ d.ask = c.ask /\ d.snapshot = "CAUTION" /\ d.price = c.price
    BY DEF CtxOK, Blank, SameView
  <1> HIDE DEF d
  <1>2. Opinions(AgentsFor(q), d) = Opinions(AgentsFor(q), c)
    BY <1>1, SameOpinions DEF Opinions
  <1>3. Decide(d) = Decide(c)
    BY <1>1, SameDecision
  <1> DEFINE ops == Opinions(AgentsFor(q), c)
  <1> HIDE DEF ops
  <1>4. Blocked(d, ops) = Blocked(c, ops)
    BY <1>1 DEF Blocked, NoFreshQuote
  <1>5. Bias(d, ops) = Bias(c, ops)
    BY <1>4 DEF Bias
  <1>6. Plan(d, ops) = Plan(c, ops)
    BY <1>3, <1>4, <1>5 DEF Plan
  <1> QED
    BY <1>2, <1>6 DEF PlanFor, d, ops

LEMMA WiderSpreadOnlyStops ==
  ASSUME NEW q, NEW c, CtxOK(c), CtxShape(c), Known(c.bid), Known(c.ask), c.ask > c.bid,
         Known(c.ask + 40), PlanFor(q, [c EXCEPT !.ask = @ + 40]) \in Directions
  PROVE  PlanFor(q, [c EXCEPT !.ask = @ + 40]) = PlanFor(q, c)
  <1> DEFINE d == [c EXCEPT !.ask = @ + 40]
             opc == Opinions(AgentsFor(q), c)
             opd == Opinions(AgentsFor(q), d)
  <1>1. /\ SameView(c, d) /\ d.vix = c.vix /\ d.riskMode = c.riskMode /\ d.status = c.status
        /\ d.active = c.active /\ d.share = c.share /\ d.quality = c.quality
        /\ d.bid = c.bid /\ d.ask = c.ask + 40 /\ d.snapshot = c.snapshot /\ d.price = c.price
    BY DEF CtxOK, Blank, SameView
  <1>2. c.bid \in Nat /\ c.ask \in Nat
    BY DEF CtxShape
  <1>3. PlanFor(q, d) \in Directions
    OBVIOUS
  <1> HIDE DEF d
  <1>4. Decide(d) = Decide(c)
    BY <1>1, SameDecision
  <1>5. /\ DOMAIN opc = AgentsFor(q) /\ DOMAIN opd = AgentsFor(q)
        /\ \A a \in AgentsFor(q) : opc[a] = SpecialistFuncs(a, c) /\ opd[a] = SpecialistFuncs(a, d)
    BY DEF Opinions
  <1>6. \A a \in AgentsFor(q) : a # "liquidity-analyst" => opd[a] = opc[a]
    BY <1>1, <1>5, SameOpinions
  <1>7. "liquidity-analyst" \in AgentsFor(q)
    BY AlwaysCalled
  <1>8. opc["liquidity-analyst"] = LiquidityDesk(c) /\ opd["liquidity-analyst"] = LiquidityDesk(d)
    BY <1>5, <1>7 DEF SpecialistFuncs
  <1>9. /\ LiquidityDesk(c).stance \in {"PASS", "CAUTION", "REJECT"}
        /\ LiquidityDesk(d).stance \in {"PASS", "CAUTION", "REJECT"}
    BY DEF LiquidityDesk, Opinion
  <1>10. LiquidityDesk(c).stance = "REJECT" => LiquidityDesk(d).stance = "REJECT"
    <2>1. \A bps \in {5, 20} : SpreadBelow(d, bps) => SpreadBelow(c, bps)
      BY <1>1, <1>2 DEF SpreadBelow
    <2>2. Known(d.bid) /\ Known(d.ask) /\ d.ask > d.bid
      BY <1>1, <1>2
    <2> QED
      BY <2>1, <2>2 DEF LiquidityDesk, Opinion
  <1> HIDE DEF opc, opd
  <1>11. \A side \in {"LONG", "SHORT"} : Votes(opd, side) = Votes(opc, side)
    <2> SUFFICES ASSUME NEW side \in {"LONG", "SHORT"} PROVE Votes(opd, side) = Votes(opc, side)
      OBVIOUS
    <2>1. {a \in DOMAIN opd : opd[a].stance = side} = {a \in DOMAIN opc : opc[a].stance = side}
      BY <1>5, <1>6, <1>8, <1>9
    <2> QED
      BY <2>1 DEF Votes
  <1>12. Vetoed(opc) => Vetoed(opd)
    BY <1>5, <1>6, <1>7, <1>8, <1>10 DEF Vetoed
  <1>13. ~Blocked(d, opd)
    BY <1>3 DEF PlanFor, Plan, Directions, opd
  <1>14. ~Blocked(c, opc)
    BY <1>1, <1>12, <1>13 DEF Blocked, NoFreshQuote
  <1>15. Bias(d, opd) = Bias(c, opc)
    BY <1>11, <1>13, <1>14 DEF Bias
  <1>16. Plan(d, opd) = Plan(c, opc)
    BY <1>4, <1>13, <1>14, <1>15 DEF Plan
  <1> QED
    BY <1>16 DEF PlanFor, d, opc, opd

(* The worse inputs that stop a plan, whatever the opinions. *)
Stopping(c) ==
  {[c EXCEPT !.status = "STALE"], [c EXCEPT !.quality = 0], [c EXCEPT !.snapshot = "RED_LIGHT"]}

LEMMA BadQuoteStops ==
  ASSUME NEW q, NEW c, CtxOK(c),
         NEW d, d \in Stopping(c)
  PROVE  PlanFor(q, d) = "NO TRADE"
  <1> DEFINE ops == Opinions(AgentsFor(q), d)
  <1>1. d.status = "STALE" \/ d.quality = 0 \/ d.snapshot = "RED_LIGHT"
    BY DEF CtxOK, Blank, Stopping
  <1>2. ASSUME d.quality = 0 PROVE Vetoed(ops)
    <2>1. "quant-architect" \in DOMAIN ops /\ ops["quant-architect"] = SpecialistFuncs("quant-architect", d)
      BY AlwaysCalled DEF Opinions
    <2>2. SpecialistFuncs("quant-architect", d).stance = "REJECT"
      BY <1>2 DEF SpecialistFuncs, Quant, Opinion
    <2> HIDE DEF ops
    <2> QED
      BY <2>1, <2>2 DEF Vetoed
  <1> HIDE DEF ops
  <1>3. Blocked(d, ops)
    BY <1>1, <1>2 DEF Blocked, NoFreshQuote
  <1> QED
    BY <1>3 DEF PlanFor, Plan, ops

LEMMA WorsePlans ==
  ASSUME NEW q, NEW c, CtxOK(c), CtxShape(c), NEW d \in Worse(c), PlanFor(q, d) \in Directions
  PROVE  PlanFor(q, d) = PlanFor(q, c)
  <1>1. CASE d \in Stopping(c)
    <2>1. PlanFor(q, d) = "NO TRADE"
      BY <1>1, BadQuoteStops
    <2> QED
      BY <2>1 DEF Directions
  <1>2. CASE c.snapshot = "GREEN_LIGHT" /\ d = [c EXCEPT !.snapshot = "CAUTION"]
    BY <1>2, CautionKeepsThePlan
  <1>3. CASE /\ Known(c.bid) /\ Known(c.ask) /\ c.ask > c.bid /\ Known(c.ask + 40)
             /\ d = [c EXCEPT !.ask = @ + 40]
    BY <1>3, WiderSpreadOnlyStops
  <1> QED
    BY <1>1, <1>2, <1>3 DEF Worse, Stopping

-----------------------------------------------------------------------------
(* The verdicts on a debate. *)
Verdicts == {"VERIFIED", "PARTIALLY_VERIFIED", "INSUFFICIENT_EVIDENCE", "UNVERIFIED",
             "STALE_DATA", "CONFLICTING_DATA"}

Cited == {"SCOPE", "GOLD", "DXY", "US10Y", "VIX", "SPX"}

LEMMA OpinionVerdict ==
  ASSUME NEW sources \in Seq(Cited), NEW numbers, NEW stored
  PROVE  AuditOpinion(sources, numbers, stored) \in Verdicts
  <1> DEFINE states == [i \in DOMAIN sources |-> CheckSource(sources[i], stored)]
  <1>1. states \in Seq(Verdicts) /\ (sources # <<>> => states # <<>>)
    BY DEF CheckSource, Verdicts
  <1>2. sources # <<>> => Head(states) \in Verdicts
    BY <1>1, HeadTailProperties
  <1> HIDE DEF states
  <1>3. CASE sources = <<>>
    BY <1>3 DEF AuditOpinion, Verdicts
  <1>4. CASE sources # <<>>
    <2>1. AuditOpinion(sources, numbers, stored) =
            IF ToSet(states) = {"VERIFIED"} THEN "VERIFIED"
            ELSE IF "VERIFIED" \in ToSet(states) THEN "PARTIALLY_VERIFIED" ELSE Head(states)
      BY <1>4 DEF AuditOpinion, states
    <2> QED
      BY <1>2, <1>4, <2>1 DEF Verdicts
  <1> QED
    BY <1>3, <1>4

LEMMA AuditVerdicts ==
  ASSUME NEW market, NEW ms, NEW news, NEW stored
  PROVE  LET states == Audit(market, ms, news, stored)
         IN  /\ {states[v] : v \in DOMAIN states} \subseteq Verdicts
             /\ {states[v] : v \in DOMAIN states} # {}
  <1> DEFINE states == Audit(market, ms, news, stored)
             liquid == IF Known(ms.liquidity) THEN <<"SCOPE">> ELSE <<>>
  <1>1. /\ <<"DXY", "US10Y", "VIX", "SPX">> \in Seq(Cited) /\ <<"SCOPE">> \in Seq(Cited)
        /\ <<>> \in Seq(Cited) /\ <<"GOLD", "DXY", "SPX", "VIX">> \in Seq(Cited)
        /\ <<"SCOPE", "DXY">> \in Seq(Cited)
    BY DEF Cited
  <1>2. liquid \in Seq(Cited)
    BY <1>1
  <1>3. DOMAIN states = Speakers(market.class) /\ "orion-macro" \in Speakers(market.class)
    BY DEF Audit, Speakers
  <1>4. ASSUME NEW v \in Speakers(market.class)
        PROVE  \E sources \in Seq(Cited) : \E numbers : states[v] = AuditOpinion(sources, numbers, stored)
    <2> HIDE DEF liquid
    <2>1. v \in {"orion-macro", "orion-quant", "orion-liquidity", "orion-positioning",
                 "orion-news", "orion-crossasset", "orion-metals"}
      BY DEF Speakers
    <2>2. states[v] = CASE v = "orion-macro" -> AuditOpinion(<<"DXY", "US10Y", "VIX", "SPX">>, TRUE, stored)
          [] v = "orion-quant" -> AuditOpinion(<<"SCOPE">>, TRUE, stored)
          [] v = "orion-liquidity" -> AuditOpinion(liquid, Known(ms.liquidity), stored)
          [] v = "orion-positioning" -> AuditOpinion(<<>>, FALSE, stored)
          [] v = "orion-news" -> AuditOpinion(<<>>, news # "NONE", stored)
          [] v = "orion-crossasset" -> AuditOpinion(<<"GOLD", "DXY", "SPX", "VIX">>, TRUE, stored)
          [] v = "orion-metals" -> AuditOpinion(<<"SCOPE", "DXY">>, TRUE, stored)
      BY DEF Audit, liquid
    <2> QED
      BY <1>1, <1>2, <2>1, <2>2
  <1> HIDE DEF states
  <1>5. \A v \in DOMAIN states : states[v] \in Verdicts
    BY <1>3, <1>4, OpinionVerdict
  <1> QED
    BY <1>3, <1>5 DEF states

(* Where a verdict stands on either scale. *)
Place(s) == CASE s = "VERIFIED" -> 1 [] s = "PARTIALLY_VERIFIED" -> 2
              [] s = "INSUFFICIENT_EVIDENCE" -> 3 [] s = "UNVERIFIED" -> 4
              [] s = "STALE_DATA" -> 5 [] s = "CONFLICTING_DATA" -> 6

LEMMA Places ==
  ASSUME NEW s \in Verdicts
  PROVE  /\ Place(s) \in 1 .. 6 /\ Position(FromBest, s) = Place(s) /\ FromBest[Place(s)] = s
         /\ Position(FromWorst, s) = 7 - Place(s) /\ FromWorst[7 - Place(s)] = s
  <1>1. DOMAIN FromBest = 1 .. 6 /\ DOMAIN FromWorst = 1 .. 6
    BY DEF FromBest, FromWorst
  <1>2. /\ FromBest[1] = "VERIFIED" /\ FromBest[2] = "PARTIALLY_VERIFIED"
        /\ FromBest[3] = "INSUFFICIENT_EVIDENCE" /\ FromBest[4] = "UNVERIFIED"
        /\ FromBest[5] = "STALE_DATA" /\ FromBest[6] = "CONFLICTING_DATA"
    BY DEF FromBest
  <1>3. /\ FromWorst[6] = "VERIFIED" /\ FromWorst[5] = "PARTIALLY_VERIFIED"
        /\ FromWorst[4] = "INSUFFICIENT_EVIDENCE" /\ FromWorst[3] = "UNVERIFIED"
        /\ FromWorst[2] = "STALE_DATA" /\ FromWorst[1] = "CONFLICTING_DATA"
    BY DEF FromWorst
  <1>4. Place(s) \in 1 .. 6 /\ FromBest[Place(s)] = s /\ FromWorst[7 - Place(s)] = s
    BY <1>2, <1>3 DEF Place, Verdicts
  <1>5. \A i \in 1 .. 6 : FromBest[i] = s => i = Place(s)
    BY <1>2 DEF Place, Verdicts
  <1>6. \A i \in 1 .. 6 : FromWorst[i] = s => i = 7 - Place(s)
    BY <1>3 DEF Place, Verdicts
  <1> HIDE DEF FromBest, FromWorst, Place
  <1>7. Position(FromBest, s) = Place(s)
    BY <1>1, <1>4, <1>5 DEF Position
  <1>8. 7 - Place(s) \in 1 .. 6
    BY <1>4
  <1>9. Position(FromWorst, s) = 7 - Place(s)
    BY <1>1, <1>4, <1>6, <1>8 DEF Position
  <1> QED
    BY <1>4, <1>7, <1>9

(* Some verdict is the worst there is. *)
LEMMA SomeIsWorst ==
  ASSUME NEW S \in SUBSET Verdicts, S # {}
  PROVE  \E s \in S : \A t \in S : Place(t) <= Place(s)
  <1>1. \A s \in S : Place(s) \in 1 .. 6
    BY Places
  <1>2. CASE \E s \in S : Place(s) = 6
    BY <1>1, <1>2
  <1>3. CASE \A s \in S : Place(s) < 6
    <2>1. CASE \E s \in S : Place(s) = 5
      BY <1>1, <1>3, <2>1
    <2>2. CASE \A s \in S : Place(s) < 5
      <3>1. CASE \E s \in S : Place(s) = 4
        BY <1>1, <2>2, <3>1
      <3>2. CASE \A s \in S : Place(s) < 4
        <4>1. CASE \E s \in S : Place(s) = 3
          BY <1>1, <3>2, <4>1
        <4>2. CASE \A s \in S : Place(s) < 3
          BY <1>1, <4>2
        <4> QED
          BY <1>1, <3>2, <4>1, <4>2
      <3> QED
        BY <1>1, <2>2, <3>1, <3>2
    <2> QED
      BY <1>1, <1>3, <2>1, <2>2
  <1> QED
    BY <1>1, <1>2, <1>3

LEMMA SameVerdict ==
  ASSUME NEW S \in SUBSET Verdicts, S # {}, NEW discrepancy
  PROVE  /\ WorstState(S, discrepancy) = OverallState(S, discrepancy)
         /\ WorstState(S, discrepancy) = "VERIFIED" => S = {"VERIFIED"}
  <1>1. CASE discrepancy
    BY <1>1 DEF WorstState, OverallState
  <1>2. CASE ~discrepancy
    <2> DEFINE B == {Position(FromBest, s) : s \in S}
               W == {Position(FromWorst, s) : s \in S}
    <2>1. \A s \in S : /\ Place(s) \in 1 .. 6 /\ Position(FromBest, s) = Place(s)
                       /\ Position(FromWorst, s) = 7 - Place(s)
                       /\ FromBest[Place(s)] = s /\ FromWorst[7 - Place(s)] = s
      BY Places
    <2>2. PICK worst \in S : \A t \in S : Place(t) <= Place(worst)
      BY SomeIsWorst
    <2>3. /\ Place(worst) \in B /\ \A x \in B : x \in Int /\ x <= Place(worst)
          /\ 7 - Place(worst) \in W /\ \A x \in W : x \in Int /\ x >= 7 - Place(worst)
      BY <2>1, <2>2
    <2>4. Place(worst) \in 1 .. 6
      BY <2>1
    <2> HIDE DEF B, W
    <2>5. Max(B) = Place(worst)
      BY <2>3, <2>4 DEF Max
    <2>6. Min(W) = 7 - Place(worst)
      BY <2>3, <2>4 DEF Min
    <2>7. WorstState(S, discrepancy) = worst /\ OverallState(S, discrepancy) = worst
      BY <1>2, <2>1, <2>5, <2>6 DEF WorstState, OverallState, B, W
    <2>8. worst = "VERIFIED" => S = {"VERIFIED"}
      <3>1. SUFFICES ASSUME worst = "VERIFIED", NEW s \in S PROVE s = "VERIFIED"
        BY <2>2
      <3>2. Place(worst) = 1
        BY <3>1 DEF Place
      <3>3. Place(s) = 1
        BY <2>1, <2>2, <3>2
      <3>4. FromBest[Place(s)] = s /\ FromBest[Place(worst)] = worst
        BY <2>1
      <3> QED
        BY <3>1, <3>2, <3>3, <3>4
    <2> QED
      BY <2>7, <2>8
  <1> QED
    BY <1>1, <1>2

-----------------------------------------------------------------------------
(* A read tells the plan of its own context, and a debate the verdicts of an
   audit: what the two properties need of the replies. *)
Earned(j) ==
  /\ j.reply.kind = "READ" => j.reply.plan = PlanFor(j.q, j.ctx)
  /\ j.reply.kind = "DEBATE" => j.reply.audit \in SUBSET Verdicts /\ j.reply.audit # {}

RepliesEarned == \A a \in Askers : Earned(job[a])
RepliesInv == AnswersIInv /\ RepliesEarned

LEMMA RepliesMean == RepliesInv => WorseInputNeverMakesAPlan /\ TwoAuditsAgree
  <1> SUFFICES ASSUME RepliesInv PROVE WorseInputNeverMakesAPlan /\ TwoAuditsAgree
    OBVIOUS
  <1>1. WorseInputNeverMakesAPlan
    <2> SUFFICES ASSUME NEW a \in Askers, Read(a), NEW ctx \in Worse(job[a].ctx),
                        PlanFor(job[a].q, ctx) \in Directions
                 PROVE  PlanFor(job[a].q, ctx) = job[a].reply.plan
      BY DEF WorseInputNeverMakesAPlan, PlanFor
    <2>1. CtxOK(job[a].ctx) /\ CtxShape(job[a].ctx)
      BY OwnCtxOK DEF RepliesInv, AnswersIInv, DeskInv, Shape, JobsOK, JobOK
    <2>2. job[a].reply.plan = PlanFor(job[a].q, job[a].ctx)
      BY DEF RepliesInv, RepliesEarned, Earned, Read
    <2> QED
      BY <2>1, <2>2, WorsePlans
  <1>2. TwoAuditsAgree
    BY SameVerdict DEF TwoAuditsAgree, RepliesInv, RepliesEarned, Earned
  <1> QED
    BY <1>1, <1>2

LEMMA NothingEarned ==
  /\ Earned(Nobody) /\ \A q, pc : Earned([Nobody EXCEPT !.pc = pc, !.q = q])
  /\ \A kind : Reply(kind).kind = kind
  BY DEF Earned, Nobody, NoReply, Reply

LEMMA EarnedMoves ==
  ASSUME RepliesEarned, NEW a \in Askers, Earned(job'[a]), \A b \in Askers \ {a} : job'[b] = job[b]
  PROVE  RepliesEarned'
  BY DEF RepliesEarned

LEMMA UnansweredEarned ==
  ASSUME RepliesInv, NEW a \in Askers, job[a].pc \notin Answering, NEW pc, NEW ctx, Goes(a, pc, ctx)
  PROVE  RepliesEarned'
  <1>1. job[a].reply.kind = "NONE"
    BY DEF RepliesInv, AnswersIInv, DeskInv, Shape, JobsOK, JobOK, NotYet, NoReply
  <1>2. job'[a].reply = job[a].reply /\ \A b \in Askers \ {a} : job'[b] = job[b]
    BY MovesTo DEF RepliesInv, AnswersIInv
  <1>3. Earned(job'[a])
    BY <1>1, <1>2 DEF Earned
  <1> QED
    BY <1>2, <1>3, EarnedMoves DEF RepliesInv

LEMMA PlainEarned ==
  ASSUME RepliesInv, NEW a \in Askers, NEW pc, NEW ctx, NEW reply,
         reply.kind \notin {"READ", "DEBATE"}, Replies(a, pc, ctx, reply)
  PROVE  RepliesEarned'
  <1>1. job'[a].reply = reply /\ \A b \in Askers \ {a} : job'[b] = job[b]
    BY RepliesTo DEF RepliesInv, AnswersIInv
  <1>2. Earned(job'[a])
    BY <1>1 DEF Earned
  <1> QED
    BY <1>1, <1>2, EarnedMoves DEF RepliesInv

LEMMA ReadsEarned ==
  ASSUME RepliesInv, NEW a \in Askers,
         ReadPrice(a) \/ ReadTechnicals(a) \/ ReadBrain(a) \/ ReadPositioning(a) \/ ReadNews(a) \/ DebateRead(a)
  PROVE  RepliesEarned'
  <1>1. job[a].pc \notin Answering
    BY DEF ReadPrice, ReadTechnicals, ReadBrain, ReadPositioning, ReadNews, DebateRead, At, Answering
  <1>2. \E pc, ctx : Goes(a, pc, ctx)
    BY DEF ReadPrice, ReadTechnicals, ReadBrain, ReadPositioning, ReadNews, DebateRead
  <1> QED
    BY <1>1, <1>2, UnansweredEarned

LEMMA PipelineEarned ==
  ASSUME RepliesInv, NEW a \in Askers, AnswerPipeline(a)
  PROVE  RepliesEarned'
  <1> DEFINE ctx == Completed(job[a].ctx)
  <1>1. PICK reply : /\ reply.plan = PlanFor(job[a].q, ctx) /\ reply.kind = "READ"
                     /\ Replies(a, "persist", ctx, reply)
    BY DEF AnswerPipeline, Reply, NoReply, PlanFor
  <1> HIDE DEF ctx
  <1>2. /\ job'[a].ctx = ctx /\ job'[a].reply = reply /\ job'[a].q = job[a].q
        /\ \A b \in Askers \ {a} : job'[b] = job[b]
    BY <1>1, RepliesTo DEF RepliesInv, AnswersIInv
  <1>3. Earned(job'[a])
    BY <1>1, <1>2 DEF Earned
  <1> QED
    BY <1>2, <1>3, EarnedMoves DEF RepliesInv

LEMMA ConveneEarned ==
  ASSUME RepliesInv, NEW a \in Askers, Convene(a)
  PROVE  RepliesEarned'
  <1> DEFINE states == Audit(Market, job[a].ctx, world.news, Stored)
  <1>1. PICK ctx, reply : /\ reply.audit = {states[v] : v \in DOMAIN states}
                          /\ reply.kind = "DEBATE" /\ Replies(a, "persist", ctx, reply)
    BY DEF Convene, DebateReply, Reply, NoReply
  <1>2. {states[v] : v \in DOMAIN states} \subseteq Verdicts /\ {states[v] : v \in DOMAIN states} # {}
    BY AuditVerdicts
  <1> HIDE DEF states
  <1>3. job'[a].reply = reply /\ \A b \in Askers \ {a} : job'[b] = job[b]
    BY <1>1, RepliesTo DEF RepliesInv, AnswersIInv
  <1>4. Earned(job'[a])
    BY <1>1, <1>2, <1>3 DEF Earned
  <1> QED
    BY <1>3, <1>4, EarnedMoves DEF RepliesInv

LEMMA OthersEarned ==
  ASSUME RepliesInv, NEW a \in Askers,
         AnswerMode(a) \/ AnswerPlaybook(a) \/ AnswerWatch(a) \/ AnswerMacro(a) \/ AnswerSystem(a)
  PROVE  RepliesEarned'
  <1>1. \A kind : Reply(kind).kind = kind /\ \A e : [Reply(kind) EXCEPT !.expected = e].kind = kind
    BY DEF Reply, NoReply
  <1>2. \E pc, ctx, reply : reply.kind \notin {"READ", "DEBATE"} /\ Replies(a, pc, ctx, reply)
    <2>1. CASE AnswerMode(a)
      BY <1>1, <2>1 DEF AnswerMode
    <2>2. CASE AnswerPlaybook(a)
      BY <1>1, <2>2 DEF AnswerPlaybook, Fails
    <2>3. CASE AnswerWatch(a)
      BY <1>1, <2>3 DEF AnswerWatch
    <2>4. CASE AnswerMacro(a) \/ AnswerSystem(a)
      BY <1>1, <2>4 DEF AnswerMacro, AnswerSystem, Fails
    <2> QED
      BY <2>1, <2>2, <2>3, <2>4
  <1> QED
    BY <1>2, PlainEarned

LEMMA PersistEarned ==
  ASSUME RepliesInv, NEW a \in Askers, Persist(a)
  PROVE  RepliesEarned'
  <1>1. job' = [job EXCEPT ![a].pc = "done"]
    BY DEF Persist
  <1>2. DOMAIN job = Askers /\ DOMAIN job[a] = {"pc", "q", "ctx", "reply"}
    BY DEF RepliesInv, AnswersIInv, DeskInv, Shape, JobsOK, JobOK, JobShape
  <1>3. /\ job'[a].ctx = job[a].ctx /\ job'[a].reply = job[a].reply /\ job'[a].q = job[a].q
        /\ \A b \in Askers \ {a} : job'[b] = job[b]
    BY <1>1, <1>2
  <1>4. Earned(job'[a])
    BY <1>3 DEF Earned, RepliesInv, RepliesEarned
  <1> QED
    BY <1>3, <1>4, EarnedMoves DEF RepliesInv

LEMMA BreakEarned ==
  ASSUME RepliesInv, NEW a \in Askers, Break(a)
  PROVE  RepliesEarned'
  <1>1. job[a].pc \notin Answering
    BY DEF Break, Answering
  <1>2. (\E pc, ctx : Goes(a, pc, ctx)) \/ Fails(a)
    BY DEF Break
  <1>3. CASE Fails(a)
    <2>1. Reply("FAILED").kind \notin {"READ", "DEBATE"}
      BY DEF Reply, NoReply
    <2> QED
      BY <1>3, <2>1, PlainEarned DEF Fails
  <1> QED
    BY <1>1, <1>2, <1>3, UnansweredEarned

LEMMA RepliesStep == RepliesInv /\ [Next]_vars => RepliesInv'
  <1> SUFFICES ASSUME RepliesInv, [Next]_vars PROVE RepliesEarned'
    BY AnswersStep DEF RepliesInv
  <1>1. CASE Monitor \/ UNCHANGED vars
    <2>1. job' = job
      BY <1>1 DEF Monitor, StoreQuote, QuoteAges, StoreNews, StoreSnapshot, Writes, vars
    <2> QED
      BY <2>1 DEF RepliesInv, RepliesEarned
  <1>2. CASE Restart
    BY <1>2, NothingEarned DEF Restart, RepliesEarned
  <1>3. ASSUME NEW a \in Askers, Ask(a) PROVE RepliesEarned'
    <2>1. PICK q : job' = [job EXCEPT ![a] = [Nobody EXCEPT !.pc = FirstStep(q), !.q = q]]
      BY <1>3 DEF Ask
    <2>2. DOMAIN job = Askers
      BY DEF RepliesInv, AnswersIInv, DeskInv, Shape, JobsOK
    <2>3. Earned(job'[a]) /\ \A b \in Askers \ {a} : job'[b] = job[b]
      BY <2>1, <2>2, NothingEarned
    <2> QED
      BY <2>3, EarnedMoves DEF RepliesInv
  <1>4. ASSUME NEW a \in Askers, Break(a) PROVE RepliesEarned'
    BY <1>4, BreakEarned
  <1>5. ASSUME NEW a \in Askers, Handler(a) PROVE RepliesEarned'
    BY <1>5, ReadsEarned, PipelineEarned, ConveneEarned, OthersEarned, PersistEarned DEF Handler
  <1> QED
    BY <1>1, <1>2, <1>3, <1>4, <1>5 DEF Next

LEMMA RepliesInit == Init => RepliesInv
  BY AnswersInit, NothingEarned DEF Init, RepliesInv, RepliesEarned

(* The gates are monotone: an older quote, worse data, a darker light or a
   wider spread never makes a plan where there was none and never turns one
   round (core/desk/specialists.py, cio.py, doctrine.py). *)
THEOREM GatesAreMonotone == Spec => []WorseInputNeverMakesAPlan
  BY RepliesInit, RepliesStep, RepliesMean, PTL DEF Spec

(* The two scales of verdicts, core/debate/engine.py's and core/audit's, give
   every debate the same overall verdict, and VERIFIED only where every voice
   was. *)
THEOREM AuditsAgree == Spec => []TwoAuditsAgree
  BY RepliesInit, RepliesStep, RepliesMean, PTL DEF Spec

-----------------------------------------------------------------------------
(* Sums over finite sets, one element at a time: pick[T] is taken last. *)
LEMMA Induct ==
  ASSUME NEW S, 0 \in S, \A n \in Nat : n \in S => n + 1 \in S
  PROVE  Nat \subseteq S
  <1> DEFINE T == Nat \ S
  <1>1. SUFFICES ASSUME T # {} PROVE FALSE
    OBVIOUS
  <1>2. PICK m \in T : \A k \in T : <<k, m>> \notin OpToRel(<, Nat)
    BY <1>1, NatLessThanWellFounded, WFMin, Zenon
  <1>3. \A k \in T : ~(k < m)
    BY <1>2 DEF OpToRel
  <1> QED
    BY <1>3

LEMMA Without ==
  ASSUME NEW S, IsFiniteSet(S), NEW x \in S
  PROVE  IsFiniteSet(S \ {x}) /\ Cardinality(S) \in Nat /\ Cardinality(S \ {x}) = Cardinality(S) - 1
  BY FS_RemoveElement, FS_CardinalityType

Picks(pick, S) == IsFiniteSet(S) /\ \A T \in SUBSET S : T # {} => pick[T] \in T
Inherits(K, pick, S) ==
  {} \in K /\ \A T \in SUBSET S : T # {} /\ T \ {pick[T]} \in K => T \in K

LEMMA PickInduct ==
  ASSUME NEW S, NEW pick, Picks(pick, S), NEW K, Inherits(K, pick, S)
  PROVE  SUBSET S \subseteq K
  <1> DEFINE N == {n \in Nat : \A T \in SUBSET S : Cardinality(T) = n => T \in K}
  <1>1. \A T \in SUBSET S : IsFiniteSet(T) /\ Cardinality(T) \in Nat
    BY FS_Subset, FS_CardinalityType DEF Picks
  <1>2. 0 \in N
    <2>1. ASSUME NEW T \in SUBSET S, Cardinality(T) = 0 PROVE T \in K
      <3>1. IsFiniteSet(T)
        BY <1>1
      <3> QED
        BY <2>1, <3>1, FS_EmptySet DEF Inherits
    <2> QED
      BY <2>1
  <1>3. ASSUME NEW n \in Nat, n \in N PROVE n + 1 \in N
    <2> SUFFICES ASSUME NEW T \in SUBSET S, Cardinality(T) = n + 1 PROVE T \in K
      OBVIOUS
    <2>1. T # {}
      <3>1. Cardinality(T) # 0
        OBVIOUS
      <3> QED
        BY <3>1, FS_EmptySet
    <2>2. pick[T] \in T /\ IsFiniteSet(T)
      BY <1>1, <2>1 DEF Picks
    <2>3. Cardinality(T \ {pick[T]}) = n
      BY <2>2, Without
    <2>4. T \ {pick[T]} \in K
      BY <1>3, <2>3
    <2> QED
      BY <2>1, <2>4 DEF Inherits
  <1>4. Nat \subseteq N
    <2> HIDE DEF N
    <2> QED
      BY <1>2, <1>3, Induct
  <1> QED
    BY <1>1, <1>4

(* A fold takes the elements of a set one at a time: g is one step of it, from
   an element and the value so far.  Its recursive definition has a solution,
   by the size of the set. *)
StepIn(g, S, V) == g \in [S \X V -> V]
Folded(F, S, V, base, g, pick) ==
  /\ F \in [SUBSET S -> V] /\ F[{}] = base
  /\ \A T \in SUBSET S : T # {} => F[T] = g[<<pick[T], F[T \ {pick[T]}]>>]

LEMMA FoldsExist ==
  ASSUME NEW S, NEW pick, Picks(pick, S), NEW V, NEW base \in V, NEW g, StepIn(g, S, V)
  PROVE  \E F : Folded(F, S, V, base, g, pick)
  <1> DEFINE Upto(n) == {T \in SUBSET S : Cardinality(T) <= n}
             By(F, n) == /\ F \in [Upto(n) -> V] /\ F[{}] = base
                         /\ \A T \in Upto(n) : T # {} => F[T] = g[<<pick[T], F[T \ {pick[T]}]>>]
             N == {n \in Nat : \E F : By(F, n)}
  <1>1. \A T \in SUBSET S : IsFiniteSet(T) /\ Cardinality(T) \in Nat
    BY FS_Subset, FS_CardinalityType DEF Picks
  <1>2. \A T \in SUBSET S : T # {} =>
          /\ pick[T] \in T /\ pick[T] \in S
          /\ T \ {pick[T]} \in SUBSET S /\ Cardinality(T \ {pick[T]}) = Cardinality(T) - 1
    <2> SUFFICES ASSUME NEW T \in SUBSET S, T # {}
                 PROVE  /\ pick[T] \in T /\ pick[T] \in S
                        /\ T \ {pick[T]} \in SUBSET S /\ Cardinality(T \ {pick[T]}) = Cardinality(T) - 1
      OBVIOUS
    <2>1. pick[T] \in T
      BY DEF Picks
    <2>2. pick[T] \in S
      BY <2>1
    <2> QED
      BY <1>1, <2>1, <2>2, Without
  <1>3. Cardinality({}) = 0
    BY FS_EmptySet
  <1>4. 0 \in N
    <2> DEFINE G == [T \in Upto(0) |-> base]
    <2>1. ASSUME NEW T \in Upto(0) PROVE T = {}
      <3>1. IsFiniteSet(T) /\ Cardinality(T) = 0
        BY <1>1, <2>1
      <3> QED
        BY <3>1, FS_EmptySet
    <2>2. {} \in Upto(0)
      BY <1>3
    <2>3. By(G, 0)
      <3> HIDE DEF Upto
      <3> QED
        BY <2>1, <2>2
    <2> HIDE DEF By, G
    <2> QED
      BY <2>3
  <1>5. ASSUME NEW n \in Nat, NEW F, By(F, n) PROVE \E G : By(G, n + 1)
    <2> DEFINE G == [T \in Upto(n + 1) |-> IF T = {} THEN base ELSE g[<<pick[T], F[T \ {pick[T]}]>>]]
    <2>1. \A T \in Upto(n + 1) : T # {} => T \ {pick[T]} \in Upto(n) /\ T \in SUBSET S
      BY <1>1, <1>2
    <2>2. \A T \in Upto(n) : T \in Upto(n + 1) /\ T \in SUBSET S
      BY <1>1
    <2>3. {} \in Upto(n) /\ {} \in Upto(n + 1)
      BY <1>3
    <2> HIDE DEF Upto
    <2>4. G \in [Upto(n + 1) -> V]
      <3>1. \A T \in Upto(n + 1) : T # {} => g[<<pick[T], F[T \ {pick[T]}]>>] \in V
        BY <1>2, <1>5, <2>1 DEF StepIn
      <3> QED
        BY <3>1
    <2>5. G[{}] = base
      BY <2>3
    <2>6. \A T \in Upto(n) : G[T] = F[T]
      <3>1. \A T \in Upto(n) : T = {} => G[T] = F[T]
        BY <1>5, <2>2
      <3>2. \A T \in Upto(n) : T # {} => G[T] = F[T]
        BY <1>5, <2>2
      <3> QED
        BY <3>1, <3>2
    <2>7. \A T \in Upto(n + 1) : T # {} => G[T] = g[<<pick[T], G[T \ {pick[T]}]>>]
      BY <2>1, <2>6
    <2> HIDE DEF G
    <2>8. By(G, n + 1)
      BY <2>4, <2>5, <2>7
    <2> HIDE DEF By
    <2> QED
      BY <2>8
  <1>6. Nat \subseteq N
    <2> HIDE DEF By
    <2>1. \A n \in Nat : n \in N => n + 1 \in N
      BY <1>5
    <2> HIDE DEF N
    <2> QED
      BY <1>4, <2>1, Induct
  <1>7. PICK F : By(F, Cardinality(S))
    <2> HIDE DEF By
    <2>1. Cardinality(S) \in Nat
      BY <1>1
    <2> QED
      BY <1>6, <2>1
  <1>8. Upto(Cardinality(S)) = SUBSET S
    <2>1. \A T \in SUBSET S : Cardinality(T) <= Cardinality(S)
      BY FS_Subset DEF Picks
    <2> QED
      BY <2>1
  <1>9. Folded(F, S, V, base, g, pick)
    <2> HIDE DEF Upto
    <2> QED
      BY <1>7, <1>8 DEF Folded
  <1> QED
    BY <1>9

(* A sum is such a fold. *)
Sums(F, S, f, pick) ==
  /\ F \in [SUBSET S -> Int] /\ F[{}] = 0
  /\ \A T \in SUBSET S : T # {} => F[T] = f[pick[T]] + F[T \ {pick[T]}]

LEMMA SumsExist ==
  ASSUME NEW S, NEW pick, Picks(pick, S), NEW f \in [S -> Int]
  PROVE  \E F : Sums(F, S, f, pick)
  <1> DEFINE g == [z \in S \X Int |-> f[z[1]] + z[2]]
  <1>1. StepIn(g, S, Int)
    BY DEF StepIn
  <1>2. \A x \in S, v \in Int : g[<<x, v>>] = f[x] + v
    OBVIOUS
  <1> HIDE DEF g
  <1>3. PICK F : Folded(F, S, Int, 0, g, pick)
    <2>1. 0 \in Int
      OBVIOUS
    <2> QED
      BY <1>1, <2>1, FoldsExist
  <1>4. \A T \in SUBSET S : T # {} => F[T] = f[pick[T]] + F[T \ {pick[T]}]
    <2> SUFFICES ASSUME NEW T \in SUBSET S, T # {} PROVE F[T] = f[pick[T]] + F[T \ {pick[T]}]
      OBVIOUS
    <2>1. pick[T] \in S /\ T \ {pick[T]} \in SUBSET S
      BY DEF Picks
    <2> QED
      BY <1>2, <1>3, <2>1 DEF Folded
  <1>5. Sums(F, S, f, pick)
    BY <1>3, <1>4 DEF Folded, Sums
  <1> QED
    BY <1>5

(* A function that goes on from one sum to the next is the sum. *)
GoesOnAs(iter, S, f, pick) ==
  /\ iter[{}] = 0
  /\ \A T \in SUBSET S : T # {} /\ iter[T \ {pick[T]}] \in Int =>
       iter[T] = f[pick[T]] + iter[T \ {pick[T]}]

LEMMA SumsAgree ==
  ASSUME NEW S, NEW pick, Picks(pick, S), NEW f, NEW F, Sums(F, S, f, pick),
         NEW iter, GoesOnAs(iter, S, f, pick)
  PROVE  iter[S] = F[S]
  <1> DEFINE K == {T \in SUBSET S : iter[T] = F[T]}
  <1>1. Inherits(K, pick, S)
    <2>1. {} \in K
      BY DEF Sums, GoesOnAs
    <2>2. ASSUME NEW T \in SUBSET S, T # {}, T \ {pick[T]} \in K PROVE T \in K
      <3>1. iter[T \ {pick[T]}] = F[T \ {pick[T]}] /\ F[T \ {pick[T]}] \in Int
        BY <2>2 DEF Sums
      <3> QED
        BY <2>2, <3>1 DEF Sums, GoesOnAs
    <2> HIDE DEF K
    <2> QED
      BY <2>1, <2>2 DEF Inherits
  <1>2. SUBSET S \subseteq K
    <2> HIDE DEF K
    <2> QED
      BY <1>1, PickInduct
  <1> QED
    BY <1>2

(* Larger terms, a larger sum; opposite terms, the opposite sum; and a sum of
   numbers that are not less than 1 is not either, unless it is empty. *)
LEMMA SumsCompare ==
  ASSUME NEW S, NEW pick, Picks(pick, S), NEW f \in [S -> Int], NEW g \in [S -> Int],
         NEW F, Sums(F, S, f, pick), NEW G, Sums(G, S, g, pick)
  PROVE  /\ (\A x \in S : f[x] <= g[x]) => F[S] <= G[S]
         /\ (\A x \in S : g[x] = -f[x]) => G[S] = -F[S]
         /\ (\A x \in S : f[x] >= 1) /\ S # {} => F[S] >= 1
  <1>1. \A T \in SUBSET S : /\ F[T] \in Int /\ G[T] \in Int
                            /\ T # {} => /\ pick[T] \in S /\ T \ {pick[T]} \in SUBSET S
                                         /\ f[pick[T]] \in Int /\ g[pick[T]] \in Int
                                         /\ F[T \ {pick[T]}] \in Int /\ G[T \ {pick[T]}] \in Int
                                         /\ F[T] = f[pick[T]] + F[T \ {pick[T]}]
                                         /\ G[T] = g[pick[T]] + G[T \ {pick[T]}]
    <2> SUFFICES ASSUME NEW T \in SUBSET S
                 PROVE  /\ F[T] \in Int /\ G[T] \in Int
                        /\ T # {} => /\ pick[T] \in S /\ T \ {pick[T]} \in SUBSET S
                                     /\ f[pick[T]] \in Int /\ g[pick[T]] \in Int
                                     /\ F[T \ {pick[T]}] \in Int /\ G[T \ {pick[T]}] \in Int
                                     /\ F[T] = f[pick[T]] + F[T \ {pick[T]}]
                                     /\ G[T] = g[pick[T]] + G[T \ {pick[T]}]
      OBVIOUS
    <2>1. T # {} => pick[T] \in S
      BY DEF Picks
    <2>2. T \ {pick[T]} \in SUBSET S
      OBVIOUS
    <2> QED
      BY <2>1, <2>2 DEF Sums
  <1>2. F[{}] = 0 /\ G[{}] = 0 /\ {} \in SUBSET S
    BY DEF Sums
  <1>3. ASSUME \A x \in S : f[x] <= g[x] PROVE F[S] <= G[S]
    <2> DEFINE K == {T \in SUBSET S : F[T] <= G[T]}
    <2>1. {} \in K
      BY <1>2
    <2>2. ASSUME NEW T \in SUBSET S, T # {}, T \ {pick[T]} \in K PROVE T \in K
      <3>1. F[T \ {pick[T]}] <= G[T \ {pick[T]}] /\ f[pick[T]] <= g[pick[T]]
        BY <1>1, <1>3, <2>2
      <3>2. /\ f[pick[T]] \in Int /\ g[pick[T]] \in Int
            /\ F[T \ {pick[T]}] \in Int /\ G[T \ {pick[T]}] \in Int
            /\ F[T] = f[pick[T]] + F[T \ {pick[T]}]
            /\ G[T] = g[pick[T]] + G[T \ {pick[T]}]
        BY <1>1, <2>2
      <3>3. F[T] <= G[T]
        BY <3>1, <3>2
      <3> QED
        BY <3>3
    <2>3. SUBSET S \subseteq K
      <3> HIDE DEF K
      <3>1. Inherits(K, pick, S)
        BY <2>1, <2>2 DEF Inherits
      <3> QED
        BY <3>1, PickInduct
    <2> QED
      BY <2>3
  <1>4. ASSUME \A x \in S : g[x] = -f[x] PROVE G[S] = -F[S]
    <2> DEFINE K == {T \in SUBSET S : G[T] = -F[T]}
    <2>1. {} \in K
      BY <1>2
    <2>2. ASSUME NEW T \in SUBSET S, T # {}, T \ {pick[T]} \in K PROVE T \in K
      <3>1. G[T \ {pick[T]}] = -F[T \ {pick[T]}] /\ g[pick[T]] = -f[pick[T]]
        BY <1>1, <1>4, <2>2
      <3>2. /\ f[pick[T]] \in Int /\ F[T \ {pick[T]}] \in Int
            /\ F[T] = f[pick[T]] + F[T \ {pick[T]}]
            /\ G[T] = g[pick[T]] + G[T \ {pick[T]}]
        BY <1>1, <2>2
      <3>3. G[T] = -F[T]
        BY <3>1, <3>2
      <3> QED
        BY <3>3
    <2>3. SUBSET S \subseteq K
      <3> HIDE DEF K
      <3>1. Inherits(K, pick, S)
        BY <2>1, <2>2 DEF Inherits
      <3> QED
        BY <3>1, PickInduct
    <2> QED
      BY <2>3
  <1>5. ASSUME \A x \in S : f[x] >= 1, S # {} PROVE F[S] >= 1
    <2> DEFINE K == {T \in SUBSET S : T # {} => F[T] >= 1}
    <2>1. {} \in K
      OBVIOUS
    <2>2. ASSUME NEW T \in SUBSET S, T # {}, T \ {pick[T]} \in K PROVE T \in K
      <3>1. T \ {pick[T]} = {} => F[T \ {pick[T]}] = 0
        BY <1>2
      <3>2. T \ {pick[T]} # {} => F[T \ {pick[T]}] >= 1
        BY <2>2
      <3>3. f[pick[T]] >= 1
        BY <1>1, <1>5, <2>2
      <3>4. /\ f[pick[T]] \in Int /\ F[T \ {pick[T]}] \in Int
            /\ F[T] = f[pick[T]] + F[T \ {pick[T]}]
        BY <1>1, <2>2
      <3>5. F[T \ {pick[T]}] >= 0
        BY <3>1, <3>2, <3>4
      <3>6. F[T] >= 1
        BY <3>3, <3>4, <3>5
      <3> QED
        BY <3>6
    <2>3. SUBSET S \subseteq K
      <3> HIDE DEF K
      <3>1. Inherits(K, pick, S)
        BY <2>1, <2>2 DEF Inherits
      <3> QED
        BY <3>1, PickInduct
    <2> QED
      BY <1>5, <2>3
  <1> QED
    BY <1>3, <1>4, <1>5

-----------------------------------------------------------------------------
(* A consensus adds up sequences; a score of the brain, sets of terms. *)
LEMMA PlacesFinite ==
  ASSUME NEW n \in Nat, NEW s \in SUBSET (1..n)
  PROVE  IsFiniteSet(s) /\ s \subseteq Int
  <1>1. IsFiniteSet(1..n)
    BY FS_Interval
  <1>2. IsFiniteSet(s)
    BY <1>1, FS_Subset
  <1>3. s \subseteq Int
    OBVIOUS
  <1> QED
    BY <1>2, <1>3

(* The largest of a set of integers that is finite because it has a bound. *)
LEMMA MaxIs ==
  ASSUME NEW S, IsFiniteSet(S), S # {}, S \subseteq Int
  PROVE  Max(S) \in S /\ \A y \in S : Max(S) >= y
  <1> DEFINE K == {n \in Nat : \A T \in SUBSET S :
                     Cardinality(T) = n /\ T # {} => \E x \in T : \A y \in T : x >= y}
  <1>1. \A T \in SUBSET S : IsFiniteSet(T) /\ Cardinality(T) \in Nat
    BY FS_Subset, FS_CardinalityType
  <1>2. 0 \in K
    <2>1. ASSUME NEW T \in SUBSET S, Cardinality(T) = 0 PROVE T = {}
      <3>1. IsFiniteSet(T)
        BY <1>1
      <3> QED
        BY <2>1, <3>1, FS_EmptySet
    <2> QED
      BY <2>1
  <1>3. ASSUME NEW n \in Nat, n \in K PROVE n + 1 \in K
    <2> SUFFICES ASSUME NEW T \in SUBSET S, Cardinality(T) = n + 1, T # {}
                 PROVE  \E x \in T : \A y \in T : x >= y
      OBVIOUS
    <2>1. PICK z : z \in T
      OBVIOUS
    <2> DEFINE R == T \ {z}
    <2>2. R \in SUBSET S /\ Cardinality(R) = n
      <3>1. IsFiniteSet(T)
        BY <1>1
      <3>2. Cardinality(R) = Cardinality(T) - 1
        BY <2>1, <3>1, Without
      <3>3. R \in SUBSET S
        OBVIOUS
      <3> HIDE DEF R
      <3> QED
        BY <3>2, <3>3
    <2>3. CASE R = {}
      <3>1. \A y \in T : y = z
        BY <2>3
      <3> QED
        BY <2>1, <3>1
    <2>4. CASE R # {}
      <3>1. PICK x \in R : \A y \in R : x >= y
        BY <1>3, <2>2, <2>4
      <3>2. x \in T /\ x \in Int /\ z \in Int
        BY <2>1
      <3>3. \A y \in T : (y = z \/ y \in R) /\ y \in Int
        OBVIOUS
      <3> HIDE DEF R
      <3>4. CASE x >= z
        BY <3>1, <3>2, <3>3, <3>4
      <3>5. CASE ~(x >= z)
        BY <2>1, <3>1, <3>2, <3>3, <3>5
      <3> QED
        BY <3>4, <3>5
    <2> QED
      BY <2>3, <2>4
  <1>4. Nat \subseteq K
    <2> HIDE DEF K
    <2> QED
      BY <1>2, <1>3, Induct
  <1>5. \E x \in S : \A y \in S : x >= y
    BY <1>1, <1>4
  <1> QED
    BY <1>5 DEF Max

Highest(n) == [T \in SUBSET (1..n) |-> Max(T)]

LEMMA HighestPicks == ASSUME NEW n \in Nat PROVE Picks(Highest(n), 1..n)
  <1>1. IsFiniteSet(1..n)
    BY FS_Interval
  <1>2. ASSUME NEW T \in SUBSET (1..n), T # {} PROVE Max(T) \in T
    BY <1>2, PlacesFinite, MaxIs
  <1> QED
    BY <1>1, <1>2 DEF Picks, Highest

TotalOf(F, f, n) == Sums(F, 1..n, f, Highest(n)) /\ Total(f) = F[1..n]

LEMMA TotalIs ==
  ASSUME NEW n \in Nat, NEW f \in [1..n -> Int]
  PROVE  \E F : TotalOf(F, f, n)
  <1> DEFINE E(F) == [s \in SUBSET DOMAIN f |->
                        IF s = {} THEN 0 ELSE F[s \ {Max(s)}] + f[Max(s)]]
             iter == CHOOSE F : F = E(F)
  <1>1. DOMAIN f = 1..n
    OBVIOUS
  <1>2. Total(f) = iter[1..n]
    BY <1>1 DEF Total, FoldLeft, MapThenFoldSet
  <1>3. PICK F : Sums(F, 1..n, f, Highest(n))
    BY HighestPicks, SumsExist
  <1>4. \A s \in SUBSET (1..n) : Highest(n)[s] = Max(s)
    BY DEF Highest
  <1>5. \A s \in SUBSET (1..n) : s # {} => Max(s) \in 1..n /\ f[Max(s)] \in Int
    BY HighestPicks, <1>4 DEF Picks
  <1>6. F = E(F)
    <2>1. \A s \in SUBSET (1..n) : s # {} =>
            F[s \ {Max(s)}] \in Int /\ F[s] = f[Max(s)] + F[s \ {Max(s)}]
      BY <1>3, <1>4 DEF Sums
    <2>2. ASSUME NEW s \in SUBSET (1..n), s # {} PROVE F[s] = F[s \ {Max(s)}] + f[Max(s)]
      <3>1. f[Max(s)] \in Int /\ F[s \ {Max(s)}] \in Int /\ F[s] = f[Max(s)] + F[s \ {Max(s)}]
        BY <1>5, <2>1, <2>2
      <3> QED
        BY <3>1
    <2> QED
      BY <1>1, <1>3, <2>2 DEF Sums
  <1>7. iter = E(iter)
    <2> HIDE DEF E
    <2> QED
      BY <1>6, Zenon
  <1> HIDE DEF iter
  <1>8. GoesOnAs(iter, 1..n, f, Highest(n))
    <2>1. \A s \in SUBSET (1..n) : s # {} => iter[s] = iter[s \ {Max(s)}] + f[Max(s)]
      BY <1>1, <1>7
    <2>2. iter[{}] = 0
      BY <1>1, <1>7
    <2>3. ASSUME NEW s \in SUBSET (1..n), s # {}, iter[s \ {Max(s)}] \in Int
          PROVE  iter[s] = f[Max(s)] + iter[s \ {Max(s)}]
      <3>1. f[Max(s)] \in Int /\ iter[s] = iter[s \ {Max(s)}] + f[Max(s)]
        BY <1>5, <2>1, <2>3
      <3> QED
        BY <2>3, <3>1
    <2> QED
      BY <1>4, <2>2, <2>3 DEF GoesOnAs
  <1>9. iter[1..n] = F[1..n]
    BY <1>3, <1>8, HighestPicks, SumsAgree
  <1>10. TotalOf(F, f, n)
    BY <1>2, <1>3, <1>9 DEF TotalOf
  <1> QED
    BY <1>10

LEMMA Totals ==
  ASSUME NEW n \in Nat, NEW f \in [1..n -> Int], NEW g \in [1..n -> Int]
  PROVE  /\ Total(f) \in Int
         /\ (\A i \in 1..n : f[i] <= g[i]) => Total(f) <= Total(g)
         /\ (\A i \in 1..n : g[i] = -f[i]) => Total(g) = -Total(f)
         /\ (\A i \in 1..n : f[i] >= 1) /\ n # 0 => Total(f) >= 1
  <1>1. PICK F : TotalOf(F, f, n)
    BY TotalIs
  <1>2. PICK G : TotalOf(G, g, n)
    BY TotalIs
  <1>3. Sums(F, 1..n, f, Highest(n)) /\ Sums(G, 1..n, g, Highest(n))
    BY <1>1, <1>2 DEF TotalOf
  <1>4. Total(f) = F[1..n] /\ Total(g) = G[1..n]
    BY <1>1, <1>2 DEF TotalOf
  <1>5. F[1..n] \in Int
    BY <1>3 DEF Sums
  <1>6. n # 0 => 1..n # {}
    OBVIOUS
  <1>7. /\ (\A i \in 1..n : f[i] <= g[i]) => F[1..n] <= G[1..n]
        /\ (\A i \in 1..n : g[i] = -f[i]) => G[1..n] = -F[1..n]
        /\ (\A i \in 1..n : f[i] >= 1) /\ 1..n # {} => F[1..n] >= 1
    <2> DEFINE S == 1..n
               pick == Highest(n)
    <2>1. Picks(pick, S) /\ f \in [S -> Int] /\ g \in [S -> Int]
      BY HighestPicks
    <2>2. Sums(F, S, f, pick) /\ Sums(G, S, g, pick)
      BY <1>3
    <2> HIDE DEF S, pick
    <2>3. /\ (\A i \in S : f[i] <= g[i]) => F[S] <= G[S]
          /\ (\A i \in S : g[i] = -f[i]) => G[S] = -F[S]
          /\ (\A i \in S : f[i] >= 1) /\ S # {} => F[S] >= 1
      BY <2>1, <2>2, SumsCompare
    <2> QED
      BY <2>3 DEF S
  <1> QED
    BY <1>4, <1>5, <1>6, <1>7

Chosen(S) == [T \in SUBSET S |-> CHOOSE x \in T : TRUE]

LEMMA ChosenPicks == ASSUME NEW S, IsFiniteSet(S) PROVE Picks(Chosen(S), S)
  <1>1. ASSUME NEW T \in SUBSET S, T # {} PROVE (CHOOSE x \in T : TRUE) \in T
    BY <1>1
  <1> QED
    BY <1>1 DEF Picks, Chosen

(* The two sums of a weighted mean. *)
Products(terms) == MapThenSumSet(LAMBDA t : t[2] * t[3], terms)
Weights(terms) == MapThenSumSet(LAMBDA t : t[3], terms)

LEMMA ProductsType ==
  ASSUME NEW terms, IsFiniteSet(terms), \A t \in terms : t[2] \in Int /\ t[3] \in Nat \ {0}
  PROVE  Products(terms) \in Int
  <1> DEFINE x1(s) == CHOOSE x \in s : TRUE
             v1(s) == x1(s)[2] * x1(s)[3]
             E(F) == [s \in SUBSET terms |-> IF s = {} THEN 0 ELSE v1(s) + F[s \ {x1(s)}]]
             iter == CHOOSE F : F = E(F)
             f == [t \in terms |-> t[2] * t[3]]
  <1>1. Products(terms) = iter[terms]
    BY DEF Products, MapThenSumSet, MapThenFoldSet
  <1>2. f \in [terms -> Int]
    OBVIOUS
  <1>3. \A s \in SUBSET terms : s # {} => f[Chosen(terms)[s]] = v1(s)
    BY ChosenPicks DEF Chosen, Picks
  <1>4. \A s \in SUBSET terms : Chosen(terms)[s] = x1(s)
    BY DEF Chosen
  <1> HIDE DEF f, v1, x1
  <1>5. PICK F : Sums(F, terms, f, Chosen(terms))
    BY <1>2, ChosenPicks, SumsExist
  <1>6. F = E(F)
    BY <1>3, <1>4, <1>5 DEF Sums
  <1>7. iter = E(iter)
    <2> HIDE DEF E
    <2> QED
      BY <1>6, Zenon
  <1> HIDE DEF iter
  <1>8. GoesOnAs(iter, terms, f, Chosen(terms))
    BY <1>3, <1>4, <1>7 DEF GoesOnAs
  <1>9. iter[terms] = F[terms] /\ F[terms] \in Int
    <2>1. iter[terms] = F[terms]
      BY <1>5, <1>8, ChosenPicks, SumsAgree
    <2>2. F[terms] \in Int
      BY <1>5 DEF Sums
    <2> QED
      BY <2>1, <2>2
  <1> QED
    BY <1>1, <1>9

LEMMA WeightsType ==
  ASSUME NEW terms, IsFiniteSet(terms), \A t \in terms : t[2] \in Int /\ t[3] \in Nat \ {0}
  PROVE  /\ Weights(terms) \in Int
         /\ terms # {} => Weights(terms) >= 1
  <1> DEFINE x1(s) == CHOOSE x \in s : TRUE
             v1(s) == x1(s)[3]
             E(F) == [s \in SUBSET terms |-> IF s = {} THEN 0 ELSE v1(s) + F[s \ {x1(s)}]]
             iter == CHOOSE F : F = E(F)
             f == [t \in terms |-> t[3]]
  <1>1. Weights(terms) = iter[terms]
    BY DEF Weights, MapThenSumSet, MapThenFoldSet
  <1>2. f \in [terms -> Int]
    OBVIOUS
  <1>3. \A s \in SUBSET terms : s # {} => f[Chosen(terms)[s]] = v1(s)
    BY ChosenPicks DEF Chosen, Picks
  <1>4. \A s \in SUBSET terms : Chosen(terms)[s] = x1(s)
    BY DEF Chosen
  <1>a. \A x \in terms : f[x] >= 1
    OBVIOUS
  <1> HIDE DEF f, v1, x1
  <1>5. PICK F : Sums(F, terms, f, Chosen(terms))
    BY <1>2, ChosenPicks, SumsExist
  <1>6. F = E(F)
    BY <1>3, <1>4, <1>5 DEF Sums
  <1>7. iter = E(iter)
    <2> HIDE DEF E
    <2> QED
      BY <1>6, Zenon
  <1> HIDE DEF iter
  <1>8. GoesOnAs(iter, terms, f, Chosen(terms))
    BY <1>3, <1>4, <1>7 DEF GoesOnAs
  <1>9. iter[terms] = F[terms] /\ F[terms] \in Int
    <2>1. iter[terms] = F[terms]
      BY <1>5, <1>8, ChosenPicks, SumsAgree
    <2>2. F[terms] \in Int
      BY <1>5 DEF Sums
    <2> QED
      BY <2>1, <2>2
  <1>10. terms # {} => F[terms] >= 1
    BY <1>2, <1>5, <1>a, ChosenPicks, SumsCompare
  <1> QED
    BY <1>1, <1>9, <1>10

LEMMA WeightedType ==
  ASSUME NEW terms, IsFiniteSet(terms), terms # {},
         \A t \in terms : t[2] \in Int /\ t[3] \in Nat \ {0}
  PROVE  Weighted(terms) \in Int
  <1>1. Weighted(terms) = Products(terms) \div Weights(terms)
    BY DEF Weighted, Products, Weights
  <1>2. Products(terms) \in Int /\ Weights(terms) \in Int /\ Weights(terms) >= 1
    BY ProductsType, WeightsType
  <1> QED
    BY <1>1, <1>2

-----------------------------------------------------------------------------
(* What a debate reads of the market, and the voices it makes of it. *)
MarketOK(m) ==
  /\ m.roc \in [{10, 20, 50} -> Int] /\ m.relVolume \in Int /\ m.contraction \in Int
  /\ m.macro \in [dxy : Int, us10y : Int, vix : Int, spx : Int]
QuoteOK(q) == q.price \in Int /\ q.bid \in Int /\ q.ask \in Int

LEMMA FewFinite == \A x, y, z, w : IsFiniteSet({x, y, z, w})
  <1> SUFFICES ASSUME NEW x, NEW y, NEW z, NEW w PROVE IsFiniteSet({x, y, z, w})
    OBVIOUS
  <1>1. IsFiniteSet({x})
    BY FS_Singleton
  <1>2. IsFiniteSet({x} \cup {y})
    BY <1>1, FS_AddElement
  <1>3. IsFiniteSet(({x} \cup {y}) \cup {z})
    BY <1>2, FS_AddElement
  <1>4. IsFiniteSet((({x} \cup {y}) \cup {z}) \cup {w})
    BY <1>3, FS_AddElement
  <1>5. (({x} \cup {y}) \cup {z}) \cup {w} = {x, y, z, w}
    OBVIOUS
  <1> QED
    BY <1>4, <1>5

LEMMA MomentumType == ASSUME NEW m, MarketOK(m) PROVE Momentum(m) \in Int
  <1> DEFINE weight == [h \in {10, 20, 50} |-> IF h = 10 THEN 5 ELSE IF h = 20 THEN 3 ELSE 2]
             H == {k \in {10, 20, 50} : m.stored > k}
             terms == {<<h, Clamp(m.roc[h], -3000, 3000), weight[h]>> : h \in H}
  <1>1. IsFiniteSet(terms)
    <2> DEFINE t(h) == <<h, Clamp(m.roc[h], -3000, 3000), weight[h]>>
    <2>1. terms \subseteq {t(10), t(20), t(50), t(50)}
      <3> HIDE DEF weight
      <3> QED
        BY SMT
    <2> HIDE DEF t, terms
    <2>2. IsFiniteSet({t(10), t(20), t(50), t(50)})
      BY FewFinite
    <2> QED
      BY <2>1, <2>2, FS_Subset
  <1>2. \A t \in terms : t[2] \in Int /\ t[3] \in Nat \ {0}
    <2>1. \A h \in H : Clamp(m.roc[h], -3000, 3000) \in Int /\ weight[h] \in Nat \ {0}
      <3>1. \A h \in H : m.roc[h] \in Int
        BY DEF MarketOK
      <3>2. -3000 \in Int /\ 3000 \in Int
        BY SMT
      <3>3. \A h \in H : weight[h] \in Nat \ {0}
        BY SMT
      <3> HIDE DEF H, weight
      <3> QED
        BY <3>1, <3>2, <3>3, SMT DEF Clamp
    <2> HIDE DEF weight
    <2> QED
      BY <2>1, SMT
  <1>3. Momentum(m) = IF terms = {} THEN NoValue ELSE Clamp(Weighted(terms), -1000, 1000)
    BY SMT DEF Momentum
  <1> HIDE DEF terms
  <1> QED
    <2>1. terms # {} => Weighted(terms) \in Int
      BY <1>1, <1>2, WeightedType, SMT
    <2>2. -1000 \in Int /\ 1000 \in Int /\ NoValue \in Int
      BY SMT DEF NoValue
    <2>3. terms # {} => Clamp(Weighted(terms), -1000, 1000) \in Int
      BY <2>1, <2>2, SMT DEF Clamp
    <2> QED
      BY <1>3, <2>2, <2>3, SMT

LEMMA KnownWeighted ==
  ASSUME NEW T, IsFiniteSet(T), \A t \in T : t[2] \in Int /\ t[3] \in Nat \ {0}
  PROVE  IF KnownTerms(T) = {} THEN NoValue \in Int ELSE Weighted(KnownTerms(T)) \in Int
  <1>1. KnownTerms(T) \subseteq T
    BY DEF KnownTerms
  <1>2. IsFiniteSet(KnownTerms(T)) /\ \A t \in KnownTerms(T) : t[2] \in Int /\ t[3] \in Nat \ {0}
    BY <1>1, FS_Subset
  <1> QED
    BY <1>2, WeightedType DEF NoValue

LEMMA LiquidityType ==
  ASSUME NEW m, MarketOK(m), NEW q, QuoteOK(q), q.price >= 0
  PROVE  Liquidity(m, q) \in Int
  <1> DEFINE spread == IF Known(q.price) /\ q.price # 0 /\ TwoSided(q)
                       THEN Clamp(1000 - 20 * SpreadBps(q), 0, 1000) ELSE NoValue
             volume == IF Known(m.relVolume) THEN Clamp(m.relVolume, 0, 1000) ELSE NoValue
             calm   == IF Known(m.contraction)
                       THEN Clamp(2000 - m.contraction, 0, 1000) ELSE NoValue
             T == {<<"spread", spread, 5>>, <<"volume", volume, 3>>, <<"calm", calm, 2>>}
  <1>1. spread \in Int /\ volume \in Int /\ calm \in Int
    <2>1. q.price # 0 => SpreadBps(q) \in Int
      <3>1. Away(q.ask, q.bid) \in Nat
        BY DEF QuoteOK, Away
      <3> QED
        BY <3>1, SMT DEF SpreadBps, QuoteOK
    <2>2. m.relVolume \in Int /\ m.contraction \in Int /\ NoValue \in Int
      BY DEF MarketOK, NoValue
    <2>3. q.price # 0 => 1000 - 20 * SpreadBps(q) \in Int
      BY <2>1, SMT
    <2>4. 2000 - m.contraction \in Int
      BY <2>2, SMT
    <2> QED
      BY <2>2, <2>3, <2>4, SMT DEF Clamp
  <1>2. Liquidity(m, q) = IF KnownTerms(T) = {} THEN NoValue ELSE Weighted(KnownTerms(T))
    BY SMT DEF Liquidity
  <1> HIDE DEF spread, volume, calm
  <1>3. IsFiniteSet(T) /\ \A t \in T : t[2] \in Int /\ t[3] \in Nat \ {0}
    <2>1. T = {<<"spread", spread, 5>>, <<"volume", volume, 3>>, <<"calm", calm, 2>>, <<"calm", calm, 2>>}
      BY SMT
    <2>2. IsFiniteSet(T)
      BY <2>1, FewFinite
    <2> QED
      BY <1>1, <2>2, SMT
  <1> HIDE DEF T
  <1> QED
    BY <1>2, <1>3, KnownWeighted

LEMMA MacroType == ASSUME NEW m, MarketOK(m) PROVE MacroScore(m) \in Int
  <1> DEFINE x == m.macro
             term(k, y) == IF Known(k) THEN Clamp(y, -1000, 1000) ELSE NoValue
             d == term(x.dxy, -25 * x.dxy)
             u == term(x.us10y, -400 * x.us10y)
             v == term(x.vix, ((16 - x.vix) * 1000) \div 14)
             s == term(x.spx, x.spx)
             T == {<<"dxy", d, 1>>, <<"us10y", u, 1>>, <<"vix", v, 1>>, <<"spx", s, 1>>}
  <1>1. d \in Int /\ u \in Int /\ v \in Int /\ s \in Int
    <2>1. x.dxy \in Int /\ x.us10y \in Int /\ x.vix \in Int /\ x.spx \in Int
      BY DEF MarketOK
    <2>2. /\ -25 * x.dxy \in Int /\ -400 * x.us10y \in Int
          /\ ((16 - x.vix) * 1000) \div 14 \in Int
      BY <2>1, SMT
    <2> HIDE DEF x
    <2>3. NoValue \in Int
      BY DEF NoValue
    <2> QED
      BY <2>1, <2>2, <2>3, SMT DEF Clamp
  <1>2. MacroScore(m) = IF KnownTerms(T) = {} THEN NoValue ELSE Weighted(KnownTerms(T))
    BY DEF MacroScore
  <1> HIDE DEF d, u, v, s
  <1>3. IsFiniteSet(T) /\ \A t \in T : t[2] \in Int /\ t[3] \in Nat \ {0}
    <2>1. IsFiniteSet(T)
      BY FewFinite
    <2> QED
      BY <1>1, <2>1
  <1> HIDE DEF T
  <1> QED
    BY <1>2, <1>3, KnownWeighted

Agents == {"orion-macro", "orion-quant", "orion-liquidity", "orion-positioning", "orion-news",
           "orion-crossasset", "orion-metals"}
Sides == {"LONG", "SHORT", "NEUTRAL", "WAIT"}
VoiceOK == [agent : Agents, bias : Sides, strength : Nat]
StateOK(ms) == ms.momentum \in Int /\ ms.liquidity \in Int /\ ms.macro \in Int
VoicesOK(voices) == voices \in [1..7 -> VoiceOK]

LEMMA VoiceIs ==
  \A agent \in Agents, bias \in Sides, strength \in Nat : Voice(agent, bias, strength) \in VoiceOK
  BY DEF Voice, VoiceOK

LEMMA Smaller == \A x, y \in Nat : Min({x, y}) \in Nat
  <1> SUFFICES ASSUME NEW x \in Nat, NEW y \in Nat PROVE Min({x, y}) \in Nat
    OBVIOUS
  <1>1. \E z \in {x, y} : \A w \in {x, y} : z <= w
    <2>1. CASE x <= y
      BY <2>1
    <2>2. CASE ~(x <= y)
      BY <2>2
    <2> QED
      BY <2>1, <2>2
  <1>2. Min({x, y}) \in {x, y}
    BY <1>1 DEF Min
  <1> QED
    BY <1>2

LEMMA TrendType == \A m, limit : Trend(m, limit) \in Sides
  BY DEF Trend, Sides

LEMMA VoiceTypes ==
  ASSUME NEW ms, StateOK(ms), NEW news \in {"NONE", "MEDIUM", "HIGH"}, NEW market
  PROVE  /\ MacroVoice(ms) \in VoiceOK /\ QuantVoice(ms) \in VoiceOK
         /\ LiquidityVoice(ms) \in VoiceOK /\ PositioningVoice \in VoiceOK
         /\ NewsVoice(news) \in VoiceOK /\ CrossAssetVoice(market) \in VoiceOK
         /\ MetalsVoice(ms) \in VoiceOK
  <1>1. MacroVoice(ms) \in VoiceOK
    <2>1. Away(ms.macro, 0) \in Nat
      BY DEF StateOK, Away
    <2>2. Min({80000, 30000 + 60 * Away(ms.macro, 0)}) \in Nat
      BY <2>1, Smaller
    <2> QED
      BY <2>2, VoiceIs DEF MacroVoice, Agents, Sides
  <1>2. QuantVoice(ms) \in VoiceOK
    <2> DEFINE m == IF Known(ms.momentum) THEN ms.momentum ELSE 0
    <2>1. Away(m, 0) \in Nat
      BY DEF StateOK, Away
    <2>2. Min({75000, 35000 + 40 * Away(m, 0)}) \in Nat
      BY <2>1, Smaller
    <2>3. QuantVoice(ms) = Voice("orion-quant", IF ms.regime = "TRENDING" THEN Trend(m, 150) ELSE "NEUTRAL",
                                 Min({75000, 35000 + 40 * Away(m, 0)}))
      BY DEF QuantVoice
    <2> HIDE DEF m
    <2> QED
      BY <2>2, <2>3, VoiceIs, TrendType DEF Agents, Sides
  <1>3. LiquidityVoice(ms) \in VoiceOK
    <2>1. ms.liquidity >= 500 => 40000 + 40 * ms.liquidity \in Nat
      BY DEF StateOK
    <2>2. ~(ms.liquidity >= 500) => 70000 - 50 * ms.liquidity \in Nat
      BY DEF StateOK
    <2> QED
      BY <2>1, <2>2, VoiceIs DEF LiquidityVoice, Agents, Sides
  <1>4. PositioningVoice \in VoiceOK
    BY VoiceIs DEF PositioningVoice, Agents, Sides
  <1>5. NewsVoice(news) \in VoiceOK
    BY VoiceIs DEF NewsVoice, Agents, Sides
  <1>6. CrossAssetVoice(market) \in VoiceOK
    BY VoiceIs DEF CrossAssetVoice, Agents, Sides
  <1>7. MetalsVoice(ms) \in VoiceOK
    <2>1. Away(ms.momentum, 0) \in Nat
      BY DEF StateOK, Away
    <2>2. Min({70000, 30000 + 50 * Away(ms.momentum, 0)}) \in Nat
      BY <2>1, Smaller
    <2> QED
      BY <2>2, VoiceIs, TrendType DEF MetalsVoice, Agents, Sides
  <1> QED
    BY <1>1, <1>2, <1>3, <1>4, <1>5, <1>6, <1>7

LEMMA VoicesType ==
  ASSUME NEW market, NEW ms, StateOK(ms), NEW news \in {"NONE", "MEDIUM", "HIGH"}
  PROVE  VoicesOK(Voices(market, ms, news))
  BY VoiceTypes DEF Voices, VoicesOK

-----------------------------------------------------------------------------
(* The label is a scale of five, by where twice and five times the lean are
   from the scale; turning every voice mirrors it, a louder one moves it up. *)
LEMMA WeightType == \A class : \A v \in VoiceOK : Weight(class, v) \in Nat \ {0}
  <1> SUFFICES ASSUME NEW class, NEW v \in VoiceOK PROVE Weight(class, v) \in Nat \ {0}
    OBVIOUS
  <1>1. RoleOf(v.agent) \in {"macro", "technical", "liquidity", "order_flow", "news", "quant"}
    BY DEF VoiceOK, Agents, RoleOf
  <1>2. \A c \in {"metal", "crypto", "other"} :
          \A r \in {"macro", "technical", "liquidity", "order_flow", "news", "quant"} :
            DefaultWeights[c][r] \in Nat \ {0}
    BY DEF DefaultWeights
  <1> QED
    BY <1>1, <1>2 DEF Weight

LEMMA SignType == \A bias \in Sides : Sign(bias) \in -1 .. 1
  BY DEF Sides, Sign

LEMMA TurnedIs ==
  \A v \in VoiceOK :
    /\ Turned(v) \in VoiceOK /\ Turned(v).agent = v.agent
    /\ Turned(v).strength = v.strength /\ Sign(Turned(v).bias) = -Sign(v.bias)
  <1> SUFFICES ASSUME NEW v \in VoiceOK
               PROVE  /\ Turned(v) \in VoiceOK /\ Turned(v).agent = v.agent
                      /\ Turned(v).strength = v.strength /\ Sign(Turned(v).bias) = -Sign(v.bias)
    OBVIOUS
  <1> DEFINE b == CASE v.bias = "LONG" -> "SHORT" [] v.bias = "SHORT" -> "LONG" [] OTHER -> v.bias
  <1>1. v.bias \in Sides /\ b \in Sides /\ Sign(b) = -Sign(v.bias)
    BY DEF VoiceOK, Sides, Sign
  <1>2. Turned(v) = [v EXCEPT !.bias = b]
    BY DEF Turned
  <1> HIDE DEF b
  <1> QED
    BY <1>1, <1>2 DEF VoiceOK

Share(class, v) == Weight(class, v) * v.strength * Sign(v.bias)

LEMMA ShareType == \A class : \A v \in VoiceOK : Share(class, v) \in Int
  <1> SUFFICES ASSUME NEW class, NEW v \in VoiceOK PROVE Share(class, v) \in Int
    OBVIOUS
  <1>1. Weight(class, v) \in Int /\ v.strength \in Int /\ Sign(v.bias) \in Int
    BY WeightType, SignType DEF VoiceOK
  <1>2. \A x, y, z \in Int : x * y * z \in Int
    OBVIOUS
  <1> QED
    BY <1>1, <1>2 DEF Share

Shares(class, voices) == [i \in 1..7 |-> Share(class, voices[i])]
WeightsOf(class, voices) == [i \in 1..7 |-> Weight(class, voices[i])]

LEMMA Sums7 ==
  ASSUME NEW class, NEW voices, VoicesOK(voices)
  PROVE  /\ Lean(class, voices) = Total(Shares(class, voices))
         /\ Scale(class, voices) = 100000 * Total(WeightsOf(class, voices))
         /\ Shares(class, voices) \in [1..7 -> Int]
         /\ Lean(class, voices) \in Int /\ Scale(class, voices) \in Nat \ {0}
  <1> DEFINE f == [i \in 1..7 |-> Share(class, voices[i])]
             w == [i \in 1..7 |-> Weight(class, voices[i])]
  <1>1. DOMAIN voices = 1..7 /\ \A i \in 1..7 : voices[i] \in VoiceOK
    BY DEF VoicesOK
  <1>2. Lean(class, voices) = Total(f) /\ Scale(class, voices) = 100000 * Total(w)
    BY <1>1 DEF Lean, Scale, Share
  <1>3. f \in [1..7 -> Int]
    BY <1>1, ShareType
  <1>4. w \in [1..7 -> Int] /\ \A i \in 1..7 : w[i] >= 1
    BY <1>1, WeightType
  <1> HIDE DEF f, w
  <1>5. Total(f) \in Int /\ Total(w) \in Int /\ Total(w) >= 1
    <2>1. 7 \in Nat /\ 7 # 0
      OBVIOUS
    <2> QED
      BY <1>3, <1>4, <2>1, Totals
  <1>6. Lean(class, voices) \in Int /\ Scale(class, voices) \in Nat \ {0}
    BY <1>2, <1>5
  <1> QED
    BY <1>2, <1>3, <1>6 DEF f, w, Shares, WeightsOf

TurnedAll(voices) == [i \in DOMAIN voices |-> Turned(voices[i])]
LouderAt(voices, i, more) == [voices EXCEPT ![i].bias = "LONG", ![i].strength = @ + more]

LEMMA TurnedRound ==
  ASSUME NEW class, NEW voices, VoicesOK(voices)
  PROVE  /\ VoicesOK(TurnedAll(voices)) /\ Scale(class, TurnedAll(voices)) = Scale(class, voices)
         /\ Lean(class, TurnedAll(voices)) = -Lean(class, voices)
  <1> DEFINE u == TurnedAll(voices)
             f == Shares(class, voices)
             g == Shares(class, u)
  <1>1. DOMAIN voices = 1..7 /\ \A i \in 1..7 : voices[i] \in VoiceOK
    BY DEF VoicesOK
  <1>2. u \in [1..7 -> VoiceOK] /\ \A i \in 1..7 : u[i] = Turned(voices[i])
    BY <1>1, TurnedIs DEF TurnedAll
  <1> HIDE DEF u
  <1>3. VoicesOK(u)
    BY <1>2 DEF VoicesOK
  <1>4. \A i \in 1..7 : Weight(class, u[i]) = Weight(class, voices[i])
    BY <1>1, <1>2, TurnedIs DEF Weight
  <1>5. \A i \in 1..7 : Share(class, u[i]) = -Share(class, voices[i])
    <2> SUFFICES ASSUME NEW i \in 1..7 PROVE Share(class, u[i]) = -Share(class, voices[i])
      OBVIOUS
    <2>1. /\ Weight(class, voices[i]) \in Int /\ voices[i].strength \in Int
          /\ Sign(voices[i].bias) \in Int
      BY <1>1, WeightType, SignType DEF VoiceOK
    <2>2. u[i].strength = voices[i].strength /\ Sign(u[i].bias) = -Sign(voices[i].bias)
      BY <1>1, <1>2, TurnedIs
    <2>3. \A x, y, z \in Int : x * y * (-z) = -(x * y * z)
      OBVIOUS
    <2> QED
      BY <1>4, <2>1, <2>2, <2>3 DEF Share
  <1>6. WeightsOf(class, u) = WeightsOf(class, voices)
    BY <1>4 DEF WeightsOf
  <1>7. Scale(class, u) = Scale(class, voices)
    BY <1>3, <1>6, Sums7
  <1>8. /\ f \in [1..7 -> Int] /\ g \in [1..7 -> Int]
        /\ Lean(class, voices) = Total(f) /\ Lean(class, u) = Total(g)
    BY <1>3, Sums7
  <1>9. \A i \in 1..7 : g[i] = -f[i]
    BY <1>5 DEF Shares
  <1> HIDE DEF f, g
  <1>10. Total(g) = -Total(f)
    BY <1>8, <1>9, Totals
  <1> QED
    BY <1>3, <1>7, <1>8, <1>10 DEF u

LEMMA LouderLeans ==
  ASSUME NEW class, NEW voices, VoicesOK(voices), NEW i \in 1..7, NEW more \in Nat
  PROVE  /\ VoicesOK(LouderAt(voices, i, more))
         /\ Scale(class, LouderAt(voices, i, more)) = Scale(class, voices)
         /\ Lean(class, voices) <= Lean(class, LouderAt(voices, i, more))
  <1> DEFINE u == LouderAt(voices, i, more)
             f == Shares(class, voices)
             g == Shares(class, u)
  <1>1. DOMAIN voices = 1..7 /\ \A k \in 1..7 : voices[k] \in VoiceOK
    BY DEF VoicesOK
  <1>2. /\ u \in [1..7 -> VoiceOK] /\ \A k \in 1..7 \ {i} : u[k] = voices[k]
        /\ u[i].agent = voices[i].agent /\ u[i].bias = "LONG" /\ u[i].strength = voices[i].strength + more
    BY <1>1 DEF LouderAt, VoiceOK, Sides
  <1> HIDE DEF u
  <1>3. VoicesOK(u)
    BY <1>2 DEF VoicesOK
  <1>4. \A k \in 1..7 : Weight(class, u[k]) = Weight(class, voices[k])
    BY <1>2 DEF Weight
  <1>5. Share(class, voices[i]) <= Share(class, u[i])
    <2>1. /\ Weight(class, voices[i]) \in Nat /\ voices[i].strength \in Nat
          /\ Sign(voices[i].bias) \in -1 .. 1 /\ Sign("LONG") = 1
      BY <1>1, WeightType, SignType DEF VoiceOK, Sign
    <2>2. \A x, y, z \in Nat, s \in -1 .. 1 : x * y * s <= x * (y + z) * 1
      <3> SUFFICES ASSUME NEW x \in Nat, NEW y \in Nat, NEW z \in Nat, NEW s \in -1 .. 1
                   PROVE  x * y * s <= x * (y + z) * 1
        OBVIOUS
      <3>1. x * (y + z) = x * y + x * z /\ x * y >= 0 /\ x * z >= 0
        OBVIOUS
      <3>2. s = -1 \/ s = 0 \/ s = 1
        OBVIOUS
      <3> QED
        BY <3>1, <3>2
    <2> QED
      BY <1>2, <1>4, <2>1, <2>2 DEF Share
  <1>6. \A k \in 1..7 : f[k] <= g[k]
    BY <1>1, <1>2, <1>5, ShareType DEF Shares
  <1>7. WeightsOf(class, u) = WeightsOf(class, voices)
    BY <1>4 DEF WeightsOf
  <1>8. Scale(class, u) = Scale(class, voices)
    BY <1>3, <1>7, Sums7
  <1>9. /\ f \in [1..7 -> Int] /\ g \in [1..7 -> Int]
        /\ Lean(class, voices) = Total(f) /\ Lean(class, u) = Total(g)
    BY <1>3, Sums7
  <1> HIDE DEF f, g
  <1>10. Total(f) <= Total(g)
    BY <1>6, <1>9, Totals
  <1> QED
    BY <1>3, <1>8, <1>9, <1>10 DEF u

(* Where the label is on the scale of five. *)
Grade(lean, scale) ==
  IF 2 * lean >= scale THEN 5 ELSE IF 5 * lean >= scale THEN 4
  ELSE IF 2 * lean <= -scale THEN 1 ELSE IF 5 * lean <= -scale THEN 2 ELSE 3

LEMMA LabelAt ==
  \A class, voices :
    Position(Labels, Label(class, voices)) = Grade(Lean(class, voices), Scale(class, voices))
  <1>1. /\ Position(Labels, "STRONG SELL BIAS") = 1 /\ Position(Labels, "SELL BIAS") = 2
        /\ Position(Labels, "NEUTRAL") = 3 /\ Position(Labels, "BUY BIAS") = 4
        /\ Position(Labels, "STRONG BUY BIAS") = 5
    <2>1. /\ DOMAIN Labels = 1..5 /\ Labels[1] = "STRONG SELL BIAS" /\ Labels[2] = "SELL BIAS"
          /\ Labels[3] = "NEUTRAL" /\ Labels[4] = "BUY BIAS" /\ Labels[5] = "STRONG BUY BIAS"
      BY DEF Labels
    <2>2. \A i, k \in 1..5 : Labels[i] = Labels[k] => i = k
      <3>1. \A i \in 1..5 : i = 1 \/ i = 2 \/ i = 3 \/ i = 4 \/ i = 5
        OBVIOUS
      <3> QED
        BY <2>1, <3>1
    <2>3. \A i \in 1..5 : Position(Labels, Labels[i]) = i
      BY <2>1, <2>2 DEF Position
    <2>4. /\ Position(Labels, Labels[1]) = 1 /\ Position(Labels, Labels[2]) = 2
          /\ Position(Labels, Labels[3]) = 3 /\ Position(Labels, Labels[4]) = 4
          /\ Position(Labels, Labels[5]) = 5
      BY <2>3
    <2> QED
      BY <2>1, <2>4, Zenon
  <1> QED
    BY <1>1 DEF Label, Grade

LEMMA Grades ==
  \A scale \in Nat \ {0}, lean, more \in Int :
    /\ Grade(-lean, scale) = 6 - Grade(lean, scale)
    /\ lean <= more => Grade(more, scale) >= Grade(lean, scale)
  BY DEF Grade

LEMMA FairLabels ==
  ASSUME NEW class, NEW voices, VoicesOK(voices)
  PROVE  LET at == Position(Labels, Label(class, voices))
         IN  /\ Position(Labels, Label(class, TurnedAll(voices))) = 6 - at
             /\ \A i \in DOMAIN voices : \A more \in Nat :
                  Position(Labels, Label(class, LouderAt(voices, i, more))) >= at
  <1>1. Lean(class, voices) \in Int /\ Scale(class, voices) \in Nat \ {0}
    BY Sums7
  <1>2. Position(Labels, Label(class, TurnedAll(voices))) = 6 - Position(Labels, Label(class, voices))
    <2>1. /\ Scale(class, TurnedAll(voices)) = Scale(class, voices)
          /\ Lean(class, TurnedAll(voices)) = -Lean(class, voices)
      BY TurnedRound
    <2>2. \A scale \in Nat \ {0}, lean \in Int : Grade(-lean, scale) = 6 - Grade(lean, scale)
      BY Grades
    <2> QED
      BY <1>1, <2>1, <2>2, LabelAt
  <1>3. ASSUME NEW i \in 1..7, NEW more \in Nat
        PROVE  Position(Labels, Label(class, LouderAt(voices, i, more))) >= Position(Labels, Label(class, voices))
    <2>1. Lean(class, LouderAt(voices, i, more)) \in Int
      <3>1. VoicesOK(LouderAt(voices, i, more))
        BY LouderLeans
      <3> QED
        BY <3>1, Sums7
    <2>2. Lean(class, voices) <= Lean(class, LouderAt(voices, i, more))
          /\ Scale(class, LouderAt(voices, i, more)) = Scale(class, voices)
      BY LouderLeans
    <2> QED
      BY <1>1, <2>1, <2>2, LabelAt, Grades
  <1>4. DOMAIN voices = 1..7
    BY DEF VoicesOK
  <1> QED
    BY <1>2, <1>3, <1>4

-----------------------------------------------------------------------------
(* The market a request is served from is one of the worlds', and a debate
   that is about to convene has read a state of it. *)
WorldFair ==
  /\ {"market", "news"} \subseteq DOMAIN world /\ MarketOK(world.market)
  /\ world.news \in {"NONE", "MEDIUM", "HIGH"}

Convened(j) ==
  /\ j.pc = "convene" => StateOK(j.ctx)
  /\ j.reply.kind = "DEBATE" => VoicesOK(j.reply.voices)

DebatesConvened == \A a \in Askers : Convened(job[a])
FairInv == RepliesInv /\ WorldFair /\ DebatesConvened

LEMMA FairMeans == FairInv => ConsensusFair
  <1> SUFFICES ASSUME FairInv, NEW a \in Askers, job[a].reply.kind = "DEBATE"
               PROVE  LET class == Market.class
                          voices == job[a].reply.voices
                          at == Position(Labels, Label(class, voices))
                      IN  /\ Position(Labels, Label(class, TurnedAll(voices))) = 6 - at
                          /\ \A i \in DOMAIN voices : \A more \in {0, 20000} :
                               Position(Labels, Label(class, LouderAt(voices, i, more))) >= at
    BY DEF ConsensusFair, TurnedAll, LouderAt
  <1>1. VoicesOK(job[a].reply.voices)
    BY DEF FairInv, DebatesConvened, Convened
  <1> QED
    BY <1>1, FairLabels

LEMMA WorldStep == WorldFair /\ [Next]_vars => WorldFair'
  <1> SUFFICES ASSUME WorldFair, [Next]_vars PROVE WorldFair'
    OBVIOUS
  <1>1. {"market", "news"} \subseteq DOMAIN world' /\ world'.market = world.market
        /\ world'.news \in {world.news, "MEDIUM", "HIGH"}
    <2>1. CASE world' = world
      BY <2>1 DEF WorldFair
    <2>2. CASE Monitor
      BY <2>2 DEF WorldFair, Monitor, StoreQuote, QuoteAges, StoreNews, StoreSnapshot
    <2>3. CASE Restart
      BY <2>3 DEF WorldFair, Restart
    <2>4. ASSUME NEW ok, Commits(ok)
          PROVE  {"market", "news"} \subseteq DOMAIN world' /\ world'.market = world.market
                 /\ world'.news = world.news
      BY <2>4 DEF WorldFair, Commits
    <2>5. ASSUME NEW a \in Askers, Ask(a) \/ Break(a)
          PROVE  {"market", "news"} \subseteq DOMAIN world' /\ world'.market = world.market
                 /\ world'.news = world.news
      BY <2>5 DEF WorldFair, Ask, Break
    <2>6. ASSUME NEW a \in Askers, Handler(a)
          PROVE  world' = world \/ \E ok : Commits(ok)
      BY <2>6 DEF Handler, ReadPrice, ReadTechnicals, ReadBrain, ReadPositioning, ReadNews, AnswerPipeline,
         AnswerMode, AnswerPlaybook, AnswerWatch, DebateRead, Convene, AnswerMacro, AnswerSystem, Persist
    <2> QED
      BY <2>1, <2>2, <2>3, <2>4, <2>5, <2>6 DEF Next, vars
  <1> QED
    BY <1>1 DEF WorldFair

LEMMA ConvenedMoves ==
  ASSUME DebatesConvened, NEW a \in Askers, Convened(job'[a]),
         \A b \in Askers \ {a} : job'[b] = job[b]
  PROVE  DebatesConvened'
  BY DEF DebatesConvened

LEMMA UnansweredConvened ==
  ASSUME FairInv, NEW a \in Askers, job[a].pc \notin Answering, NEW pc, NEW ctx,
         pc = "convene" => StateOK(ctx), Goes(a, pc, ctx)
  PROVE  DebatesConvened'
  <1>1. job[a].reply.kind = "NONE"
    BY DEF FairInv, RepliesInv, AnswersIInv, DeskInv, Shape, JobsOK, JobOK, NotYet, NoReply
  <1>2. /\ job'[a].pc = pc /\ job'[a].ctx = ctx /\ job'[a].reply = job[a].reply
        /\ \A b \in Askers \ {a} : job'[b] = job[b]
    BY MovesTo DEF FairInv, RepliesInv, AnswersIInv
  <1>3. Convened(job'[a])
    BY <1>1, <1>2 DEF Convened
  <1> QED
    BY <1>2, <1>3, ConvenedMoves DEF FairInv

LEMMA PlainConvened ==
  ASSUME FairInv, NEW a \in Askers, NEW pc, pc # "convene", NEW ctx, NEW reply,
         reply.kind = "DEBATE" => VoicesOK(reply.voices), Replies(a, pc, ctx, reply)
  PROVE  DebatesConvened'
  <1>1. job'[a].pc = pc /\ job'[a].reply = reply /\ \A b \in Askers \ {a} : job'[b] = job[b]
    BY RepliesTo DEF FairInv, RepliesInv, AnswersIInv
  <1>2. Convened(job'[a])
    BY <1>1 DEF Convened
  <1> QED
    BY <1>1, <1>2, ConvenedMoves DEF FairInv

LEMMA LatestOK == ASSUME FairInv PROVE QuoteOK(Latest) /\ Latest.price >= 0
  <1>1. CASE quotes = <<>>
    BY <1>1 DEF Latest, NoQuote, NoValue, QuoteOK
  <1>2. CASE quotes # <<>>
    <2>1. quotes[Len(quotes)] \in QuoteRow
      BY <1>2 DEF FairInv, RepliesInv, AnswersIInv, DeskInv, Shape, FeedOK
    <2> QED
      BY <1>2, <2>1 DEF Latest, Last, QuoteRow, QuoteOK
  <1> QED
    BY <1>1, <1>2

LEMMA DebateReadConvened ==
  ASSUME FairInv, NEW a \in Askers, DebateRead(a)
  PROVE  DebatesConvened'
  <1> DEFINE ms == MarketState(Market, Latest)
             ctx == [Blank EXCEPT !.regime = ms.regime, !.vol = ms.vol,
                       !.riskMode = ms.riskMode, !.momentum = ms.momentum,
                       !.liquidity = ms.liquidity, !.macro = ms.macro, !.quality = ms.quality]
  <1>1. StateOK(ms)
    <2>1. MarketOK(Market)
      BY DEF FairInv, WorldFair, Market
    <2>2. /\ Momentum(Market) \in Int /\ Liquidity(Market, Latest) \in Int
          /\ MacroScore(Market) \in Int
      BY <2>1, LatestOK, MomentumType, LiquidityType, MacroType
    <2>3. /\ ms.momentum = Momentum(Market) /\ ms.liquidity = Liquidity(Market, Latest)
          /\ ms.macro = MacroScore(Market)
      BY DEF MarketState
    <2> QED
      BY <2>2, <2>3 DEF StateOK
  <1>2. Goes(a, "convene", ctx) /\ job[a].pc \notin Answering
    BY DEF DebateRead, At, Answering
  <1> HIDE DEF ms
  <1>3. StateOK(ctx)
    BY <1>1 DEF StateOK, Blank
  <1> HIDE DEF ctx
  <1> QED
    BY <1>2, <1>3, UnansweredConvened

LEMMA ReadsConvened ==
  ASSUME FairInv, NEW a \in Askers,
         ReadPrice(a) \/ ReadTechnicals(a) \/ ReadBrain(a) \/ ReadPositioning(a) \/ ReadNews(a)
  PROVE  DebatesConvened'
  <1>1. job[a].pc \notin Answering
    BY DEF ReadPrice, ReadTechnicals, ReadBrain, ReadPositioning, ReadNews, At, Answering
  <1>2. \E pc, ctx : pc # "convene" /\ Goes(a, pc, ctx)
    BY DEF ReadPrice, ReadTechnicals, ReadBrain, ReadPositioning, ReadNews
  <1> QED
    BY <1>1, <1>2, UnansweredConvened

LEMMA ConveneConvened ==
  ASSUME FairInv, NEW a \in Askers, Convene(a)
  PROVE  DebatesConvened'
  <1> DEFINE reply == DebateReply(job[a].ctx)
  <1>1. \E ctx : Replies(a, "persist", ctx, reply)
    BY DEF Convene
  <1>2. reply.voices = Voices(Market, job[a].ctx, world.news)
    BY DEF DebateReply, Reply, NoReply
  <1>3. VoicesOK(reply.voices)
    BY <1>2, VoicesType DEF FairInv, DebatesConvened, Convened, WorldFair, Convene, At
  <1> HIDE DEF reply
  <1> QED
    BY <1>1, <1>3, PlainConvened

LEMMA AnswersConvened ==
  ASSUME FairInv, NEW a \in Askers,
         \/ AnswerPipeline(a) \/ AnswerMode(a) \/ AnswerPlaybook(a) \/ AnswerWatch(a)
         \/ AnswerMacro(a) \/ AnswerSystem(a)
  PROVE  DebatesConvened'
  <1>1. \A kind : Reply(kind).kind = kind /\ \A e : [Reply(kind) EXCEPT !.expected = e].kind = kind
    BY DEF Reply, NoReply
  <1>2. \E pc, ctx, reply : pc # "convene" /\ reply.kind # "DEBATE" /\ Replies(a, pc, ctx, reply)
    <2>1. CASE AnswerMode(a)
      BY <1>1, <2>1 DEF AnswerMode
    <2>2. CASE AnswerPlaybook(a)
      BY <1>1, <2>2 DEF AnswerPlaybook, Fails
    <2>3. CASE AnswerWatch(a)
      BY <1>1, <2>3 DEF AnswerWatch
    <2>4. CASE AnswerMacro(a) \/ AnswerSystem(a)
      BY <1>1, <2>4 DEF AnswerMacro, AnswerSystem, Fails
    <2>5. CASE AnswerPipeline(a)
      <3>1. PICK ctx, reply : reply.kind = "READ" /\ Replies(a, "persist", ctx, reply)
        BY <2>5 DEF AnswerPipeline, Reply, NoReply
      <3> QED
        BY <3>1
    <2> QED
      BY <2>1, <2>2, <2>3, <2>4, <2>5
  <1> QED
    BY <1>2, PlainConvened

LEMMA PersistConvened ==
  ASSUME FairInv, NEW a \in Askers, Persist(a)
  PROVE  DebatesConvened'
  <1>1. job' = [job EXCEPT ![a].pc = "done"]
    BY DEF Persist
  <1>2. DOMAIN job = Askers /\ DOMAIN job[a] = {"pc", "q", "ctx", "reply"}
    BY DEF FairInv, RepliesInv, AnswersIInv, DeskInv, Shape, JobsOK, JobOK, JobShape
  <1>3. /\ job'[a].pc = "done" /\ job'[a].reply = job[a].reply
        /\ \A b \in Askers \ {a} : job'[b] = job[b]
    BY <1>1, <1>2
  <1>4. Convened(job'[a])
    BY <1>3 DEF Convened, FairInv, DebatesConvened
  <1> QED
    BY <1>3, <1>4, ConvenedMoves DEF FairInv

LEMMA BreakConvened ==
  ASSUME FairInv, NEW a \in Askers, Break(a)
  PROVE  DebatesConvened'
  <1>1. job[a].pc \notin Answering
    BY DEF Break, Answering
  <1>2. (\E pc, ctx : pc # "convene" /\ Goes(a, pc, ctx)) \/ Fails(a)
    BY DEF Break
  <1>3. CASE Fails(a)
    <2>1. Reply("FAILED").kind # "DEBATE"
      BY DEF Reply, NoReply
    <2> QED
      BY <1>3, <2>1, PlainConvened DEF Fails
  <1> QED
    BY <1>1, <1>2, <1>3, UnansweredConvened

LEMMA NobodyConvened ==
  Convened(Nobody) /\ \A q, pc : pc # "convene" => Convened([Nobody EXCEPT !.pc = pc, !.q = q])
  BY DEF Convened, Nobody, NoReply

LEMMA FairStep == FairInv /\ [Next]_vars => FairInv'
  <1> SUFFICES ASSUME FairInv, [Next]_vars PROVE DebatesConvened'
    BY RepliesStep, WorldStep DEF FairInv
  <1>1. CASE Monitor \/ UNCHANGED vars
    <2>1. job' = job
      BY <1>1 DEF Monitor, StoreQuote, QuoteAges, StoreNews, StoreSnapshot, Writes, vars
    <2> QED
      BY <2>1 DEF FairInv, DebatesConvened
  <1>2. CASE Restart
    BY <1>2, NobodyConvened DEF Restart, DebatesConvened
  <1>3. ASSUME NEW a \in Askers, Ask(a) PROVE DebatesConvened'
    <2>1. PICK q : job' = [job EXCEPT ![a] = [Nobody EXCEPT !.pc = FirstStep(q), !.q = q]]
      BY <1>3 DEF Ask
    <2>2. DOMAIN job = Askers
      BY DEF FairInv, RepliesInv, AnswersIInv, DeskInv, Shape, JobsOK
    <2>3. FirstStep(q) # "convene"
      BY DEF FirstStep
    <2>4. Convened(job'[a]) /\ \A b \in Askers \ {a} : job'[b] = job[b]
      BY <2>1, <2>2, <2>3, NobodyConvened
    <2> QED
      BY <2>4, ConvenedMoves DEF FairInv
  <1>4. ASSUME NEW a \in Askers, Break(a) PROVE DebatesConvened'
    BY <1>4, BreakConvened
  <1>5. ASSUME NEW a \in Askers, Handler(a) PROVE DebatesConvened'
    BY <1>5, ReadsConvened, DebateReadConvened, ConveneConvened, AnswersConvened, PersistConvened
    DEF Handler
  <1> QED
    BY <1>1, <1>2, <1>3, <1>4, <1>5 DEF Next

LEMMA FairInit == Init => FairInv
  <1> SUFFICES ASSUME Init PROVE WorldFair /\ DebatesConvened
    BY RepliesInit DEF FairInv
  <1>1. PICK w \in Worlds :
          world = [market |-> w.market, news |-> w.news, snapshot |-> w.snapshot,
                   asks |-> w.asks, left |-> w.left, writes |-> w.writes, faults |-> w.faults,
                   restarts |-> w.restarts, clean |-> TRUE]
    BY DEF Init
  <1>2. WorldFair
    <2>1. /\ w.market.roc \in [{10, 20, 50} -> Int] /\ w.news \in {"NONE", "MEDIUM", "HIGH"}
          /\ w.market.macro \in [dxy : Int, us10y : Int, vix : Int, spx : Int]
          /\ {w.market.relVolume, w.market.contraction} \subseteq Int
      BY FiguresAssumption
    <2> QED
      BY <1>1, <2>1 DEF WorldFair, MarketOK
  <1>3. DebatesConvened
    BY NobodyConvened DEF Init, DebatesConvened
  <1> QED
    BY <1>2, <1>3

(* The consensus takes no side, for any worlds and questions: turning every
   voice round turns the label round, and a voice that turns long, or grows
   louder, never lowers it (core/orchestration/consensus.py). *)
THEOREM ConsensusIsFair == Spec => []ConsensusFair
  BY FairInit, FairStep, FairMeans, PTL DEF Spec

-----------------------------------------------------------------------------
(* The partial results of a fold over a sequence, one for each prefix. *)
Follows(iter, n, V, base, g) ==
  /\ iter[{}] = base
  /\ \A T \in SUBSET (1..n) : T # {} /\ iter[T \ {Max(T)}] \in V =>
       iter[T] = g[<<Max(T), iter[T \ {Max(T)}]>>]
Partials(h, n, V, base, g) ==
  /\ h \in [0..n -> V] /\ h[0] = base
  /\ \A k \in 0 .. n - 1 : h[k + 1] = g[<<k + 1, h[k]>>]

LEMMA FoldPartials ==
  ASSUME NEW V, NEW base \in V, NEW n \in Nat, NEW g, StepIn(g, 1..n, V),
         NEW iter, Follows(iter, n, V, base, g)
  PROVE  \E h : Partials(h, n, V, base, g) /\ h[n] = iter[1..n]
  <1> DEFINE h == [k \in 0..n |-> iter[1..k]]
             K == {k \in Nat : k <= n => iter[1..k] \in V}
  <1>1. \A k \in 0 .. n - 1 :
          iter[1..k] \in V => iter[1 .. k + 1] = g[<<k + 1, iter[1..k]>>] /\ iter[1 .. k + 1] \in V
    <2> SUFFICES ASSUME NEW k \in 0 .. n - 1, iter[1..k] \in V
                 PROVE  iter[1 .. k + 1] = g[<<k + 1, iter[1..k]>>] /\ iter[1 .. k + 1] \in V
      OBVIOUS
    <2>1. Max(1 .. k + 1) = k + 1
      <3>1. k + 1 \in Nat /\ k + 1 \in 1 .. k + 1 /\ 1 .. k + 1 # {}
        <4>1. k + 1 \in Nat
          OBVIOUS
        <4>2. k + 1 \in 1 .. k + 1
          BY <4>1
        <4> QED
          BY <4>1, <4>2
      <3>2. Max(1 .. k + 1) \in 1 .. k + 1 /\ \A y \in 1 .. k + 1 : Max(1 .. k + 1) >= y
        BY <3>1, MaxIs, PlacesFinite
      <3> QED
        BY <3>1, <3>2
    <2>2. (1 .. k + 1) \ {k + 1} = 1..k
      OBVIOUS
    <2>3. 1 .. k + 1 \in SUBSET (1..n) /\ 1 .. k + 1 # {} /\ k + 1 \in 1..n
      <3>1. k + 1 \in 1 .. k + 1 /\ k + 1 \in 1..n /\ \A x \in 1 .. k + 1 : x \in 1..n
        OBVIOUS
      <3> QED
        BY <3>1, Zenon
    <2> QED
      BY <2>1, <2>2, <2>3 DEF StepIn, Follows
  <1>2. 0 \in K
    <2>1. 1..0 = {}
      OBVIOUS
    <2> QED
      BY <2>1 DEF Follows
  <1>3. \A k \in Nat : k \in K => k + 1 \in K
    <2> SUFFICES ASSUME NEW k \in Nat, k \in K, k + 1 <= n PROVE iter[1 .. k + 1] \in V
      OBVIOUS
    <2>1. k \in 0 .. n - 1 /\ iter[1..k] \in V
      OBVIOUS
    <2> QED
      BY <1>1, <2>1
  <1>4. Nat \subseteq K
    <2> HIDE DEF K
    <2> QED
      BY <1>2, <1>3, Induct
  <1>5. h \in [0..n -> V]
    BY <1>4
  <1>6. \A k \in 0 .. n - 1 : h[k + 1] = g[<<k + 1, h[k]>>]
    <2> SUFFICES ASSUME NEW k \in 0 .. n - 1 PROVE h[k + 1] = g[<<k + 1, h[k]>>]
      OBVIOUS
    <2>1. k \in 0..n /\ k + 1 \in 0..n
      OBVIOUS
    <2> QED
      BY <1>1, <1>5, <2>1
  <1>7. h[0] = base /\ h[n] = iter[1..n]
    <2>1. 1..0 = {} /\ 0 \in 0..n /\ n \in 0..n
      OBVIOUS
    <2> QED
      BY <2>1 DEF Follows
  <1> HIDE DEF h
  <1>8. Partials(h, n, V, base, g)
    BY <1>5, <1>6, <1>7 DEF Partials
  <1> QED
    BY <1>7, <1>8

-----------------------------------------------------------------------------
(* Sorting by insertion. *)
Sorted(s) == \A i, j \in DOMAIN s : i < j => s[i] <= s[j]
Sorteds == {s \in Seq(Int) : Sorted(s)}

LEMMA InsertSorts ==
  ASSUME NEW s \in Sorteds, NEW x \in Int
  PROVE  Insert(s, x) \in Sorteds
  <1> DEFINE n == Len(s)
             P == {i \in DOMAIN s : s[i] <= x}
             m == Max({0} \cup P)
             t == [k \in 1 .. n + 1 |-> IF k <= m THEN s[k] ELSE IF k = m + 1 THEN x ELSE s[k - 1]]
  <1>1. s \in Seq(Int) /\ n \in Nat /\ DOMAIN s = 1..n /\ (\A i \in 1..n : s[i] \in Int)
    BY LenProperties, ElementOfSeq DEF Sorteds
  <1>2. \A i, j \in 1..n : i < j => s[i] <= s[j]
    BY <1>1 DEF Sorteds, Sorted
  <1>3. m \in 0..n /\ (m # 0 => m \in P) /\ \A i \in P : i <= m
    <2>1. IsFiniteSet({0} \cup P)
      <3>1. IsFiniteSet(0..n)
        BY <1>1, FS_Interval
      <3>2. {0} \cup P \subseteq 0..n
        BY <1>1
      <3> QED
        BY <3>1, <3>2, FS_Subset
    <2>2. {0} \cup P # {} /\ {0} \cup P \subseteq Int
      BY <1>1
    <2>3. m \in {0} \cup P /\ \A y \in {0} \cup P : m >= y
      BY <2>1, <2>2, MaxIs
    <2>4. \A i \in {0} \cup P : i \in Nat
      BY <1>1
    <2> HIDE DEF m
    <2>5. \A i \in P : i \in Nat /\ i <= n
      BY <1>1
    <2> QED
      BY <1>1, <2>3, <2>4, <2>5
  <1>4. \A i \in 1..n : i <= m => s[i] <= x
    <2>1. ASSUME NEW i \in 1..n, i <= m PROVE s[i] <= x
      <3>1. m # 0 /\ m \in P
        BY <1>3, <2>1
      <3>2. m \in 1..n /\ s[m] <= x /\ s[m] \in Int
        BY <1>1, <3>1
      <3> HIDE DEF m, P
      <3>3. s[i] <= s[m] /\ s[i] \in Int
        BY <1>1, <1>2, <2>1, <3>2
      <3> QED
        BY <3>2, <3>3
    <2> QED
      BY <2>1
  <1>5. \A i \in 1..n : i > m => s[i] > x
    <2> SUFFICES ASSUME NEW i \in 1..n, i > m PROVE s[i] > x
      OBVIOUS
    <2>1. i \in DOMAIN s /\ s[i] \in Int /\ i \in Int
      BY <1>1
    <2>2. i \notin P
      <3> HIDE DEF m, P
      <3> QED
        BY <1>3, <2>1
    <2>3. ~(s[i] <= x)
      BY <2>1, <2>2
    <2> QED
      BY <2>1, <2>3
  <1> HIDE DEF m, P
  <1>6. t \in Seq(Int) /\ Len(t) = n + 1
    <2>1. t \in [1 .. n + 1 -> Int]
      BY <1>1, <1>3
    <2> QED
      BY <1>1, <2>1
  <1>7. \A i, j \in 1 .. n + 1 : i < j => t[i] <= t[j]
    <2> SUFFICES ASSUME NEW i \in 1 .. n + 1, NEW j \in 1 .. n + 1, i < j PROVE t[i] <= t[j]
      OBVIOUS
    <2>1. CASE j <= m
      BY <1>1, <1>2, <1>3, <2>1
    <2>2. CASE i <= m /\ j = m + 1
      BY <1>1, <1>3, <1>4, <2>2
    <2>3. CASE i <= m /\ j > m + 1
      <3>1. j - 1 \in 1..n /\ i \in 1..n /\ i < j - 1
        BY <1>1, <1>3, <2>3
      <3> QED
        BY <1>1, <1>2, <1>3, <2>3, <3>1
    <2>4. CASE i = m + 1
      <3>1. j - 1 \in 1..n /\ j - 1 > m
        BY <1>1, <1>3, <2>4
      <3> QED
        BY <1>1, <1>3, <1>5, <2>4, <3>1
    <2>5. CASE i > m + 1
      <3>1. j - 1 \in 1..n /\ i - 1 \in 1..n /\ i - 1 < j - 1
        BY <1>1, <1>3, <2>5
      <3> QED
        BY <1>1, <1>2, <1>3, <2>5, <3>1
    <2> QED
      BY <1>1, <1>3, <2>1, <2>2, <2>3, <2>4, <2>5
  <1>8. Insert(s, x) = t
    <2> DEFINE u == SubSeq(s, 1, m)
               v == SubSeq(s, m + 1, n)
    <2>1. u \in Seq(Int) /\ Len(u) = m /\ \A k \in 1..m : u[k] = s[k]
      BY <1>1, <1>3
    <2>2. v \in Seq(Int) /\ Len(v) = n - m /\ \A k \in 1 .. n - m : v[k] = s[m + k]
      <3>1. m + 1 \in Int /\ n \in Int /\ (\A i \in m + 1 .. n : s[i] \in Int)
        BY <1>1, <1>3
      <3>2. /\ v \in Seq(Int)
            /\ Len(v) = IF m + 1 <= n THEN n - (m + 1) + 1 ELSE 0
            /\ \A k \in 1 .. n - (m + 1) + 1 : v[k] = s[m + 1 + k - 1]
        BY <3>1, SubSeqProperties
      <3> HIDE DEF v
      <3>3. n - (m + 1) + 1 = n - m
        BY <1>1, <1>3
      <3>4. Len(v) = n - m
        <4>1. m \in Int /\ n \in Int /\ m <= n
          BY <1>1, <1>3
        <4> HIDE DEF n
        <4> QED
          BY <3>2, <4>1
      <3>5. ASSUME NEW k \in 1 .. n - m PROVE v[k] = s[m + k]
        <4>1. v[k] = s[m + 1 + k - 1]
          BY <3>2, <3>3
        <4>2. m + 1 + k - 1 = m + k
          BY <1>3
        <4> QED
          BY <4>1, <4>2
      <3> QED
        BY <3>2, <3>4, <3>5
    <2>3. Insert(s, x) = u \o <<x>> \o v
      <3>1. Insert(s, x) = SubSeq(s, 1, (m + 1) - 1) \o <<x>> \o SubSeq(s, m + 1, Len(s))
        BY DEF Insert, InsertAt, m, P
      <3>2. (m + 1) - 1 = m
        BY <1>3
      <3> QED
        BY <3>1, <3>2
    <2> HIDE DEF u, v
    <2> DEFINE w == u \o <<x>>
    <2>4. w \in Seq(Int) /\ Len(w) = m + 1 /\ \A k \in 1 .. m + 1 : w[k] = IF k <= m THEN s[k] ELSE x
      BY <1>3, <2>1
    <2> HIDE DEF w
    <2>5. /\ w \o v \in Seq(Int) /\ Len(w \o v) = n + 1
          /\ \A k \in 1 .. n + 1 : (w \o v)[k] = IF k <= m + 1 THEN w[k] ELSE v[k - (m + 1)]
      <3>1. /\ w \o v \in Seq(Int) /\ Len(w \o v) = Len(w) + Len(v)
            /\ \A k \in 1 .. Len(w) + Len(v) : (w \o v)[k] = IF k <= Len(w) THEN w[k] ELSE v[k - Len(w)]
        BY <2>2, <2>4, ConcatProperties
      <3>2. Len(w) + Len(v) = n + 1
        BY <1>1, <1>3, <2>2, <2>4
      <3> QED
        BY <2>4, <3>1, <3>2
    <2>6. \A k \in 1 .. n + 1 : (w \o v)[k] = t[k]
      <3> SUFFICES ASSUME NEW k \in 1 .. n + 1 PROVE (w \o v)[k] = t[k]
        OBVIOUS
      <3>1. t[k] = IF k <= m THEN s[k] ELSE IF k = m + 1 THEN x ELSE s[k - 1]
        OBVIOUS
      <3> HIDE DEF t
      <3>2. CASE k <= m + 1
        BY <1>1, <1>3, <2>4, <2>5, <3>1, <3>2
      <3>3. CASE k > m + 1
        <4>1. k - (m + 1) \in 1 .. n - m /\ m + (k - (m + 1)) = k - 1
          BY <1>1, <1>3, <3>3
        <4>2. (w \o v)[k] = v[k - (m + 1)]
          BY <1>1, <1>3, <2>5, <3>3
        <4>3. v[k - (m + 1)] = s[k - 1]
          BY <2>2, <4>1
        <4>4. t[k] = s[k - 1]
          BY <1>1, <1>3, <3>1, <3>3
        <4> QED
          BY <4>2, <4>3, <4>4
      <3>4. k <= m + 1 \/ k > m + 1
        <4>1. k \in Int /\ m \in Int
          BY <1>1, <1>3
        <4> QED
          BY <4>1
      <3> QED
        BY <3>2, <3>3, <3>4
    <2> HIDE DEF t
    <2>7. w \o v = t
      <3>1. Len(w \o v) = Len(t)
        BY <1>6, <2>5
      <3>2. \A k \in 1 .. Len(w \o v) : (w \o v)[k] = t[k]
        BY <2>5, <2>6
      <3> QED
        BY <1>6, <2>5, <3>1, <3>2, SeqEqual
    <2> QED
      BY <2>3, <2>7 DEF w
  <1> HIDE DEF t
  <1> QED
    BY <1>1, <1>6, <1>7, <1>8 DEF Sorteds, Sorted

LEMMA AscendingIs ==
  ASSUME NEW s \in Seq(Int)
  PROVE  Ascending(s) \in Sorteds
  <1> DEFINE n == Len(s)
             E(F) == [T \in SUBSET DOMAIN s |->
                        IF T = {} THEN <<>> ELSE Insert(F[T \ {Max(T)}], s[Max(T)])]
             iter == CHOOSE F : F = E(F)
             g == [z \in (1..n) \X Sorteds |-> Insert(z[2], s[z[1]])]
  <1>1. n \in Nat /\ DOMAIN s = 1..n /\ \A k \in 1..n : s[k] \in Int
    BY LenProperties, ElementOfSeq
  <1>2. Ascending(s) = iter[1..n]
    BY <1>1 DEF Ascending, FoldLeft, MapThenFoldSet
  <1>3. StepIn(g, 1..n, Sorteds)
    <2>1. \A k \in 1..n, l \in Sorteds : Insert(l, s[k]) \in Sorteds
      BY <1>1, InsertSorts
    <2> QED
      BY <2>1 DEF StepIn
  <1>4. \A k \in 1..n, l \in Sorteds : g[<<k, l>>] = Insert(l, s[k])
    OBVIOUS
  <1>5. \A T \in SUBSET (1..n) : T # {} => Max(T) \in 1..n /\ Highest(n)[T] = Max(T)
    BY <1>1, HighestPicks DEF Picks, Highest
  <1>6. <<>> \in Sorteds
    BY DEF Sorteds, Sorted
  <1> HIDE DEF n, g
  <1>7. \E F : F = E(F)
    <2>1. PICK F : Folded(F, 1..n, Sorteds, <<>>, g, Highest(n))
      BY <1>1, <1>3, <1>6, HighestPicks, FoldsExist
    <2>2. F = E(F)
      <3>1. \A T \in SUBSET (1..n) : F[T] \in Sorteds
        BY <2>1 DEF Folded
      <3>2. \A T \in SUBSET (1..n) : T # {} => F[T] = Insert(F[T \ {Max(T)}], s[Max(T)])
        BY <1>4, <1>5, <2>1, <3>1 DEF Folded
      <3> QED
        BY <1>1, <2>1, <3>2 DEF Folded
    <2> HIDE DEF E
    <2> QED
      BY <2>2
  <1>8. iter = E(iter)
    <2> HIDE DEF E
    <2> QED
      BY <1>7, Zenon
  <1> HIDE DEF iter
  <1>9. Follows(iter, n, Sorteds, <<>>, g)
    BY <1>1, <1>4, <1>5, <1>8 DEF Follows
  <1>10. \E h : Partials(h, n, Sorteds, <<>>, g) /\ h[n] = iter[1..n]
    BY <1>1, <1>3, <1>6, <1>9, FoldPartials
  <1> QED
    BY <1>1, <1>2, <1>10 DEF Partials

-----------------------------------------------------------------------------
(* What the pools are made from: integers, whatever bars are stored. *)
Bar == [at : Int, open : Int, high : Int, low : Int, close : Int]

LEMMA MinIs ==
  ASSUME NEW S, IsFiniteSet(S), S # {}, S \subseteq Int
  PROVE  Min(S) \in S /\ \A y \in S : Min(S) <= y
  <1> DEFINE T == {-x : x \in S}
             f == [x \in S |-> -x]
  <1>1. IsFiniteSet(T)
    <2>1. f \in Surjection(S, T)
      BY DEF Surjection
    <2> QED
      BY <2>1, FS_Surjection
  <1>2. T # {} /\ T \subseteq Int
    <2>1. \A x \in S : -x \in Int
      OBVIOUS
    <2> QED
      BY <2>1
  <1>3. Max(T) \in T /\ \A y \in T : Max(T) >= y
    BY <1>1, <1>2, MaxIs
  <1>4. PICK m \in S : Max(T) = -m
    BY <1>3
  <1>5. \A y \in S : m <= y
    <2> SUFFICES ASSUME NEW y \in S PROVE m <= y
      OBVIOUS
    <2>1. -m >= -y
      BY <1>3, <1>4
    <2> QED
      BY <2>1
  <1>6. \E m0 \in S : \A y \in S : m0 <= y
    BY <1>5
  <1> QED
    BY <1>6 DEF Min

LEMMA ExtremesType ==
  ASSUME NEW S, IsFiniteSet(S), S \subseteq Bar
  PROVE  HighOf(S) \in Int /\ LowOf(S) \in Int
  <1> DEFINE H == {b.high : b \in S}
             L == {b.low : b \in S}
             h == [b \in S |-> b.high]
             l == [b \in S |-> b.low]
  <1>1. CASE S = {}
    BY <1>1 DEF HighOf, LowOf, NoValue
  <1>2. CASE S # {}
    <2>1. \A b \in S : b.high \in Int /\ b.low \in Int
      BY DEF Bar
    <2>2. H # {} /\ H \subseteq Int /\ L # {} /\ L \subseteq Int
      BY <1>2, <2>1
    <2>3. IsFiniteSet(H) /\ IsFiniteSet(L)
      <3>1. h \in Surjection(S, H) /\ l \in Surjection(S, L)
        BY DEF Surjection
      <3> QED
        BY <3>1, FS_Surjection
    <2>4. Max(H) \in H /\ Min(L) \in L
      BY <2>2, <2>3, MaxIs, MinIs
    <2> QED
      BY <1>2, <2>2, <2>4 DEF HighOf, LowOf
  <1> QED
    BY <1>1, <1>2

LEMMA BarsFinite ==
  ASSUME NEW candles \in Seq(Bar)
  PROVE  IsFiniteSet(Bars(candles)) /\ Bars(candles) \subseteq Bar
  <1>1. /\ Len(candles) \in Nat /\ DOMAIN candles = 1..Len(candles)
        /\ \A i \in 1..Len(candles) : candles[i] \in Bar
    BY LenProperties, ElementOfSeq
  <1>2. IsFiniteSet(1..Len(candles))
    BY <1>1, FS_Interval
  <1>3. [i \in 1..Len(candles) |-> candles[i]] \in Surjection(1..Len(candles), Bars(candles))
    BY DEF Surjection, Bars
  <1>4. IsFiniteSet(Bars(candles))
    BY <1>2, <1>3, FS_Surjection
  <1> QED
    BY <1>1, <1>4 DEF Bars

LEMMA MembersType ==
  ASSUME NEW S, NEW s \in Seq(S), NEW places \in SUBSET DOMAIN s
  PROVE  Members(s, places) \in Seq(S)
  <1> DEFINE at == SetToSeq(places)
             n == Cardinality(places)
  <1>1. /\ Len(s) \in Nat /\ DOMAIN s = 1..Len(s) /\ \A i \in 1..Len(s) : s[i] \in S
    BY LenProperties, ElementOfSeq
  <1>2. IsFiniteSet(places)
    BY <1>1, PlacesFinite
  <1>3. n \in Nat /\ ExistsBijection(1..n, places)
    BY <1>2, FS_CardinalityType
  <1>4. \E f \in [1..n -> places] : IsInjective(f)
    BY <1>3 DEF ExistsBijection, Bijection, Injection
  <1>5. at \in [1..n -> places]
    BY <1>4 DEF SetToSeq
  <1> HIDE DEF at, n
  <1>6. Len(at) = n
    BY <1>3, <1>5
  <1>7. \A k \in 1..n : s[at[k]] \in S
    BY <1>1, <1>5
  <1>8. [k \in 1..n |-> s[at[k]]] \in [1..n -> S]
    BY <1>7
  <1>9. [k \in 1..n |-> s[at[k]]] \in Seq(S)
    BY <1>3, <1>8, SeqDef
  <1> QED
    BY <1>6, <1>9 DEF Members, at

LEMMA MeanType ==
  ASSUME NEW s \in Seq(Int), s # <<>>
  PROVE  Mean(s) \in Int
  <1>1. Len(s) \in Nat \ {0} /\ s \in [1..Len(s) -> Int]
    BY LenProperties, EmptySeq
  <1>2. Total(s) \in Int
    BY <1>1, Totals
  <1> QED
    BY <1>1, <1>2 DEF Mean

LEMMA SwingsType ==
  ASSUME NEW candles \in Seq(Bar)
  PROVE  SwingHighs(candles) \in Seq(Int) /\ SwingLows(candles) \in Seq(Int)
  <1> DEFINE n == Len(candles)
             highs == [i \in DOMAIN candles |-> candles[i].high]
             lows == [i \in DOMAIN candles |-> candles[i].low]
  <1>1. n \in Nat /\ DOMAIN candles = 1..n /\ \A i \in 1..n : candles[i] \in Bar
    BY LenProperties, ElementOfSeq
  <1>2. \A i \in 1..n : candles[i].high \in Int /\ candles[i].low \in Int
    BY <1>1 DEF Bar
  <1>3. highs \in [1..n -> Int] /\ lows \in [1..n -> Int]
    BY <1>1, <1>2
  <1>4. highs \in Seq(Int) /\ lows \in Seq(Int)
    BY <1>1, <1>3, SeqDef
  <1>5. DOMAIN highs = DOMAIN candles /\ DOMAIN lows = DOMAIN candles
    OBVIOUS
  <1> HIDE DEF highs, lows
  <1> DEFINE up == {i \in DOMAIN candles : /\ Flanked(candles, i)
                                           /\ \A b \in Beside(candles, i) : candles[i].high > b.high}
             down == {i \in DOMAIN candles : /\ Flanked(candles, i)
                                             /\ \A b \in Beside(candles, i) : candles[i].low < b.low}
  <1>6. SwingHighs(candles) = Members(highs, up) /\ SwingLows(candles) = Members(lows, down)
    BY DEF SwingHighs, SwingLows, highs, lows
  <1>7. up \in SUBSET DOMAIN highs /\ down \in SUBSET DOMAIN lows
    BY <1>5
  <1> HIDE DEF up, down
  <1> QED
    BY <1>4, <1>6, <1>7, MembersType

LEMMA SessionsType ==
  ASSUME NEW candles \in Seq(Bar), NEW now
  PROVE  SessionLevels(candles, now) \in Seq(Int)
  <1>1. \A from, to : HighOf(Within(candles, from, to)) \in Int /\ LowOf(Within(candles, from, to)) \in Int
    <2> SUFFICES ASSUME NEW from, NEW to
                 PROVE  HighOf(Within(candles, from, to)) \in Int /\ LowOf(Within(candles, from, to)) \in Int
      OBVIOUS
    <2>1. Within(candles, from, to) \subseteq Bars(candles)
      BY DEF Within
    <2>2. IsFiniteSet(Within(candles, from, to)) /\ Within(candles, from, to) \subseteq Bar
      BY <2>1, BarsFinite, FS_Subset
    <2> QED
      BY <2>2, ExtremesType
  <1> DEFINE day    == now - (now % 24)
             week   == day - 24 * ((day \div 24) % 7)
             asia   == Within(candles, day, day + 8)
             london == Within(candles, day + 8, day + 16)
             before == Within(candles, day - 24, day)
             past   == Within(candles, week - 168, week)
             levels == <<HighOf(before), LowOf(before), HighOf(past), LowOf(past),
                         HighOf(asia), LowOf(asia), HighOf(london), LowOf(london)>>
             places == {i \in DOMAIN levels : Known(levels[i])}
  <1>2. SessionLevels(candles, now) = Members(levels, places)
    BY DEF SessionLevels
  <1>3. /\ HighOf(before) \in Int /\ LowOf(before) \in Int /\ HighOf(past) \in Int
        /\ LowOf(past) \in Int /\ HighOf(asia) \in Int /\ LowOf(asia) \in Int
        /\ HighOf(london) \in Int /\ LowOf(london) \in Int
    BY <1>1
  <1> HIDE DEF before, past, asia, london
  <1>4. levels \in Seq(Int)
    BY <1>3
  <1>5. places \in SUBSET DOMAIN levels
    OBVIOUS
  <1> HIDE DEF levels, places
  <1> QED
    BY <1>2, <1>4, <1>5, MembersType

Run == Seq(Int) \ {<<>>}

LEMMA GrowType ==
  ASSUME NEW runs \in Seq(Run), NEW v \in Int, NEW tol \in Int
  PROVE  Grow(runs, v, tol) \in Seq(Run)
  <1>1. <<v>> \in Run
    <2>1. <<v>> \in Seq(Int) /\ Len(<<v>>) = 1 /\ Len(<<>>) = 0
      OBVIOUS
    <2>2. <<v>> # <<>>
      BY <2>1
    <2> QED
      BY <2>1, <2>2 DEF Run
  <1>2. CASE runs # <<>> /\ v - Last(Last(runs)) <= tol
    <2>1. Len(runs) \in Nat \ {0} /\ \A i \in 1..Len(runs) : runs[i] \in Run
      BY <1>2, EmptySeq, ElementOfSeq
    <2>2. Last(runs) \in Run
      BY <2>1 DEF Last
    <2>3. Append(Last(runs), v) \in Run
      <3>1. Last(runs) \in Seq(Int)
        BY <2>2 DEF Run
      <3>2. /\ Append(Last(runs), v) \in Seq(Int)
            /\ Len(Append(Last(runs), v)) = Len(Last(runs)) + 1
        BY <3>1, AppendProperties
      <3>3. Append(Last(runs), v) # <<>>
        BY <3>1, <3>2, EmptySeq, LenProperties
      <3> QED
        BY <3>2, <3>3 DEF Run
    <2>4. Front(runs) \in Seq(Run)
      BY <2>1, SubSeqProperties DEF Front
    <2> QED
      BY <1>2, <2>3, <2>4, AppendProperties DEF Grow
  <1>3. CASE ~(runs # <<>> /\ v - Last(Last(runs)) <= tol)
    BY <1>1, <1>3, AppendProperties DEF Grow
  <1> QED
    BY <1>2, <1>3

RunLists == Seq(Run)

LEMMA RunsType ==
  ASSUME NEW values \in Seq(Int), NEW tol \in Int
  PROVE  Runs(values, tol) \in RunLists
  <1> DEFINE s == Ascending(values)
             n == Len(s)
             E(F) == [T \in SUBSET DOMAIN s |->
                        IF T = {} THEN <<>> ELSE Grow(F[T \ {Max(T)}], s[Max(T)], tol)]
             iter == CHOOSE F : F = E(F)
             g == [z \in (1..n) \X RunLists |-> Grow(z[2], s[z[1]], tol)]
  <1>1. n \in Nat /\ DOMAIN s = 1..n /\ \A k \in 1..n : s[k] \in Int
    BY AscendingIs, LenProperties, ElementOfSeq DEF Sorteds
  <1>2. Runs(values, tol) = iter[1..n]
    BY <1>1 DEF Runs, FoldLeft, MapThenFoldSet
  <1> HIDE DEF s
  <1>3. StepIn(g, 1..n, RunLists)
    <2>1. \A k \in 1..n, l \in RunLists : Grow(l, s[k], tol) \in RunLists
      BY <1>1, GrowType DEF RunLists
    <2> QED
      BY <2>1 DEF StepIn
  <1>4. \A k \in 1..n, l \in RunLists : g[<<k, l>>] = Grow(l, s[k], tol)
    OBVIOUS
  <1>5. \A T \in SUBSET (1..n) : T # {} => Max(T) \in 1..n /\ Highest(n)[T] = Max(T)
    BY <1>1, HighestPicks DEF Picks, Highest
  <1>6. <<>> \in RunLists
    BY DEF RunLists
  <1> HIDE DEF n, g
  <1>7. \E F : F = E(F)
    <2>1. PICK F : Folded(F, 1..n, RunLists, <<>>, g, Highest(n))
      BY <1>1, <1>3, <1>6, HighestPicks, FoldsExist
    <2>2. F = E(F)
      <3>1. \A T \in SUBSET (1..n) : F[T] \in RunLists
        BY <2>1 DEF Folded
      <3>2. \A T \in SUBSET (1..n) : T # {} => F[T] = Grow(F[T \ {Max(T)}], s[Max(T)], tol)
        BY <1>4, <1>5, <2>1, <3>1 DEF Folded
      <3> QED
        BY <1>1, <2>1, <3>2 DEF Folded
    <2> HIDE DEF E
    <2> QED
      BY <2>2
  <1>8. iter = E(iter)
    <2> HIDE DEF E
    <2> QED
      BY <1>7, Zenon
  <1> HIDE DEF iter
  <1>9. Follows(iter, n, RunLists, <<>>, g)
    BY <1>1, <1>4, <1>5, <1>8 DEF Follows
  <1>10. \E h : Partials(h, n, RunLists, <<>>, g) /\ h[n] = iter[1..n]
    BY <1>1, <1>3, <1>6, <1>9, FoldPartials
  <1> QED
    BY <1>1, <1>2, <1>10 DEF Partials

LEMMA EqualLevelsType ==
  ASSUME NEW values \in Seq(Int), NEW tol \in Int
  PROVE  EqualLevels(values, tol) \in Seq(Int)
  <1> DEFINE runs == Runs(values, tol)
             n == Len(runs)
             means == [i \in DOMAIN runs |-> Mean(runs[i])]
             places == {i \in DOMAIN runs : Len(runs[i]) >= 2}
  <1>1. n \in Nat /\ DOMAIN runs = 1..n /\ \A i \in 1..n : runs[i] \in Run
    BY RunsType, LenProperties, ElementOfSeq DEF RunLists
  <1>2. EqualLevels(values, tol) = Members(means, places)
    BY DEF EqualLevels
  <1> HIDE DEF runs, n
  <1>3. \A i \in 1..n : Mean(runs[i]) \in Int
    BY <1>1, MeanType DEF Run
  <1>4. means \in [1..n -> Int] /\ DOMAIN means = DOMAIN runs
    BY <1>1, <1>3
  <1>5. means \in Seq(Int) /\ places \in SUBSET DOMAIN means
    BY <1>1, <1>4, SeqDef
  <1> HIDE DEF means, places
  <1> QED
    BY <1>2, <1>5, MembersType

-----------------------------------------------------------------------------
(* Merging an ascending list leaves no two pools within the tolerance: the
   average lies between the pool before and the one that joins it. *)
Spaced(m, tol) == \A i, j \in DOMAIN m : i < j => m[j] - m[i] > tol
Lists == Seq(Int)

LEMMA MergeType ==
  ASSUME NEW m \in Lists, NEW p \in Int, NEW tol \in Int
  PROVE  MergeInto(m, p, tol) \in Lists
  <1>1. CASE m # <<>> /\ p - Last(m) <= tol
    <2>1. Len(m) \in Nat \ {0} /\ \A i \in 1..Len(m) : m[i] \in Int
      BY <1>1, EmptySeq, ElementOfSeq DEF Lists
    <2>2. Last(m) \in Int
      BY <2>1 DEF Last
    <2>3. (Last(m) + p) \div 2 \in Int
      BY <2>2
    <2>4. Front(m) \in Seq(Int)
      BY <2>1, SubSeqProperties DEF Front
    <2> QED
      BY <1>1, <2>3, <2>4, AppendProperties DEF MergeInto, Lists
  <1>2. CASE ~(m # <<>> /\ p - Last(m) <= tol)
    BY <1>2, AppendProperties DEF MergeInto, Lists
  <1> QED
    BY <1>1, <1>2

Below(m, p) == m # <<>> => m[Len(m)] <= p

LEMMA MergeSpaces ==
  ASSUME NEW m \in Lists, NEW p \in Int, NEW tol \in Nat, Spaced(m, tol), Below(m, p)
  PROVE  Spaced(MergeInto(m, p, tol), tol) /\ Below(MergeInto(m, p, tol), p)
  <1> DEFINE n == Len(m)
             t == MergeInto(m, p, tol)
  <1>1. n \in Nat /\ DOMAIN m = 1..n /\ \A i \in 1..n : m[i] \in Int
    BY LenProperties, ElementOfSeq DEF Lists
  <1>2. \A i, j \in 1..n : i < j => m[j] - m[i] > tol
    BY <1>1 DEF Spaced
  <1>3. CASE m # <<>> /\ p - Last(m) <= tol
    <2> DEFINE c == (m[n] + p) \div 2
    <2>1. n \in Nat \ {0}
      BY <1>3, EmptySeq DEF Lists
    <2>2. m[n] \in Int /\ m[n] <= p
      BY <1>1, <1>3, <2>1 DEF Below
    <2>3. c \in Int /\ m[n] <= c /\ c <= p
      BY <2>2
    <2>4. t = Append(SubSeq(m, 1, n - 1), c)
      BY <1>3 DEF MergeInto, Front, Last
    <2> HIDE DEF c, t
    <2>5. /\ SubSeq(m, 1, n - 1) \in Seq(Int) /\ Len(SubSeq(m, 1, n - 1)) = n - 1
          /\ \A i \in 1 .. n - 1 : SubSeq(m, 1, n - 1)[i] = m[i]
      BY <1>1, <2>1
    <2>6. /\ t \in Seq(Int) /\ Len(t) = n /\ DOMAIN t = 1..n /\ t # <<>>
          /\ t[n] = c /\ \A i \in 1 .. n - 1 : t[i] = m[i]
      BY <2>1, <2>3, <2>4, <2>5, AppendProperties, LenProperties
    <2>7. \A i, j \in 1..n : i < j => t[j] - t[i] > tol
      <3> SUFFICES ASSUME NEW i \in 1..n, NEW j \in 1..n, i < j PROVE t[j] - t[i] > tol
        OBVIOUS
      <3>1. i \in 1 .. n - 1 /\ t[i] = m[i] /\ m[i] \in Int
        BY <1>1, <2>6
      <3>2. m[j] - m[i] > tol /\ m[j] \in Int
        BY <1>1, <1>2
      <3>3. CASE j = n
        BY <2>2, <2>3, <2>6, <3>1, <3>2, <3>3
      <3>4. CASE j # n
        <4>1. j \in 1 .. n - 1
          <5> HIDE DEF n
          <5> QED
            BY <1>1, <3>4
        <4> QED
          BY <2>6, <3>1, <3>2, <4>1
      <3> QED
        BY <3>3, <3>4
    <2> QED
      BY <2>3, <2>6, <2>7 DEF Spaced, Below, t
  <1>4. CASE ~(m # <<>> /\ p - Last(m) <= tol)
    <2>1. t = Append(m, p)
      BY <1>4 DEF MergeInto
    <2> HIDE DEF t
    <2>2. /\ t \in Seq(Int) /\ Len(t) = n + 1 /\ DOMAIN t = 1 .. n + 1
          /\ t[n + 1] = p /\ \A i \in 1..n : t[i] = m[i]
      BY <1>1, <2>1, AppendProperties, LenProperties DEF Lists
    <2>3. \A i, j \in 1 .. n + 1 : i < j => t[j] - t[i] > tol
      <3> SUFFICES ASSUME NEW i \in 1 .. n + 1, NEW j \in 1 .. n + 1, i < j PROVE t[j] - t[i] > tol
        OBVIOUS
      <3>1. i \in 1..n /\ n # 0
        BY <1>1
      <3>2. t[i] = m[i] /\ m[i] \in Int
        BY <1>1, <2>2, <3>1
      <3>3. CASE j = n + 1
        <4>1. m # <<>> /\ n \in 1..n
          BY <1>1, <3>1
        <4>2. m[n] \in Int /\ p - m[n] > tol
          BY <1>1, <1>4, <4>1 DEF Last
        <4>3. m[i] <= m[n]
          <5>1. m[n] <= p
            BY <4>1 DEF Below
          <5>2. CASE i = n
            BY <4>2, <5>2
          <5>3. CASE i < n
            <6>1. m[n] - m[i] > tol
              BY <1>1, <1>2, <3>1, <4>1, <5>3
            <6> QED
              BY <3>2, <4>2, <6>1
          <5>4. i = n \/ i < n
            <6> HIDE DEF n
            <6> QED
              BY <1>1, <3>1
          <5> QED
            BY <5>2, <5>3, <5>4
        <4> QED
          BY <2>2, <3>2, <3>3, <4>2, <4>3
      <3>4. CASE j # n + 1
        <4>1. j \in 1..n
          BY <1>1, <3>4
        <4>2. t[j] = m[j] /\ m[j] \in Int /\ m[j] - m[i] > tol
          BY <1>1, <1>2, <2>2, <3>1, <4>1
        <4> QED
          BY <3>2, <4>2
      <3> QED
        BY <3>3, <3>4
    <2> QED
      BY <1>1, <2>2, <2>3 DEF Spaced, Below, t
  <1> QED
    BY <1>3, <1>4

MergedAt(h, s, tol) ==
  /\ h \in [0..Len(s) -> Lists] /\ h[0] = <<>>
  /\ \A k \in 0 .. Len(s) - 1 : h[k + 1] = MergeInto(h[k], s[k + 1], tol)

LEMMA MergedSteps ==
  ASSUME NEW values \in Seq(Int), NEW tol \in Int
  PROVE  \E h : MergedAt(h, Ascending(values), tol) /\ h[Len(Ascending(values))] = Merged(values, tol)
  <1> DEFINE s == Ascending(values)
             n == Len(s)
             E(F) == [T \in SUBSET DOMAIN s |->
                        IF T = {} THEN <<>> ELSE MergeInto(F[T \ {Max(T)}], s[Max(T)], tol)]
             iter == CHOOSE F : F = E(F)
             g == [z \in (1..n) \X Lists |-> MergeInto(z[2], s[z[1]], tol)]
  <1>1. n \in Nat /\ DOMAIN s = 1..n /\ \A k \in 1..n : s[k] \in Int
    BY AscendingIs, LenProperties, ElementOfSeq DEF Sorteds
  <1>2. Merged(values, tol) = iter[1..n]
    BY <1>1 DEF Merged, FoldLeft, MapThenFoldSet
  <1> HIDE DEF s
  <1>3. StepIn(g, 1..n, Lists)
    <2>1. \A k \in 1..n, l \in Lists : MergeInto(l, s[k], tol) \in Lists
      BY <1>1, MergeType
    <2> QED
      BY <2>1 DEF StepIn
  <1>4. \A k \in 1..n, l \in Lists : g[<<k, l>>] = MergeInto(l, s[k], tol)
    OBVIOUS
  <1>5. \A T \in SUBSET (1..n) : T # {} => Max(T) \in 1..n /\ Highest(n)[T] = Max(T)
    BY <1>1, HighestPicks DEF Picks, Highest
  <1>6. <<>> \in Lists
    BY DEF Lists
  <1> HIDE DEF n, g
  <1>7. \E F : F = E(F)
    <2>1. PICK F : Folded(F, 1..n, Lists, <<>>, g, Highest(n))
      BY <1>1, <1>3, <1>6, HighestPicks, FoldsExist
    <2>2. F = E(F)
      <3>1. \A T \in SUBSET (1..n) : F[T] \in Lists
        BY <2>1 DEF Folded
      <3>2. \A T \in SUBSET (1..n) : T # {} => F[T] = MergeInto(F[T \ {Max(T)}], s[Max(T)], tol)
        BY <1>4, <1>5, <2>1, <3>1 DEF Folded
      <3> QED
        BY <1>1, <2>1, <3>2 DEF Folded
    <2> HIDE DEF E
    <2> QED
      BY <2>2
  <1>8. iter = E(iter)
    <2> HIDE DEF E
    <2> QED
      BY <1>7, Zenon
  <1> HIDE DEF iter
  <1>9. Follows(iter, n, Lists, <<>>, g)
    BY <1>1, <1>4, <1>5, <1>8 DEF Follows
  <1>10. PICK h : Partials(h, n, Lists, <<>>, g) /\ h[n] = iter[1..n]
    BY <1>1, <1>3, <1>6, <1>9, FoldPartials
  <1>11. \A k \in 0 .. n - 1 : h[k + 1] = MergeInto(h[k], s[k + 1], tol)
    <2>1. \A k \in 0 .. n - 1 : k + 1 \in 1..n /\ k \in 0..n
      BY <1>1
    <2>2. \A k \in 0 .. n - 1 : h[k] \in Lists /\ h[k + 1] = g[<<k + 1, h[k]>>]
      BY <1>10, <2>1 DEF Partials
    <2> QED
      BY <1>4, <2>1, <2>2
  <1>12. MergedAt(h, s, tol)
    BY <1>10, <1>11 DEF MergedAt, Partials, n
  <1> QED
    BY <1>2, <1>10, <1>12 DEF s, n

LEMMA MergedSpaced ==
  ASSUME NEW values \in Seq(Int), NEW tol \in Nat
  PROVE  Merged(values, tol) \in Lists /\ Spaced(Merged(values, tol), tol)
  <1> DEFINE s == Ascending(values)
             n == Len(s)
  <1>1. PICK h : MergedAt(h, s, tol) /\ h[n] = Merged(values, tol)
    BY MergedSteps
  <1>2. n \in Nat /\ (\A k \in 1..n : s[k] \in Int) /\ \A i, j \in 1..n : i < j => s[i] <= s[j]
    BY AscendingIs, LenProperties, ElementOfSeq DEF Sorteds, Sorted
  <1> HIDE DEF s
  <1>3. /\ h \in [0..n -> Lists] /\ h[0] = <<>>
        /\ \A k \in 0 .. n - 1 : h[k + 1] = MergeInto(h[k], s[k + 1], tol)
    BY <1>1 DEF MergedAt
  <1> HIDE DEF n
  <1> DEFINE K == {k \in Nat : k <= n => /\ Spaced(h[k], tol)
                                         /\ k # 0 => Below(h[k], s[k])}
  <1>4. 0 \in K
    BY <1>3 DEF Spaced
  <1>5. \A k \in Nat : k \in K => k + 1 \in K
    <2> SUFFICES ASSUME NEW k \in Nat, k \in K, k + 1 <= n
                 PROVE  Spaced(h[k + 1], tol) /\ Below(h[k + 1], s[k + 1])
      OBVIOUS
    <2>1. k \in 0 .. n - 1 /\ k \in 0..n /\ k + 1 \in 1..n
      BY <1>2
    <2>2. h[k] \in Lists /\ s[k + 1] \in Int /\ Spaced(h[k], tol)
      BY <1>2, <1>3, <2>1
    <2>3. Below(h[k], s[k + 1])
      <3>1. CASE k = 0
        BY <1>3, <3>1 DEF Below
      <3>2. CASE k # 0
        <4>1. k \in 1..n /\ s[k] \in Int /\ s[k] <= s[k + 1]
          BY <1>2, <2>1, <3>2
        <4>2. Below(h[k], s[k])
          BY <2>1, <3>2
        <4>3. h[k] # <<>> => h[k][Len(h[k])] \in Int
          <5>1. h[k] # <<>> => Len(h[k]) \in Nat \ {0}
            BY <2>2, EmptySeq DEF Lists
          <5>2. h[k] # <<>> => Len(h[k]) \in 1..Len(h[k])
            BY <5>1
          <5> QED
            BY <2>2, <5>2, ElementOfSeq DEF Lists
        <4> QED
          BY <2>2, <4>1, <4>2, <4>3 DEF Below
      <3> QED
        BY <3>1, <3>2
    <2> QED
      BY <1>3, <2>1, <2>2, <2>3, MergeSpaces
  <1>6. n \in K
    <2> HIDE DEF K
    <2> QED
      BY <1>2, <1>4, <1>5, Induct
  <1>7. n \in 0..n
    BY <1>2
  <1> QED
    BY <1>1, <1>3, <1>6, <1>7

LEMMA PoolsSpaced ==
  ASSUME NEW candles \in Seq(Bar), NEW price \in Int, NEW sessions \in Seq(Int), NEW atr \in Int,
         Tolerance(price, atr) \in Nat
  PROVE  Pools(candles, price, sessions, atr) \in Lists
         /\ Spaced(Pools(candles, price, sessions, atr), Tolerance(price, atr))
  <1> DEFINE tol   == Tolerance(price, atr)
             highs == SwingHighs(candles)
             lows  == SwingLows(candles)
             equalH == EqualLevels(highs, tol)
             equalL == EqualLevels(lows, tol)
             ends == <<HighOf(Bars(candles)), LowOf(Bars(candles))>>
             all   == highs \o lows \o equalH \o equalL \o ends \o sessions
  <1>1. CASE candles = <<>> \/ ~Known(price)
    BY <1>1 DEF Pools, Lists, Spaced
  <1>2. CASE ~(candles = <<>> \/ ~Known(price))
    <2>1. Pools(candles, price, sessions, atr) = Merged(all, tol)
      BY <1>2 DEF Pools
    <2>2. highs \in Seq(Int) /\ lows \in Seq(Int)
      BY SwingsType
    <2>3. tol \in Nat /\ tol \in Int
      OBVIOUS
    <2> HIDE DEF highs, lows, tol
    <2>4. equalH \in Seq(Int) /\ equalL \in Seq(Int)
      BY <2>2, <2>3, EqualLevelsType
    <2>5. ends \in Seq(Int)
      <3>1. HighOf(Bars(candles)) \in Int /\ LowOf(Bars(candles)) \in Int
        BY BarsFinite, ExtremesType
      <3> QED
        BY <3>1
    <2> HIDE DEF equalH, equalL, ends
    <2>6. all \in Seq(Int)
      BY <2>2, <2>4, <2>5, ConcatProperties
    <2> HIDE DEF all
    <2> QED
      BY <2>1, <2>3, <2>6, MergedSpaced DEF tol
  <1> QED
    BY <1>1, <1>2

-----------------------------------------------------------------------------
(* The mean true range is no number below zero, so a usable one makes a
   tolerance that does not depend on the price. *)
LEMMA MeanTrueRangeType ==
  ASSUME NEW candles \in Seq(Bar)
  PROVE  MeanTrueRange(candles) \in Nat
  <1> DEFINE bars == LastOf(candles, 14)
             from == Max({1, Len(candles) - 14 + 1})
             n == Len(bars)
             ranges == [i \in 1 .. n - 1 |-> TrueRange(bars[i], bars[i + 1])]
             zeros == [i \in 1 .. n - 1 |-> 0]
  <1>1. bars \in Seq(Bar)
    <2>1. Len(candles) \in Nat /\ \A i \in 1..Len(candles) : candles[i] \in Bar
      BY LenProperties, ElementOfSeq
    <2>2. from \in Int /\ from >= 1
      <3> DEFINE T == {1, Len(candles) - 14 + 1}
      <3>1. IsFiniteSet(T) /\ T # {} /\ T \subseteq Int /\ 1 \in T
        <4>1. T = {1, Len(candles) - 14 + 1, 1, 1}
          OBVIOUS
        <4>2. Len(candles) - 14 + 1 \in Int
          BY <2>1
        <4>3. IsFiniteSet(T)
          BY <4>1, FewFinite, Zenon
        <4> QED
          BY <4>2, <4>3
      <3> HIDE DEF T
      <3>2. Max(T) \in T /\ \A y \in T : Max(T) >= y
        BY <3>1, MaxIs
      <3> QED
        BY <3>1, <3>2 DEF T
    <2> HIDE DEF from
    <2>3. \A i \in from .. Len(candles) : candles[i] \in Bar
      BY <2>1, <2>2
    <2>4. bars = SubSeq(candles, from, Len(candles))
      BY DEF LastOf, from
    <2>5. Len(candles) \in Int
      BY <2>1
    <2>6. SubSeq(candles, from, Len(candles)) \in Seq(Bar)
      BY <2>2, <2>3, <2>5, SubSeqProperties
    <2> QED
      BY <2>4, <2>6
  <1> HIDE DEF bars
  <1>2. n \in Nat /\ \A i \in 1..n : bars[i] \in Bar
    BY <1>1, LenProperties, ElementOfSeq
  <1> HIDE DEF n
  <1>3. ASSUME NEW i \in 1 .. n - 1 PROVE TrueRange(bars[i], bars[i + 1]) \in Nat
    <2> DEFINE p == bars[i]
               c == bars[i + 1]
               T == {c.high - c.low, Away(c.high, p.close), Away(c.low, p.close)}
    <2>1. p \in Bar /\ c \in Bar
      BY <1>2
    <2> HIDE DEF p, c
    <2>2. c.high \in Int /\ c.low \in Int /\ p.close \in Int
      BY <2>1 DEF Bar
    <2>3. c.high - c.low \in Int /\ Away(c.high, p.close) \in Nat /\ Away(c.low, p.close) \in Nat
      BY <2>2 DEF Away
    <2>4. T = {c.high - c.low, Away(c.high, p.close), Away(c.low, p.close), Away(c.low, p.close)}
      OBVIOUS
    <2>5. IsFiniteSet(T)
      BY <2>4, FewFinite, Zenon
    <2>6. T # {} /\ T \subseteq Int /\ Away(c.high, p.close) \in T
      BY <2>3
    <2> HIDE DEF T
    <2>7. Max(T) \in Int /\ Max(T) >= Away(c.high, p.close)
      BY <2>5, <2>6, MaxIs
    <2>8. Max(T) \in Nat
      <3> DEFINE x == Max(T)
                 y == Away(c.high, p.close)
      <3>1. x \in Int /\ y \in Nat /\ x >= y
        BY <2>3, <2>7
      <3> HIDE DEF x, y
      <3>2. x \in Nat
        BY <3>1
      <3> QED
        BY <3>2 DEF x
    <2> QED
      BY <2>8 DEF TrueRange, T, p, c
  <1>4. CASE n < 2
    BY <1>4 DEF MeanTrueRange, NoValue, bars, n
  <1>5. CASE ~(n < 2)
    <2>1. n - 1 \in Nat \ {0}
      BY <1>2, <1>5
    <2>2. ranges \in [1 .. n - 1 -> Int] /\ zeros \in [1 .. n - 1 -> Int]
      BY <1>3
    <2>3. (\A i \in 1 .. n - 1 : zeros[i] <= ranges[i]) /\ \A i \in 1 .. n - 1 : zeros[i] = -zeros[i]
      <3>1. \A i \in 1 .. n - 1 : ranges[i] \in Nat
        BY <1>3
      <3>2. \A i \in 1 .. n - 1 : zeros[i] = 0
        OBVIOUS
      <3> HIDE DEF ranges, zeros
      <3> QED
        BY <3>1, <3>2
    <2>4. MeanTrueRange(candles) = Total(ranges) \div Len(ranges)
      BY <1>5 DEF MeanTrueRange, Mean, bars, n
    <2>5. Len(ranges) = n - 1
      BY <2>1, <2>2
    <2> HIDE DEF ranges, zeros
    <2>6. Total(zeros) \in Int /\ Total(ranges) \in Int /\ Total(zeros) = -Total(zeros)
      BY <2>1, <2>2, <2>3, Totals
    <2>7. Total(zeros) <= Total(ranges)
      BY <2>1, <2>2, <2>3, Totals
    <2>8. Total(ranges) \in Nat
      BY <2>6, <2>7
    <2>9. \A x \in Nat, y \in Nat \ {0} : x \div y \in Nat
      OBVIOUS
    <2> QED
      BY <2>1, <2>4, <2>5, <2>8, <2>9
  <1> QED
    BY <1>4, <1>5

-----------------------------------------------------------------------------
(* The pools a context holds are apart from the moment they are read, and no
   other step of a handler looks at them before the brain is asked. *)
BarsOK == "market" \in DOMAIN world /\ world.market.bars \in Seq(Bar)

ApartIn(ctx) ==
  Usable(ctx.atr) => \A p, q \in ctx.buy \cup ctx.sell :
                       p # q => Away(p, q) > Tolerance(ctx.price, ctx.atr)
PoolFields(ctx) == {"price", "atr", "buy", "sell"} \subseteq DOMAIN ctx /\ ctx.atr \in Nat

PoolsRead(j) ==
  /\ j.pc = "technicals" => PoolFields(j.ctx) /\ j.ctx.buy \cup j.ctx.sell = {}
  /\ j.pc = "brain" => ApartIn(j.ctx)
PoolInv == FairInv /\ BarsOK /\ \A a \in Askers : PoolsRead(job[a])

LEMMA PoolsMean == PoolInv => PoolsApart
  BY DEF PoolInv, PoolsRead, ApartIn, PoolsApart

LEMMA BarsStep == WorldFair /\ BarsOK /\ [Next]_vars => BarsOK'
  <1> SUFFICES ASSUME WorldFair, BarsOK, [Next]_vars PROVE BarsOK'
    OBVIOUS
  <1>1. "market" \in DOMAIN world' /\ world'.market = world.market
    <2>1. CASE world' = world
      BY <2>1 DEF BarsOK
    <2>2. CASE Monitor
      BY <2>2 DEF BarsOK, Monitor, StoreQuote, QuoteAges, StoreNews, StoreSnapshot
    <2>3. CASE Restart
      BY <2>3 DEF BarsOK, Restart
    <2>4. ASSUME NEW ok, Commits(ok)
          PROVE  "market" \in DOMAIN world' /\ world'.market = world.market
      BY <2>4 DEF BarsOK, Commits
    <2>5. ASSUME NEW a \in Askers, Ask(a) \/ Break(a)
          PROVE  "market" \in DOMAIN world' /\ world'.market = world.market
      BY <2>5 DEF BarsOK, Ask, Break
    <2>6. ASSUME NEW a \in Askers, Handler(a)
          PROVE  world' = world \/ \E ok : Commits(ok)
      BY <2>6 DEF Handler, ReadPrice, ReadTechnicals, ReadBrain, ReadPositioning, ReadNews, AnswerPipeline,
         AnswerMode, AnswerPlaybook, AnswerWatch, DebateRead, Convene, AnswerMacro, AnswerSystem, Persist
    <2> QED
      BY <2>1, <2>2, <2>3, <2>4, <2>5, <2>6 DEF Next, vars
  <1> QED
    BY <1>1 DEF BarsOK

(* The pools of the stored bars, from the two reads of the quote. *)
LEMMA PoolsOfBars ==
  ASSUME PoolInv, NEW price0 \in Int, NEW price, NEW atr \in Nat, Usable(atr),
         NEW p, NEW q,
         {p, q} \subseteq ToSet(Pools(world.market.bars, price0,
                                      SessionLevels(world.market.bars, world.market.now), atr)),
         p # q
  PROVE  Away(p, q) > Tolerance(price, atr)
  <1> DEFINE bars == world.market.bars
             pools == Pools(bars, price0, SessionLevels(bars, world.market.now), atr)
             tol == (atr * 15) \div 100
  <1>1. Tolerance(price, atr) = tol /\ Tolerance(price0, atr) = tol /\ tol \in Nat
    <2>1. Known(atr) /\ atr > 0
      BY DEF Usable
    <2> QED
      BY <2>1 DEF Tolerance
  <1> HIDE DEF tol
  <1>2. bars \in Seq(Bar) /\ SessionLevels(bars, world.market.now) \in Seq(Int)
    BY SessionsType DEF PoolInv, BarsOK
  <1>3. pools \in Lists /\ Spaced(pools, tol)
    <2>1. atr \in Int /\ Tolerance(price0, atr) \in Nat
      BY <1>1
    <2> QED
      BY <1>1, <1>2, <2>1, PoolsSpaced
  <1>4. {p, q} \subseteq ToSet(pools)
    OBVIOUS
  <1> HIDE DEF pools, bars
  <1>5. /\ Len(pools) \in Nat /\ DOMAIN pools = 1..Len(pools)
        /\ \A i \in 1..Len(pools) : pools[i] \in Int
    BY <1>3, LenProperties, ElementOfSeq DEF Lists
  <1>6. PICK i \in 1..Len(pools), k \in 1..Len(pools) : p = pools[i] /\ q = pools[k]
    BY <1>4, <1>5 DEF ToSet
  <1>7. p \in Int /\ q \in Int
    BY <1>5, <1>6
  <1>8. CASE i < k
    <2>1. q - p > tol
      BY <1>3, <1>5, <1>6, <1>8 DEF Spaced
    <2> QED
      BY <1>1, <1>7, <2>1 DEF Away
  <1>9. CASE k < i
    <2>1. p - q > tol
      BY <1>3, <1>5, <1>6, <1>9 DEF Spaced
    <2> QED
      BY <1>1, <1>7, <2>1 DEF Away
  <1>10. i # k
    BY <1>6
  <1> QED
    BY <1>5, <1>8, <1>9, <1>10

LEMMA ReadPricePools ==
  ASSUME PoolInv, NEW a \in Askers, ReadPrice(a)
  PROVE  PoolsRead(job'[a]) /\ \A b \in Askers \ {a} : job'[b] = job[b]
  <1> DEFINE quote == Latest
             recent == Bars(LastOf(Market.bars, 20))
             ctx == [Blank EXCEPT !.price = quote.price, !.status = StatusOf(quote),
                           !.bid = quote.bid, !.ask = quote.ask,
                           !.bars = Len(Market.bars),
                           !.hi = IF EnoughBars THEN HighOf(recent) ELSE NoValue,
                           !.lo = IF EnoughBars THEN LowOf(recent) ELSE NoValue,
                           !.atr = IF EnoughBars THEN MeanTrueRange(Market.bars) ELSE NoValue]
  <1>1. Goes(a, "technicals", ctx)
    BY DEF ReadPrice
  <1>2. MeanTrueRange(Market.bars) \in Nat /\ NoValue \in Nat
    BY MeanTrueRangeType DEF PoolInv, BarsOK, Market, NoValue
  <1>3. /\ {"price", "atr", "buy", "sell"} \subseteq DOMAIN ctx /\ ctx.buy \cup ctx.sell = {}
        /\ ctx.atr = IF EnoughBars THEN MeanTrueRange(Market.bars) ELSE NoValue
    BY DEF Blank
  <1> HIDE DEF ctx, quote, recent
  <1>4. PoolFields(ctx)
    BY <1>2, <1>3 DEF PoolFields
  <1>5. job'[a].pc = "technicals" /\ job'[a].ctx = ctx /\ \A b \in Askers \ {a} : job'[b] = job[b]
    BY <1>1, MovesTo DEF PoolInv, FairInv, RepliesInv, AnswersIInv
  <1> QED
    BY <1>3, <1>4, <1>5 DEF PoolsRead

LEMMA ReadTechnicalsPools ==
  ASSUME PoolInv, NEW a \in Askers, ReadTechnicals(a)
  PROVE  PoolsRead(job'[a]) /\ \A b \in Askers \ {a} : job'[b] = job[b]
  <1> DEFINE ctx == job[a].ctx
             price == Latest.price
             bars == world.market.bars
             pools == Pools(bars, price, SessionLevels(bars, world.market.now), ctx.atr)
             read == [ctx EXCEPT !.mapped = TRUE, !.buy = BuySide(pools, price),
                              !.sell = SellSide(pools, price),
                              !.swept = Swept(bars, pools),
                              !.zone = ReactionZone(bars, ctx.atr)]
             next == IF EnoughBars THEN read ELSE ctx
  <1>1. Goes(a, "brain", next)
    BY DEF ReadTechnicals, Market
  <1>2. PoolFields(ctx) /\ ctx.buy \cup ctx.sell = {}
    BY DEF PoolInv, PoolsRead, ReadTechnicals, At
  <1>3. price \in Int
    BY LatestOK DEF PoolInv, QuoteOK
  <1>4. /\ read.price = ctx.price /\ read.atr = ctx.atr
        /\ read.buy = BuySide(pools, price) /\ read.sell = SellSide(pools, price)
    BY <1>2 DEF PoolFields
  <1>5. read.buy \cup read.sell \subseteq ToSet(pools)
    BY <1>4 DEF BuySide, SellSide
  <1>6. ApartIn(read)
    <2> SUFFICES ASSUME Usable(ctx.atr), NEW p \in read.buy \cup read.sell,
                        NEW q \in read.buy \cup read.sell, p # q
                 PROVE  Away(p, q) > Tolerance(ctx.price, ctx.atr)
      BY <1>4 DEF ApartIn
    <2>1. {p, q} \subseteq ToSet(pools)
      BY <1>5
    <2> QED
      BY <1>2, <1>3, <2>1, PoolsOfBars DEF PoolFields
  <1>7. ApartIn(ctx)
    BY <1>2 DEF ApartIn
  <1> HIDE DEF ctx, read
  <1>8. ApartIn(next)
    BY <1>6, <1>7
  <1> HIDE DEF next
  <1>9. job'[a].pc = "brain" /\ job'[a].ctx = next /\ \A b \in Askers \ {a} : job'[b] = job[b]
    BY <1>1, MovesTo DEF PoolInv, FairInv, RepliesInv, AnswersIInv
  <1> QED
    BY <1>8, <1>9 DEF PoolsRead

(* A job that leaves the two steps between which pools are held for the brain. *)
LEMMA ElsewherePools ==
  ASSUME PoolInv, NEW a \in Askers, NEW pc, pc \notin {"technicals", "brain"}, NEW ctx,
         Goes(a, pc, ctx) \/ \E reply : Replies(a, pc, ctx, reply)
  PROVE  PoolsRead(job'[a]) /\ \A b \in Askers \ {a} : job'[b] = job[b]
  <1>1. job'[a].pc = pc /\ \A b \in Askers \ {a} : job'[b] = job[b]
    <2>1. DeskInv
      BY DEF PoolInv, FairInv, RepliesInv, AnswersIInv
    <2>2. CASE Goes(a, pc, ctx)
      BY <2>1, <2>2, MovesTo
    <2>3. CASE \E reply : Replies(a, pc, ctx, reply)
      BY <2>1, <2>3, RepliesTo
    <2> QED
      BY <2>2, <2>3
  <1> QED
    BY <1>1 DEF PoolsRead

LEMMA OtherPools ==
  ASSUME PoolInv, NEW a \in Askers,
         \/ ReadBrain(a) \/ ReadPositioning(a) \/ ReadNews(a) \/ DebateRead(a) \/ Convene(a)
         \/ AnswerPipeline(a) \/ AnswerMode(a) \/ AnswerPlaybook(a) \/ AnswerWatch(a)
         \/ AnswerMacro(a) \/ AnswerSystem(a)
  PROVE  PoolsRead(job'[a]) /\ \A b \in Askers \ {a} : job'[b] = job[b]
  <1>1. \E pc, ctx : /\ pc \notin {"technicals", "brain"}
                     /\ Goes(a, pc, ctx) \/ \E reply : Replies(a, pc, ctx, reply)
    <2>1. CASE ReadBrain(a) \/ ReadPositioning(a) \/ ReadNews(a) \/ DebateRead(a)
      BY <2>1 DEF ReadBrain, ReadPositioning, ReadNews, DebateRead
    <2>2. CASE Convene(a)
      BY <2>2 DEF Convene
    <2>3. CASE AnswerMode(a)
      BY <2>3 DEF AnswerMode
    <2>4. CASE AnswerPlaybook(a)
      BY <2>4 DEF AnswerPlaybook, Fails
    <2>5. CASE AnswerWatch(a)
      BY <2>5 DEF AnswerWatch
    <2>6. CASE AnswerMacro(a) \/ AnswerSystem(a)
      BY <2>6 DEF AnswerMacro, AnswerSystem, Fails
    <2>7. CASE AnswerPipeline(a)
      <3>1. PICK ctx, reply : Replies(a, "persist", ctx, reply)
        BY <2>7 DEF AnswerPipeline
      <3> QED
        BY <3>1
    <2> QED
      BY <2>1, <2>2, <2>3, <2>4, <2>5, <2>6, <2>7
  <1> QED
    BY <1>1, ElsewherePools

LEMMA PersistPools ==
  ASSUME PoolInv, NEW a \in Askers, Persist(a)
  PROVE  PoolsRead(job'[a]) /\ \A b \in Askers \ {a} : job'[b] = job[b]
  <1>1. job' = [job EXCEPT ![a].pc = "done"]
    BY DEF Persist
  <1>2. DOMAIN job = Askers /\ DOMAIN job[a] = {"pc", "q", "ctx", "reply"}
    BY DEF PoolInv, FairInv, RepliesInv, AnswersIInv, DeskInv, Shape, JobsOK, JobOK, JobShape
  <1>3. job'[a].pc = "done" /\ \A b \in Askers \ {a} : job'[b] = job[b]
    BY <1>1, <1>2
  <1> QED
    BY <1>3 DEF PoolsRead

LEMMA BreakPools ==
  ASSUME PoolInv, NEW a \in Askers, Break(a)
  PROVE  PoolsRead(job'[a]) /\ \A b \in Askers \ {a} : job'[b] = job[b]
  <1>1. CASE job[a].pc = "technicals" /\ Goes(a, "brain", job[a].ctx)
    <2>1. job[a].ctx.buy \cup job[a].ctx.sell = {}
      BY <1>1 DEF PoolInv, PoolsRead
    <2>2. ApartIn(job[a].ctx)
      BY <2>1 DEF ApartIn
    <2>3. /\ job'[a].pc = "brain" /\ job'[a].ctx = job[a].ctx
          /\ \A b \in Askers \ {a} : job'[b] = job[b]
      BY <1>1, MovesTo DEF PoolInv, FairInv, RepliesInv, AnswersIInv
    <2> QED
      BY <2>2, <2>3 DEF PoolsRead
  <1>2. CASE Goes(a, "report", Blank)
    BY <1>2, ElsewherePools
  <1>3. CASE Fails(a)
    BY <1>3, ElsewherePools DEF Fails
  <1> QED
    BY <1>1, <1>2, <1>3 DEF Break

LEMMA NobodyPools ==
  PoolsRead(Nobody)
  /\ \A q, pc : pc \notin {"technicals", "brain"} => PoolsRead([Nobody EXCEPT !.pc = pc, !.q = q])
  BY DEF PoolsRead, Nobody

LEMMA PoolStep == PoolInv /\ [Next]_vars => PoolInv'
  <1> SUFFICES ASSUME PoolInv, [Next]_vars PROVE \A a \in Askers : PoolsRead(job'[a])
    BY FairStep, BarsStep DEF PoolInv, FairInv
  <1>1. CASE Monitor \/ UNCHANGED vars
    <2>1. job' = job
      BY <1>1 DEF Monitor, StoreQuote, QuoteAges, StoreNews, StoreSnapshot, Writes, vars
    <2> QED
      BY <2>1 DEF PoolInv
  <1>2. CASE Restart
    BY <1>2, NobodyPools DEF Restart
  <1>3. ASSUME NEW a \in Askers, Ask(a)
        PROVE  PoolsRead(job'[a]) /\ \A b \in Askers \ {a} : job'[b] = job[b]
    <2>1. PICK q : job' = [job EXCEPT ![a] = [Nobody EXCEPT !.pc = FirstStep(q), !.q = q]]
      BY <1>3 DEF Ask
    <2>2. DOMAIN job = Askers
      BY DEF PoolInv, FairInv, RepliesInv, AnswersIInv, DeskInv, Shape, JobsOK
    <2>3. FirstStep(q) \notin {"technicals", "brain"}
      BY DEF FirstStep
    <2> QED
      BY <2>1, <2>2, <2>3, NobodyPools
  <1>4. ASSUME NEW a \in Askers, Break(a) \/ Handler(a)
        PROVE  PoolsRead(job'[a]) /\ \A b \in Askers \ {a} : job'[b] = job[b]
    BY <1>4, BreakPools, ReadPricePools, ReadTechnicalsPools, OtherPools, PersistPools DEF Handler
  <1>5. ASSUME NEW a \in Askers, Ask(a) \/ Break(a) \/ Handler(a)
        PROVE  \A b \in Askers : PoolsRead(job'[b])
    BY <1>3, <1>4, <1>5 DEF PoolInv
  <1> QED
    BY <1>1, <1>2, <1>5 DEF Next

LEMMA PoolInit == Init => PoolInv
  <1> SUFFICES ASSUME Init PROVE BarsOK /\ \A a \in Askers : PoolsRead(job[a])
    BY FairInit DEF PoolInv
  <1>1. PICK w \in Worlds :
          world = [market |-> w.market, news |-> w.news, snapshot |-> w.snapshot,
                   asks |-> w.asks, left |-> w.left, writes |-> w.writes, faults |-> w.faults,
                   restarts |-> w.restarts, clean |-> TRUE]
    BY DEF Init
  <1>2. BarsOK
    <2>1. w.market.bars \in Seq(Bar)
      BY FiguresAssumption DEF Bar
    <2> QED
      BY <1>1, <2>1 DEF BarsOK
  <1>3. \A a \in Askers : PoolsRead(job[a])
    BY NobodyPools DEF Init
  <1> QED
    BY <1>2, <1>3

(* Levels the desk holds for the same are one pool, for any bars, quotes and
   worlds: what build_liquidity_map merges cannot move next to a pool it was
   apart from (core/doctrine/liquidity.py). *)
THEOREM PoolsStayApart == Spec => []PoolsApart
  BY PoolInit, PoolStep, PoolsMean, PTL DEF Spec

=============================================================================
