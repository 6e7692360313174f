---------------------------- MODULE MCEngineParts ----------------------------
(***************************************************************************)
(* The parts of the engine and of a lane's job, which share no state, in   *)
(* one model: one part takes its steps, the others stay in an initial      *)
(* state of theirs.                                                        *)
(***************************************************************************)
EXTENDS MCCooperativeJob, EngineRuntime, DeadlineFlow, DiffusionHead, MCEngineArena,
        MCModelWeights

-----------------------------------------------------------------------------
TriedSolves == {<<1, 4>>, <<2, 1>>}      \* one step of kRK4, two of kEuler

-----------------------------------------------------------------------------
(***************************************************************************)
(* Portfolios of up to three plans, with ties in quality and cost, and     *)
(* contexts at the limits of the budget.                                   *)
(***************************************************************************)

Plan(id, steps, mask, latency, memory, quality) ==
  [id |-> id, steps |-> steps, hardware_mask |-> mask, latency_ns |-> latency,
   memory_bytes |-> memory, quality |-> quality]

Fast == Plan(1, 4, {0}, 20, 100, 60)
Fine == Plan(2, 10, {0}, 60, 200, 90)
Even == Plan(3, 10, {0, 1}, 50, 100, 90)
Twin == Plan(4, 10, {0}, 60, 100, 90)

TriedPortfolios ==
  {<<>>, <<Fast>>, <<Fast, Fast>>, <<Fast, Fine>>, <<Fine, Even, Fast>>, <<Fine, Twin, Even>>,
   <<Fast, Fine, Even, Twin>>, <<[Fast EXCEPT !.steps = 0]>>,
   <<[Fast EXCEPT !.latency_ns = 0]>>, <<[Fast EXCEPT !.hardware_mask = {}]>>,
   <<[Fast EXCEPT !.quality = NotFinite]>>, <<[Fast EXCEPT !.quality = 101]>>}

Ample == [slack_ns |-> 100, buffered_actions |-> 0, period_ns |-> 30, reserve_ns |-> 0,
          switch_ns |-> 0, available_memory_bytes |-> 255, hardware_mask |-> {0, 1},
          minimum_quality |-> 0, healthy |-> TRUE]

TriedContexts ==
  {[Ample EXCEPT !.slack_ns = slack, !.buffered_actions = actions, !.switch_ns = switch] :
     slack \in {20, 60, 100}, actions \in {0, 2, 200}, switch \in {0, 15}}
  \cup {[Ample EXCEPT !.minimum_quality = quality, !.available_memory_bytes = memory,
                      !.hardware_mask = mask] :
          quality \in {NotFinite, 80, 101}, memory \in {100, 255}, mask \in {{0}, {0, 1}}}
  \cup {[Ample EXCEPT !.reserve_ns = 100], [Ample EXCEPT !.reserve_ns = 40],
        [Ample EXCEPT !.switch_ns = 101], [Ample EXCEPT !.healthy = FALSE],
        [Ample EXCEPT !.period_ns = 0, !.buffered_actions = 3]}

-----------------------------------------------------------------------------
TriedHeads ==
  {[action_dim |-> ac, horizon |-> hz, action_steps |-> 1, observation_steps |-> ob,
    condition_dim |-> cd, stages |-> Len(ds), kernel |-> k, groups |-> g, timestep_dim |-> td,
    train_timesteps |-> tr, dims |-> ds] :
     ac \in {1, 7, 40}, hz \in {2, 4, 6, 8}, ob \in {1, 3}, cd \in {1, 20},
     ds \in {<<8, 8>>, <<8, 24>>, <<24, 8>>, <<16, 8, 24>>, <<8, 16, 8>>},
     k \in {1, 5, 9}, g \in {8}, td \in {4, 18}, tr \in {1, 7}}

-----------------------------------------------------------------------------
VARIABLE part               \* the part that runs

partVars == <<part, jobVars, engine_vars, flow_vars, diffusion_vars, arena_vars, weights_vars>>

RestingHead == CHOOSE h \in Heads : TRUE
RestingShape == CHOOSE s \in Shapes : TRUE
RestingArena == Constructed(RestingShape, 0, 0)

PartInit ==
  /\ part \in {"job", "runtime", "plans", "diffusion", "arena", "weights"}
  /\ JobInit
  /\ EngineInit /\ (part = "runtime" \/ kind = "mamba")
  /\ FlowInit
  /\ head \in (IF part = "diffusion" THEN Heads ELSE {RestingHead})
  /\ DiffusionInit
  /\ IF part = "arena" THEN ArenaInit
     ELSE /\ shape = RestingShape /\ arena = RestingArena /\ level = RestingArena.cursor
          /\ last = [op |-> "construct", length |-> 0, ok |-> TRUE]
  /\ IF part = "weights" THEN LoadInit
     ELSE /\ text = [Base EXCEPT !.braces = FALSE] /\ file = Whole(<<>>)
          /\ open = Opening /\ sized = file

PartNext ==
  /\ UNCHANGED part
  /\ IF part = "job" THEN JobNext ELSE UNCHANGED jobVars
  /\ IF part = "runtime" THEN EngineNext ELSE UNCHANGED engine_vars
  /\ IF part = "plans" THEN FlowNext ELSE UNCHANGED flow_vars
  /\ IF part = "diffusion" THEN DiffusionNext ELSE UNCHANGED diffusion_vars
  /\ IF part = "arena" THEN ArenaNext ELSE UNCHANGED arena_vars
  /\ IF part = "weights" THEN text = Base /\ WeightsNext ELSE UNCHANGED weights_vars

PartSpec == PartInit /\ [][PartNext]_partVars

\* Two contracts a checkpoint ships with are read as documented: the plan that
\* is selected is the best that fits, and a profile is accepted exactly when it
\* meets its description up to the parser's two liberties, and survives being
\* written and read.
ContractsHold == SelectsBest /\ AcceptsContract /\ ProfileRoundTrips
=============================================================================
