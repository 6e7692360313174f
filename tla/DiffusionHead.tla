--------------------------- MODULE DiffusionHead ---------------------------
(***************************************************************************)
(* The Diffusion Policy head (core/heads/diffusion/diffusion.cc) and the   *)
(* two calls the engine makes of it.  The floats a denoising pass may use  *)
(* are planned from the checkpoint's meta tensor before the head exists;   *)
(* the pass itself allocates layer by layer from that many floats.  The    *)
(* plan and the pass are written here separately, as they are in the code. *)
(*                                                                         *)
(* Sizes are in floats.  Values are left out: of the sample being denoised *)
(* the model keeps the noise level, the index into alphas_cumprod_ that    *)
(* the sample stands at (train_timesteps for noise, negative for clean).   *)
(* SizeMax stands for the largest size_t; the sums of the plan are checked *)
(* against it.  The clamping and the CUDA path are left out.               *)
(***************************************************************************)
EXTENDS Integers, Sequences, SequencesExt

CONSTANTS Heads,       \* the meta and dims tensors of the checkpoints loaded
          Steps,       \* inference step counts asked for
          Offsets,     \* where in a 64-byte line, in floats, a region starts
          kMaxStages,
          SizeMax

VARIABLES head,        \* the checkpoint
          diffusion,   \* ok_ and workspace_floats_, and whether loading ran out of memory
          pass,        \* the last denoising pass: what became of its memory
          solve        \* sample's loop: steps, index and the noise level of x

diffusion_vars == <<head, diffusion, pass, solve>>

kAlignmentFloats == 16
kFinalNormGroups == 8

std_max(a, b) == IF a > b THEN a ELSE b
Padded(n) == kAlignmentFloats * ((n + kAlignmentFloats - 1) \div kAlignmentFloats)

sample_values(h) == h.horizon * h.action_dim
Bottom(h) == h.dims[h.stages]

conv1d_workspace_floats(in, out, length, kernel) == length * in * kernel + length * out
conv_transpose1d_workspace_floats(in, out, length) == length * in + out * in + length * out

(***************************************************************************)
(* Planning: WorkspacePlan and the two required_* functions.               *)
(***************************************************************************)
WorkspacePlan == [current |-> kAlignmentFloats - 1, peak |-> kAlignmentFloats - 1, valid |-> TRUE]

\* checked_add: a plan that does not fit size_t is given up.
add(p, values) ==
  LET current == Padded(p.current) + values
  IN  IF ~p.valid THEN p
      ELSE IF current > SizeMax THEN [p EXCEPT !.valid = FALSE]
      ELSE [p EXCEPT !.current = current, !.peak = std_max(@, current)]

temporary(p, allocations) ==
  IF p.valid THEN [FoldLeft(add, p, allocations) EXCEPT !.current = p.current] ELSE p

PlannedResidual(p, in, out, length) ==
  temporary(add(p, out * length),
            <<out * length, 2 * out, conv1d_workspace_floats(in, out, length, 5)>>)

PlannedDown(h, b, stage) ==
  LET channels == h.dims[stage]
      half == b.length \div 2
      blocks == PlannedResidual(PlannedResidual(b.plan, b.in, channels, b.length),
                                channels, channels, b.length)
  IN  IF stage = h.stages
      THEN [plan |-> blocks, in |-> channels, length |-> b.length]
      ELSE [plan |-> temporary(add(blocks, channels * half),
                               <<conv1d_workspace_floats(channels, channels, half, 3)>>),
            in |-> channels, length |-> half]

PlannedUp(h, b, stage) ==
  LET high == h.dims[h.stages + 1 - stage]
      low == h.dims[h.stages - stage]
      blocks == PlannedResidual(PlannedResidual(add(b.plan, 2 * high * b.length),
                                                2 * high, low, b.length),
                                low, low, b.length)
  IN  [plan |-> temporary(add(blocks, low * 2 * b.length),
                          <<conv_transpose1d_workspace_floats(low, low, b.length)>>),
       in |-> low, length |-> 2 * b.length]

StagesInRange(h) ==
  h.stages \in 2..kMaxStages /\ Len(h.dims) = h.stages /\ \A i \in 1..h.stages : h.dims[i] # 0

required_workspace_floats(h) ==
  LET values == sample_values(h)
      start == FoldLeft(add, WorkspacePlan,
                        <<h.timestep_dim, 4 * h.timestep_dim, h.timestep_dim + h.condition_dim,
                          values>>)
      down == FoldLeft(LAMBDA b, stage : PlannedDown(h, b, stage),
                       [plan |-> start, in |-> h.action_dim, length |-> h.horizon],
                       [i \in 1..h.stages |-> i])
      Middle(p) == PlannedResidual(p, Bottom(h), Bottom(h), down.length)
      up == FoldLeft(LAMBDA b, stage : PlannedUp(h, b, stage),
                     [down EXCEPT !.plan = Middle(Middle(@))],
                     [i \in 1..(h.stages - 1) |-> i])
      max_channels == FoldLeft(std_max, 0, h.dims)
      last == temporary(add(add(up.plan, h.dims[1] * h.horizon), values),
                <<std_max(conv1d_workspace_floats(2 * max_channels, max_channels, h.horizon, 5),
                         conv_transpose1d_workspace_floats(max_channels, max_channels, h.horizon))>>)
  IN  IF StagesInRange(h) /\ last.valid /\ 2 * values + last.peak <= SizeMax
      THEN 2 * values + last.peak ELSE 0

\* The packed copies of the upsampling kernels, then alphas_cumprod_.
Packed(h) == [i \in 1..(h.stages - 1) |-> 4 * h.dims[h.stages - i] * h.dims[h.stages - i]]

required_persistent_floats(h) ==
  IF StagesInRange(h)
  THEN FoldLeft(LAMBDA total, n : total + n + kAlignmentFloats,
                h.train_timesteps + kAlignmentFloats, Packed(h))
  ELSE 0

(***************************************************************************)
(* A region of floats and the arena over it.  An array the caller tests is *)
(* alloc; the packing space of a convolution is Pack: it is given back at  *)
(* once, and without it the kernel falls back to its direct loop.          *)
(***************************************************************************)
Region(offset, floats) ==
  [cursor |-> offset, end |-> offset + floats, failed |-> FALSE, direct |-> FALSE]

alloc_span(a, values) ==
  LET p == Padded(a.cursor)
  IN  IF p + values > a.end THEN [a EXCEPT !.failed = TRUE] ELSE [a EXCEPT !.cursor = p + values]

Pack(a, floats) == [a EXCEPT !.direct = @ \/ Padded(a.cursor) + floats > a.end]

conv1d_arena(a, in, out, length, kernel) ==
  Pack(a, conv1d_workspace_floats(in, out, length, kernel))

(***************************************************************************)
(* The constructor.                                                        *)
(***************************************************************************)
ConfigOk(h) ==
  /\ h.action_dim # 0 /\ h.horizon # 0 /\ h.action_steps # 0
  /\ h.observation_steps \in 1..h.horizon
  /\ h.action_steps <= h.horizon - h.observation_steps + 1
  /\ h.condition_dim # 0
  /\ StagesInRange(h)
  /\ h.kernel % 2 = 1 /\ h.groups # 0
  /\ h.timestep_dim >= 4 /\ h.timestep_dim % 2 = 0
  /\ h.train_timesteps # 0
  /\ \A i \in 1..h.stages : h.dims[i] % h.groups = 0
  /\ h.dims[1] % kFinalNormGroups = 0

HorizonHalves(h) == h.horizon % 2^(h.stages - 1) = 0

Loaded(a, h) == FoldLeft(alloc_span, a, Packed(h) \o <<h.train_timesteps>>)

\* The slab holds what required_persistent_floats asked for.
Construct ==
  \E offset \in Offsets :
    LET accepted == ConfigOk(head) /\ HorizonHalves(head)
        a == Loaded(Region(offset, required_persistent_floats(head)), head)
        workspace == required_workspace_floats(head)
    IN  /\ diffusion.state = "new"
        /\ diffusion' = [state |-> IF accepted /\ ~a.failed /\ workspace # 0 THEN "ok"
                                   ELSE "invalid",
                         short |-> accepted /\ a.failed, workspace |-> workspace]
        /\ UNCHANGED <<head, pass, solve>>

(***************************************************************************)
(* One pass.  b holds the arena, the shape of x and the skips; a residual  *)
(* block leaves its output allocated and gives its temporaries back; a     *)
(* pass that has failed does no more.                                      *)
(***************************************************************************)
Shortcut(a, in, out, length) == IF in = out THEN a ELSE conv1d_arena(a, in, out, length, 1)

residual_forward(a, h, in, out, length) ==
  LET t == alloc_span(alloc_span(a, out * length), 2 * out)
      c == conv1d_arena(conv1d_arena(t, in, out, length, h.kernel), out, out, length, h.kernel)
  IN  [Shortcut(c, in, out, length) EXCEPT !.cursor = a.cursor]

Block(b, h, out) ==
  IF b.arena.failed \/ b.mismatch THEN b
  ELSE [b EXCEPT !.arena = residual_forward(alloc_span(@, out * b.length), h, b.channels, out,
                                            b.length),
                 !.channels = out]

Blocks(b, h, out) == Block(Block(b, h, out), h, out)

Keep(x) ==
  [x EXCEPT !.skips = Append(@, [length |-> x.length, size |-> x.channels * x.length])]

Downsample(x, half) ==
  [x EXCEPT !.length = half,
            !.arena = conv1d_arena(alloc_span(@, x.channels * half), x.channels, x.channels, half, 3)]

DownStage(b, h, stage) ==
  LET kept == Keep(Blocks(b, h, h.dims[stage]))
  IN  IF b.arena.failed THEN b
      ELSE IF stage = h.stages THEN kept ELSE Downsample(kept, b.length \div 2)

Join(b, skip) ==
  LET size == b.channels * b.length
  IN  [b EXCEPT !.arena = alloc_span(@, size + skip.size), !.channels = 2 * @,
                !.mismatch = @ \/ skip.length # b.length \/ skip.size # size]

Upsample(x, low) ==
  [x EXCEPT !.length = 2 * @,
            !.arena = Pack(alloc_span(@, low * 2 * x.length),
                           conv_transpose1d_workspace_floats(low, low, x.length))]

UpStage(b, h, stage) ==
  LET low == h.dims[h.stages - stage]
  IN  IF b.arena.failed \/ b.mismatch THEN b
      ELSE Upsample(Blocks(Join(b, b.skips[h.stages + 1 - stage]), h, low), low)

Final(x, h) ==
  LET arrays == alloc_span(alloc_span(x.arena, x.channels * x.length), sample_values(h))
      c == conv1d_arena(conv1d_arena(arrays, x.channels, x.channels, x.length, h.kernel),
                        x.channels, h.action_dim, x.length, 1)
  IN  [failed |-> c.failed \/ x.mismatch \/ x.channels # h.dims[1] \/ x.length # h.horizon,
       direct |-> c.direct]

denoise_with_arena(a, h) ==
  LET inputs == FoldLeft(alloc_span, a, <<h.timestep_dim, 4 * h.timestep_dim,
                                          h.timestep_dim + h.condition_dim, sample_values(h)>>)
      down == FoldLeft(LAMBDA b, stage : DownStage(b, h, stage),
                       [arena |-> inputs, length |-> h.horizon, channels |-> h.action_dim,
                        skips |-> <<>>, mismatch |-> FALSE],
                       [i \in 1..h.stages |-> i])
      up == FoldLeft(LAMBDA b, stage : UpStage(b, h, stage), Blocks(down, h, Bottom(h)),
                     [i \in 1..(h.stages - 1) |-> i])
  IN  Final(up, h)

NoPass == [failed |-> FALSE, direct |-> FALSE]

(***************************************************************************)
(* The engine's calls: denoise_diffusion gives the whole, aligned sampler  *)
(* workspace; sample keeps two samples at its front and denoises in what   *)
(* follows them.                                                           *)
(***************************************************************************)
denoise_diffusion ==
  /\ diffusion.state = "ok" /\ solve.steps = 0
  /\ pass' = denoise_with_arena(Region(0, diffusion.workspace), head)
  /\ UNCHANGED <<head, diffusion, solve>>

sample_diffusion ==
  \E steps \in Steps :
    /\ diffusion.state = "ok" /\ solve.steps = 0
    /\ steps \in 1..head.train_timesteps
    /\ solve' = [steps |-> steps, index |-> 0, level |-> head.train_timesteps, rough |-> FALSE]
    /\ UNCHANGED <<head, diffusion, pass>>

\* Mutation for SamplerReachesClean: the ratio is rounded up.
StepRatioUp(h, steps) == (h.train_timesteps + steps - 1) \div steps

step_ratio(h, steps) == h.train_timesteps \div steps

\* One round of sample's loop: the prediction is made for timestep, and the update
\* takes x from the level of timestep to that of previous.
SampleStep ==
  LET ratio == step_ratio(head, solve.steps)
      timestep == (solve.steps - 1 - solve.index) * ratio
      used == 2 * sample_values(head)
      result == denoise_with_arena(Region(used % kAlignmentFloats, diffusion.workspace - used), head)
  IN  /\ solve.steps # 0 /\ solve.index < solve.steps
      /\ pass' = result
      /\ solve' = IF result.failed THEN [solve EXCEPT !.steps = 0]
                  ELSE [solve EXCEPT !.index = @ + 1, !.level = timestep - ratio,
                                     !.rough = @ \/ timestep >= head.train_timesteps
                                                 \/ (solve.index > 0 /\ timestep # solve.level)]
      /\ UNCHANGED <<head, diffusion>>

\* The unscaled action is returned.
SampleReturn ==
  /\ solve.steps # 0 /\ solve.index = solve.steps
  /\ solve' = [solve EXCEPT !.steps = 0]
  /\ UNCHANGED <<head, diffusion, pass>>

DiffusionInit ==
  /\ head \in Heads
  /\ diffusion = [state |-> "new", short |-> FALSE, workspace |-> 0]
  /\ pass = NoPass
  /\ solve = [steps |-> 0, index |-> 0, level |-> 0, rough |-> FALSE]

DiffusionNext ==
  \/ Construct
  \/ denoise_diffusion
  \/ sample_diffusion
  \/ SampleStep
  \/ SampleReturn

(***************************************************************************)
(* Properties.                                                             *)
(***************************************************************************)

\* The floats planned from the meta tensor are enough: no checkpoint the
\* constructor accepts runs out of memory while it is loaded or while it is
\* denoised, from either entry point and at either alignment, its skips match
\* their upsampled partners, and with a kernel up to the 5 that
\* required_workspace_floats plans with, no convolution has to fall back to the
\* direct loop for want of packing space.
DenoiserFits ==
  /\ ~diffusion.short
  /\ ~pass.failed
  /\ head.kernel <= 5 => ~pass.direct

\* sample's rounds chain: every timestep indexes alphas_cumprod_ inside its
\* train_timesteps entries, every prediction is made for the noise level the
\* round before left the sample at, and the sample that is returned is clean.
SamplerReachesClean ==
  /\ ~solve.rough
  /\ solve.steps # 0 /\ solve.index = solve.steps => solve.level < 0

\* The head computes what it was built for: the planned memory is enough and the
\* sampler ends with a clean sample.
HeadSound == DenoiserFits /\ SamplerReachesClean
=============================================================================
