---------------------------- MODULE EngineArena ----------------------------
(***************************************************************************)
(* The memory of one engine: the slab that required_slab_bytes sizes from  *)
(* the checkpoint's tensor shapes (core/runtime/engine_runtime.cc), the    *)
(* bump allocator over it (core/arena/arena.h), and every allocation the   *)
(* constructors and the inference calls of the CPU build make from it.     *)
(*                                                                         *)
(* The slab never grows.  Some callers test an allocation and fail the     *)
(* call; Mamba's layers and the flow head's velocity use theirs untested.  *)
(* The formula counts no alignment padding, no dt_rank and the expert's    *)
(* pinned widths as multiples of its own, so that it is right for some of  *)
(* the accepted shapes: Covered says which.                                *)
(*                                                                         *)
(* A shape is a record of dimensions; a part the checkpoint does not have  *)
(* has dimensions zero, as the code's shape() returns.  The Diffusion      *)
(* Policy head is DiffusionHead's; the CUDA uploads are left out.          *)
(***************************************************************************)
EXTENDS Integers, Sequences, SequencesExt

CONSTANTS Shapes,      \* the checkpoints loaded
          Lengths,     \* token counts, chunk sizes and prefix lengths passed
          kPoolBytes   \* sizeof(ThreadPool)

VARIABLES shape,       \* the checkpoint of this engine
          arena,       \* arena_: cursor, end, and whether an allocation failed
          level,       \* the cursor when construction ended
          last         \* the last call: operation, length and whether it had memory

arena_vars == <<shape, arena, level, last>>

SlabAlign == 64
k_max_decode_seq == 512
kThreadRingSlots == 128
kMaxPoolThreads == 8
TaskBytes == 64
JthreadBytes == 16
FloatBytes == 4

shape_has_backbone(s) == s.d_model * s.d_inner * s.d_state * s.d_conv # 0
has_transformer(s) == s.model * s.layers * s.prefix * s.mlp # 0
has_flow(s) == s.hidden * s.action * s.time # 0
has_smolvla(s) == s.expert_width * s.expert_action # 0

(***************************************************************************)
(* The slab.                                                               *)
(***************************************************************************)
FlowFloats(s) == 3 * s.hidden + 6 * s.action + (3 * s.time) \div 2

\* Mutation for SlabSuffices: a prefill is given one layer width too little.
PerTokenTight(s) == 3 * s.d_inner + 3 * s.d_model

PerToken(s) == 3 * s.d_state * s.d_inner + 16 * s.d_inner + 8 * s.d_model

required_slab_bytes(s) ==
  LET transformer == 2 * s.layers * s.prefix * s.model + 9 * s.model + s.mlp + s.prefix
      floats == FlowFloats(s) + 64 * s.d_inner * (s.d_conv + 2 * s.d_state)
                  + transformer + 16 * 512 * s.expert_width
                  + k_max_decode_seq * PerToken(s)
  IN  kThreadRingSlots * (TaskBytes + 8) + kMaxPoolThreads * JthreadBytes
        + kPoolBytes + floats * FloatBytes + 4096

(***************************************************************************)
(* The allocator.  A failing alloc returns null and leaves the cursor.     *)
(***************************************************************************)
Up(n, align) == align * ((n + align - 1) \div align)

alloc(a, bytes, align) ==
  LET p == Up(a.cursor, align)
  IN  IF p + bytes > a.end THEN [a EXCEPT !.failed = TRUE]
                           ELSE [a EXCEPT !.cursor = p + bytes]

alloc_array(a, floats) == alloc(a, floats * FloatBytes, SlabAlign)

\* Arrays taken one after the other: all but the last are padded by the
\* alignment of their successor.  The callers do not keep what a failing
\* series took.
Carved(a, sizes) ==
  LET padded == FoldLeft(LAMBDA sum, n : sum + Up(n * FloatBytes, SlabAlign), 0, Front(sizes))
  IN  alloc(a, padded + Last(sizes) * FloatBytes, SlabAlign)

Repeated(a, n, floats) ==
  alloc(a, (n - 1) * Up(floats * FloatBytes, SlabAlign) + floats * FloatBytes, SlabAlign)

reset_to(a, mark) == [a EXCEPT !.cursor = mark]

\* The rounds of a loop over layers: the third starts from the cursor the second
\* started from, so two rounds stand for all.
Times(n) == IF n > 1 THEN <<1, 2>> ELSE <<1>>

(***************************************************************************)
(* Mamba.                                                                  *)
(***************************************************************************)
Mamba(a, s) ==
  IF shape_has_backbone(s)
  THEN Repeated(a, s.n_layers, s.d_state * s.d_inner) ELSE a

\* The eleven buffers of a layer; l is 1 in decode_layer, which takes the scan
\* state from the stream and convolves in place.
LayerBuffers(s, l, scan) ==
  <<l * s.d_model, 2 * l * s.d_inner, l * s.d_inner>> \o scan
    \o <<l * (s.dt_rank + 2 * s.d_state), l * s.dt_rank, l * s.d_inner>>

layer_forward(a, s, l) ==
  reset_to(Carved(a, LayerBuffers(s, l, [i \in 1..3 |-> l * s.d_inner])
                       \o <<s.d_state * s.d_inner, l * s.d_inner, l * s.d_model>>),
           a.cursor)

forward(a, s, l) ==
  FoldLeft(LAMBDA b, i : layer_forward(b, s, l), a, Times(s.n_layers))

decode_layer(a, s) ==
  reset_to(Carved(a, LayerBuffers(s, 1, <<s.d_inner>>) \o <<s.d_inner, s.d_model>>), a.cursor)

decode(a, s) ==
  FoldLeft(LAMBDA b, i : decode_layer(b, s), a, Times(s.n_layers))

(***************************************************************************)
(* Transformer.                                                            *)
(***************************************************************************)
Transformer(a, s) ==
  IF has_transformer(s) THEN Repeated(a, 2 * s.layers, s.prefix * s.model) ELSE a

TransformerLayer(a, s, position) ==
  reset_to(Carved(a, <<s.model, 3 * s.model, s.model, s.model, s.mlp, s.model, position + 1>>),
           a.cursor)

decode_embedding(a, s, position) ==
  reset_to(FoldLeft(LAMBDA b, i : TransformerLayer(b, s, position),
                    Carved(a, <<s.model, s.model>>), Times(s.layers)),
           a.cursor)

\* The tokens are decoded one after the other from the same mark, and the
\* scores of the last position need the most.
forward_tokens(a, s, l) == decode_embedding(decode_embedding(a, s, 0), s, l - 1)

(***************************************************************************)
(* The flow head.                                                          *)
(***************************************************************************)
FlowHead(a, s) == IF has_flow(s) THEN alloc_array(a, s.time \div 2) ELSE a

sampler_workspace_size(s) == s.hidden + 6 * s.action

velocity(a, s) == reset_to(Carved(a, <<s.hidden, s.hidden, s.time>>), a.cursor)

(***************************************************************************)
(* The SmolVLA action expert, with its pinned attention and MLP widths.    *)
(***************************************************************************)
attention_width == 960
key_value_width == 320
mlp_width == 2048

SmolVLAActionExpert(a, s) ==
  IF has_smolvla(s)
  THEN Repeated(a, 2 * s.expert_layers + 1, s.expert_width) ELSE a

embed_suffix(a, s, rows) ==
  reset_to(Carved(a, <<rows * s.expert_width, 2 * rows * s.expert_width, s.expert_width>>),
           a.cursor)

ExpertLayer(a, s, chunk, prefix, i) ==
  LET key_rows == IF i % 2 = 0 THEN prefix ELSE chunk      \* odd layers cross-attend
  IN  reset_to(Carved(a, <<chunk * s.expert_width, chunk * attention_width,
                           key_rows * key_value_width, key_rows * key_value_width,
                           chunk * attention_width, chunk * s.expert_width,
                           chunk * mlp_width, chunk * mlp_width, prefix + chunk>>),
               a.cursor)

run_with_prefix_kv(a, s, chunk, prefix) ==
  LET layers == FoldLeft(LAMBDA b, i : ExpertLayer(b, s, chunk, prefix, i), a,
                         Times(s.expert_layers))
  IN  reset_to(alloc_array(layers, chunk * s.expert_width), a.cursor)

denoise_with_prefix_kv(a, s, chunk, prefix) ==
  LET held == Carved(a, <<chunk * s.expert_width, chunk * s.expert_width>>)
  IN  reset_to(run_with_prefix_kv(embed_suffix(held, s, chunk), s, chunk, prefix), a.cursor)

sample_euler_with_prefix_kv(a, s, chunk, prefix) ==
  reset_to(denoise_with_prefix_kv(alloc_array(a, chunk * s.expert_action), s, chunk, prefix),
           a.cursor)

(***************************************************************************)
(* EngineRuntime: the constructor's allocations in member order, then the  *)
(* worker pool and the three persistent spans.                             *)
(***************************************************************************)
PoolMemory(a, threads) ==
  IF threads = 0 THEN a
  ELSE LET ring == alloc(a, kThreadRingSlots * TaskBytes, SlabAlign)
           sequence == alloc(ring, kThreadRingSlots * 8, SlabAlign)
           workers == alloc(sequence, threads * JthreadBytes, 8)
       IN  alloc(workers, kPoolBytes, 64)

Spans(a, s) ==
  LET decoded == IF shape_has_backbone(s)
                 THEN alloc_array(a, s.n_layers * s.d_inner * (s.d_conv + s.d_state)) ELSE a
  IN  IF has_flow(s) THEN alloc_array(decoded, sampler_workspace_size(s)) ELSE decoded

Constructed(s, base, threads) ==
  LET empty == [cursor |-> base, end |-> base + required_slab_bytes(s), failed |-> FALSE]
      parts == FlowHead(Transformer(SmolVLAActionExpert(Mamba(empty, s), s), s), s)
  IN  Spans(PoolMemory(parts, threads), s)

\* std::vector<std::byte> aligns the slab to 16 bytes.
ArenaInit ==
  \E s \in Shapes, base \in {0, 16, 48}, threads \in {0, 1, kMaxPoolThreads} :
    /\ shape = s
    /\ arena = Constructed(s, base, threads)
    /\ level = arena.cursor
    /\ last = [op |-> "construct", length |-> 0, ok |-> ~arena.failed]

\* A runtime whose construction failed is refused by open.  After a failing call
\* the engine goes on where the parts test their buffers; Mamba's layers and the
\* flow head would have written through a null pointer.
GoesOn ==
  last.ok \/ (last.op # "construct" /\ ~shape_has_backbone(shape) /\ ~has_flow(shape))

Called(op, length, after) ==
  /\ GoesOn
  /\ last' = [op |-> op, length |-> length, ok |-> ~after.failed]
  /\ arena' = [after EXCEPT !.failed = FALSE]
  /\ UNCHANGED <<shape, level>>

prefix_limit(s) == IF has_transformer(s) THEN s.prefix ELSE k_max_decode_seq

\* A token outside the vocabulary ends Mamba's prefill after its first buffer.
run_backbone(a, s, l, in_range) ==
  IF has_transformer(s) THEN forward_tokens(a, s, l)
  ELSE LET input == alloc_array(a, l * s.d_model)
       IN  IF input.failed \/ ~in_range THEN input ELSE forward(input, s, l)

run(l, in_range) ==
  /\ shape_has_backbone(shape) \/ has_transformer(shape)
  /\ l <= prefix_limit(shape)
  /\ Called("run", l, reset_to(run_backbone(arena, shape, l, in_range), arena.cursor))

step ==
  /\ shape_has_backbone(shape) \/ has_transformer(shape)
  /\ \E position \in {0, shape.prefix - 1} :
       IF has_transformer(shape)
       THEN Called("step", 1, decode_embedding(arena, shape, position))
       ELSE Called("step", 1, reset_to(decode(alloc_array(arena, shape.d_model), shape),
                                       arena.cursor))

run_embeddings_masked(l) ==
  /\ has_transformer(shape) /\ l <= shape.prefix
  /\ Called("run_embeddings", l, forward_tokens(arena, shape, l))

sample(l, in_range) ==
  /\ has_flow(shape)
  /\ shape_has_backbone(shape) \/ has_transformer(shape)
  /\ l <= prefix_limit(shape)
  /\ LET width == IF has_transformer(shape) THEN shape.model ELSE shape.d_model
         hidden == alloc_array(arena, l * width)
         ran == run_backbone(hidden, shape, l, in_range)
     IN  Called("sample", l,
                IF hidden.failed THEN hidden
                ELSE reset_to(IF in_range THEN velocity(ran, shape) ELSE ran, arena.cursor))

flow_advance ==
  /\ has_flow(shape)
  /\ Called("flow_advance", 1, velocity(arena, shape))

smolvla_embed_suffix(chunk) ==
  /\ has_smolvla(shape) /\ chunk <= 512
  /\ Called("smolvla_embed_suffix", chunk, embed_suffix(arena, shape, chunk))

smolvla_run_expert(chunk, prefix) ==
  /\ has_smolvla(shape) /\ chunk <= 512 /\ prefix <= 512
  /\ Called("smolvla_run_expert", chunk, run_with_prefix_kv(arena, shape, chunk, prefix))

smolvla_denoise(chunk, prefix) ==
  /\ has_smolvla(shape) /\ chunk <= 512 /\ prefix <= 512
  /\ Called("smolvla_denoise", chunk, denoise_with_prefix_kv(arena, shape, chunk, prefix))

smolvla_sample(chunk, prefix) ==
  /\ has_smolvla(shape) /\ chunk <= 512 /\ prefix <= 512
  /\ Called("smolvla_sample", chunk, sample_euler_with_prefix_kv(arena, shape, chunk, prefix))

ArenaNext ==
  \/ step
  \/ flow_advance
  \/ \E l \in Lengths :
       \/ \E in_range \in BOOLEAN : run(l, in_range)
       \/ \E in_range \in BOOLEAN : sample(l, in_range)
       \/ run_embeddings_masked(l)
       \/ smolvla_embed_suffix(l)
       \/ \E prefix \in Lengths : smolvla_run_expert(l, prefix)
       \/ \E prefix \in Lengths : smolvla_denoise(l, prefix)
       \/ \E prefix \in Lengths : smolvla_sample(l, prefix)

(***************************************************************************)
(* Properties.                                                             *)
(***************************************************************************)

\* The shapes the formula is right for.  Mamba's per-token allowance leaves room
\* for dt_rank up to four times d_inner; the padding of the key and value caches has
\* to fit the 4096 spare bytes, less one cache line for each of the fourteen other
\* arrays; sixteen rows of the expert's width have to hold its pinned widths.
Covered(s) ==
  /\ shape_has_backbone(s) => s.dt_rank <= 4 * s.d_inner
  /\ has_transformer(s) =>
       LET row == s.prefix * s.model * FloatBytes
       IN  2 * s.layers * (Up(row, SlabAlign) - row) <= 4096 - 14 * SlabAlign
  /\ has_smolvla(s) =>
       2 * (attention_width + key_value_width + mlp_width) + s.expert_action + 2 <= 11 * s.expert_width

\* No allocation of the constructor or of an inference call fails, whatever the
\* number of workers and the length, for the shapes required_slab_bytes covers:
\* its total is enough for the buffers Mamba's layers and FlowHead::velocity take
\* without looking at the result.  A sample conditioned on a Transformer's tokens is
\* left out: the formula has no room for its hidden states (TokenSamplingFits).
SlabSuffices ==
  Covered(shape) /\ ~(last.op = "sample" /\ has_transformer(shape)) => last.ok

\* Whatever a call allocated and however it ended (a token outside the
\* vocabulary and an exhausted arena included), the cursor is back where the
\* constructor left it, so that no sequence of calls can use the slab up.
CursorRestored == arena.cursor = level

\* What docs/api/c-abi.md says of the token-conditioned calls: a sample of 1 to
\* 512 tokens within the model's prefix is accepted.
TokenSamplingFits == last.op = "sample" /\ last.length \in 1..512 => last.ok

\* The slab lasts: no allocation fails where the formula covers the shape, and
\* every call, failed or not, gives back what it took.
SlabLasts == SlabSuffices /\ CursorRestored
=============================================================================
