--------------------------- MODULE MCEngineArena ---------------------------
(***************************************************************************)
(* Shapes on both sides of Covered: checkpoints the loader accepts and the *)
(* slab is too small for are among them.                                   *)
(***************************************************************************)
EXTENDS EngineArena

NoParts == [d_model |-> 0, d_inner |-> 0, d_state |-> 0, d_conv |-> 0, dt_rank |-> 0,
            n_layers |-> 0, model |-> 0, layers |-> 0, prefix |-> 0, mlp |-> 0,
            hidden |-> 0, action |-> 0, time |-> 0,
            expert_width |-> 0, expert_action |-> 0, expert_layers |-> 0]

MambaShapes ==
  {[NoParts EXCEPT !.d_model = dm, !.d_inner = di, !.d_state = ds, !.d_conv = dc,
                   !.dt_rank = dr, !.n_layers = n, !.hidden = h, !.action = ac, !.time = 2 * h] :
     dm \in {1, 24}, di \in {1, 40}, ds \in {1, 16}, dc \in {1, 4}, dr \in {1, 4, 160, 5000},
     n \in {1, 64}, h \in {0, 17}, ac \in {7}}

TransformerShapes ==
  {[NoParts EXCEPT !.model = m, !.layers = n, !.prefix = p, !.mlp = w] :
     m \in {16, 48}, n \in {1, 48}, p \in {1, 600}, w \in {1, 192}}
  \cup {[NoParts EXCEPT !.model = 3, !.layers = 12, !.prefix = 5, !.mlp = 1]}
  \cup {[NoParts EXCEPT !.model = 1, !.layers = n, !.prefix = 1, !.mlp = 1] : n \in {26, 48}}

FlowShapes ==
  {[NoParts EXCEPT !.hidden = h, !.action = ac, !.time = t] :
     h \in {1, 33, 256}, ac \in {1, 14}, t \in {2, 64}}

SmolShapes ==
  {[NoParts EXCEPT !.expert_width = w, !.expert_action = ac, !.expert_layers = n] :
     w \in {64, 610, 960}, ac \in {32}, n \in {1, 48}}

\* A Transformer with a flow head conditioned on its last hidden state.
TransformerFlowShapes ==
  {[NoParts EXCEPT !.model = 64, !.layers = 2, !.prefix = 512, !.mlp = 256,
                   !.hidden = 64, !.action = 7, !.time = 32]}

TriedShapes ==
  MambaShapes \cup TransformerShapes \cup FlowShapes \cup SmolShapes \cup TransformerFlowShapes

ArenaSpec == ArenaInit /\ [][ArenaNext]_arena_vars
=============================================================================
