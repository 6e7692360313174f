--------------------------- MODULE MCModelWeights ---------------------------
(***************************************************************************)
(* Checkpoints with up to three entries, and profile texts that differ     *)
(* from a valid one in up to two fields.                                   *)
(***************************************************************************)
EXTENDS ModelWeights

Entry(name, dtype, shape, offsets, form) ==
  [name |-> name, dtype |-> dtype, shape |-> shape, offsets |-> offsets, form |-> form]

Good == {Entry("a", "F32", <<1>>, <<0, 4>>, "object"), Entry("b", "BF16", <<3>>, <<0, 6>>, "object"),
         Entry("c", "BF16", <<1, 1>>, <<6, 8>>, "object"), Entry("d", "F32", <<0, 70>>, <<4, 4>>, "object"),
         Entry("e", "F32", <<1>>, <<4, 8>>, "object"), Entry("f", "I64", <<1>>, <<0, 8>>, "object"),
         Entry("g", "F32", <<1, 1>>, <<2, 6>>, "object")}

Odd == {Entry("h", "F32", <<2>>, <<0, 4>>, "object"),             \* fewer bytes than the shape
        Entry("i", "F32", <<8, 8>>, <<0, 0>>, "object"),          \* a product past 64 bits
        Entry("j", "F32", <<0, 64>>, <<4, 4>>, "object"),         \* a number past 64 bits
        Entry("k", "F32", <<1>>, <<4, 0>>, "object"),             \* reversed
        Entry("l", "F32", <<1>>, <<0>>, "object"),                \* one offset
        Entry("m", "F32", <<1, 1, 1, 1, 1>>, <<0, 4>>, "object"), \* five dimensions
        Entry("n", "F32", <<1>>, <<8, 12>>, "object"),            \* past the data
        Entry("o", "F32", <<1>>, <<0, 4>>, "unclosed"), Entry("p", "I64", <<>>, <<>>, "none"),
        Entry("__metadata__", "F32", <<>>, <<>>, "object")}

Base == [braces |-> TRUE, quoted |-> {}, profile_version |-> 1, model_compatibility_version |-> 1,
         observation_schema_hash |-> "hash", action_dim |-> 2, action_horizon |-> 4096,
         action_units |-> "normalized", normalization_type |-> "minmax",
         normalization_parameters |-> "object", min |-> Array(<<0, 1>>), max |-> Array(<<1, 2>>),
         solver_default |-> "euler", solver_min_steps |-> 4, solver_max_steps |-> 4096]

Plain == [Base EXCEPT !.normalization_type = "none", !.min = NoArray, !.max = NoArray]

Counts == {Absent, NotANumber, 0, 3, 4097, 65537, 100001}

Alternatives(key) ==
  CASE key = "braces" -> BOOLEAN
    [] key = "quoted" -> {{"profile_version"}, {"action_dim", "solver_max_steps"}, {"min", "max"}}
    [] key \in {"profile_version", "model_compatibility_version", "action_dim", "action_horizon",
                "solver_min_steps", "solver_max_steps"} -> Counts
    [] key = "observation_schema_hash" -> {"absent", "unquoted", "other", "hash"}
    [] key = "action_units" -> {"absent", "unquoted", "physical", "metres"}
    [] key = "normalization_type" -> {"absent", "none", "minmax", "zscore"}
    [] key = "normalization_parameters" -> {"absent", "unquoted", "more"}
    [] key \in {"min", "max"} -> {NoArray} \cup {Array(a) : a \in {<<>>, <<0>>, <<1, 1>>, <<2, 2>>, <<NotANumber, 1>>}}
    [] key = "solver_default" -> {"absent", "unquoted", "heun", "rk4", "dpm"}

\* Limits are found in parameters only, and a key that is absent is not quoted.
Writable(t) ==
  /\ t.min.present \/ t.max.present => t.normalization_parameters \in {"object", "more"}
  /\ {"min", "max"} \subseteq t.quoted => t.min.present /\ t.max.present
  /\ \A key \in t.quoted \ {"min", "max"} : t[key] # Absent

TriedTexts ==
  {t \in UNION {UNION {{[t EXCEPT ![pair[1]] = v, ![pair[2]] = w] :
                   v \in Alternatives(pair[1]), w \in Alternatives(pair[2])} :
                  pair \in (DOMAIN Base) \X (DOMAIN Base)} :
           t \in {Base, Plain}} : Writable(t)}

File(size, header_len, entries, closed, metadata, profile) ==
  [present |-> TRUE, size |-> size, header_len |-> header_len, entries |-> entries,
   closed |-> closed, metadata |-> metadata, profile |-> profile]

Whole(entries) == File(26, 10, entries, TRUE, "absent", Base)

TriedFiles ==
  {Whole(<<e>>) : e \in Good \cup Odd}
    \cup {Whole(<<e, f>>) : e \in Good, f \in Good}
    \cup {Whole(<<e, f>>) : e \in {x \in Good : x.name \in {"a", "f"}}, f \in Odd}
    \cup {Whole(<<e, f, g>>) : e \in {x \in Good : x.name = "f"}, f \in {x \in Good : x.name \in {"a", "b"}},
                               g \in Good}
    \cup {Whole(<<e, f, g>>) : e \in {x \in Good : x.name = "a"}, f \in {x \in Good : x.name = "e"},
                               g \in {x \in Good : x.name = "d"}}
    \cup {[Whole(<<e>>) EXCEPT !.closed = FALSE, !.metadata = m] :
            e \in {x \in Good : x.name = "a"}, m \in {"absent", "invalid"}}
    \cup {[Whole(<<e>>) EXCEPT !.metadata = "text", !.profile = p] :
            e \in {x \in Good : x.name = "a"}, p \in {Base, Plain, [Base EXCEPT !.action_dim = 3]}}
    \cup {[Whole(<<>>) EXCEPT !.size = size] : size \in {7, 17, 18}}
    \cup {[Whole(<<>>) EXCEPT !.present = FALSE]}

\* The texts are parsed on their own, the files with the whole of open.
LoadInit ==
  /\ \/ text = Base /\ file \in Files
     \/ text \in Texts /\ file = Whole(<<>>)
  /\ open = Opening /\ sized = file
=============================================================================
