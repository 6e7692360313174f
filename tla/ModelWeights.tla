---------------------------- MODULE ModelWeights ----------------------------
(***************************************************************************)
(* Loading a checkpoint: ModelWeights::open (core/loader/safetensors.cc).  *)
(* The file is mapped and its header walked three times, for the metadata, *)
(* for the size of the storage and for the tensors, and a fourth time by   *)
(* flowedge-inspect.  Nothing holds the file between two passes, so        *)
(* another process may replace it there.                                   *)
(*                                                                         *)
(* A file is its size, the length its first eight bytes state, the entries *)
(* of its header in order, whether the header's object is closed, and its  *)
(* metadata value.  An entry is what foreach_tensor cuts out: a name, a    *)
(* dtype, the numbers of "shape" and of "data_offsets", and its form       *)
(* ("object", "unclosed", or "none" where a brace closes the header before *)
(* the entry's object opens).  kMax stands for 2^64 - 1, which size_t and  *)
(* uint64_t share.                                                         *)
(***************************************************************************)
EXTENDS DeploymentProfile, SequencesExt

CONSTANTS Files,          \* what the path may hold
          Texts,          \* profile texts parsed on their own
          kMax,           \* the largest 64-bit number
          kMaxTensors,    \* tensors and spans a checkpoint may have
          kSimdAlign      \* alignment of a tensor in the storage

VARIABLES file,           \* what the path holds now
          text,           \* a profile text
          open,           \* ModelWeights::open: how far it is, and what it has
          sized           \* ghost: the file that was sized

weights_vars == <<file, text, open, sized>>

(***************************************************************************)
(* The header.                                                             *)
(***************************************************************************)
header_json(f) == f.present /\ f.size >= 8 /\ f.header_len <= f.size - 8

DataSize(f) == f.size - 8 - f.header_len

parse_u64s(numbers) == \A i \in DOMAIN numbers : numbers[i] <= kMax

supported(e) == e.dtype \in {"F32", "BF16"}

\* foreach_tensor gives up at this entry.
Malformed(e) ==
  \/ e.form # "object"
  \/ /\ e.name # "__metadata__" /\ supported(e)
     /\ \/ ~parse_u64s(e.shape) \/ Len(e.shape) > 4
        \/ ~parse_u64s(e.offsets) \/ Len(e.offsets) # 2
        \/ e.offsets[2] < e.offsets[1]

\* The entries given to the callback, and whether the walk reaches the end.
Visited(f) ==
  LET bad == {i \in DOMAIN f.entries : Malformed(f.entries[i])}
      stop == IF bad = {} THEN Len(f.entries) ELSE Min(bad) - 1
  IN  SelectSeq(SubSeq(f.entries, 1, stop), LAMBDA e : e.name # "__metadata__")

Walked(f) == f.closed /\ \A i \in DOMAIN f.entries : ~Malformed(f.entries[i])

ByteLen(e) == e.offsets[2] - e.offsets[1]

\* TensorSpanTracker::add
Disjoint(spans, offset, end) == \A s \in Range(spans) : ~(offset < s[2] /\ s[1] < end)

CanAdd(spans, data_size, e) ==
  /\ e.offsets[1] <= data_size /\ ByteLen(e) <= data_size - e.offsets[1]
  /\ Len(spans) < kMaxTensors
  /\ Disjoint(spans, e.offsets[1], e.offsets[2])

ElementBytes(e) == IF e.dtype = "BF16" THEN 2 ELSE 4

\* The product of the dimensions, or -1 when it leaves 64 bits on the way.
Elements(shape) ==
  FoldLeft(LAMBDA n, d : IF n < 0 \/ (d # 0 /\ n > kMax \div d) THEN -1 ELSE n * d, 1, shape)

valid_tensor_shape(e) ==
  LET n == Elements(e.shape)
  IN  n >= 0 /\ n <= kMax \div ElementBytes(e) /\ n * ElementBytes(e) = ByteLen(e)

(***************************************************************************)
(* The passes.  A walk stops at the first entry its callback refuses.      *)
(***************************************************************************)
Counted(total, spans, data_size, e) ==
  CanAdd(spans, data_size, e) /\ valid_tensor_shape(e) /\ ByteLen(e) <= kMax - total

SizeEntry(state, data_size, e) ==
  IF ~state.ok \/ ~supported(e) THEN state
  ELSE IF ~Counted(state.total, state.spans, data_size, e) THEN [state EXCEPT !.ok = FALSE]
  ELSE [state EXCEPT !.total = @ + ByteLen(e), !.spans = Append(@, e.offsets)]

\* Zero is also the answer for a file without supported tensors.
safetensors_weight_bytes(f) ==
  IF ~header_json(f) THEN 0
  ELSE LET walk == FoldLeft(LAMBDA s, e : SizeEntry(s, DataSize(f), e),
                            [ok |-> TRUE, total |-> 0, spans |-> <<>>], Visited(f))
       IN  IF walk.ok /\ Walked(f) THEN walk.total ELSE 0

Align(n) == kSimdAlign * ((n + kSimdAlign - 1) \div kSimdAlign)

\* Mutation for SizedIsLoaded: the storage has no room for the alignment.
StorageBytesTight(bytes) == bytes

StorageBytes(bytes) == bytes + kMaxTensors * (kSimdAlign - 1)

LoadEntry(state, end, data_size, e) ==
  LET dst == Align(state.cursor)
  IN  IF ~state.ok \/ ~supported(e) THEN state
      ELSE IF \/ Len(state.views) >= kMaxTensors
              \/ ~CanAdd(state.spans, data_size, e) \/ ~valid_tensor_shape(e)
              \/ dst + ByteLen(e) > end
      THEN [state EXCEPT !.ok = FALSE]
      ELSE [state EXCEPT !.cursor = dst + ByteLen(e), !.spans = Append(@, e.offsets),
                         !.views = Append(@, [name |-> e.name, data |-> dst, bytes |-> ByteLen(e),
                                              source |-> e.offsets[1], dtype |-> e.dtype,
                                              shape |-> e.shape])]

\* Into storage of the given size at address base.
load_safetensors(f, base, bytes) ==
  LET walk == FoldLeft(LAMBDA s, e : LoadEntry(s, base + StorageBytes(bytes), DataSize(f), e),
                       [ok |-> TRUE, cursor |-> base, spans |-> <<>>, views |-> <<>>],
                       Visited(f))
  IN  IF header_json(f) THEN [ok |-> walk.ok /\ Walked(f) /\ walk.views # <<>>, views |-> walk.views]
                        ELSE [ok |-> FALSE, views |-> <<>>]

InspectEntry(state, capacity, data_size, e) ==
  IF ~state.ok THEN state
  ELSE IF ~supported(e) THEN [state EXCEPT !.unsupported = @ + 1]
  ELSE IF ~Counted(state.total, state.spans, data_size, e) \/ state.loaded >= capacity
  THEN [state EXCEPT !.ok = FALSE]
  ELSE [state EXCEPT !.loaded = @ + 1, !.total = @ + ByteLen(e), !.spans = Append(@, e.offsets)]

inspect_safetensors(f, capacity) ==
  LET none == [ok |-> TRUE, loaded |-> 0, total |-> 0, unsupported |-> 0, spans |-> <<>>]
      walk == FoldLeft(LAMBDA s, e : InspectEntry(s, capacity, DataSize(f), e), none, Visited(f))
  IN  IF header_json(f) THEN [walk EXCEPT !.ok = @ /\ Walked(f)] ELSE [none EXCEPT !.ok = FALSE]

\* safetensors_metadata_value: absent, not a string that can be unescaped, or a text.
MetadataFails(f) == ~header_json(f) \/ f.metadata = "invalid"

(***************************************************************************)
(* ModelWeights::open, and the process that replaces the file.             *)
(***************************************************************************)
Opening == [at |-> "metadata", profile |-> NoProfile, bytes |-> 0, base |-> 0, views |-> <<>>]

Ended(how) == [open EXCEPT !.at = how]

ReadProfile ==
  /\ open.at = "metadata"
  /\ LET parsed == parse_deployment_profile(file.profile)
     IN  open' = IF MetadataFails(file) THEN Ended("failed")
                 ELSE IF file.metadata = "absent" THEN Ended("size")
                 ELSE IF parsed.error # "ok" THEN Ended("failed")
                 ELSE [Ended("size") EXCEPT !.profile = parsed.profile]
  /\ UNCHANGED <<file, text, sized>>

SizeStorage ==
  /\ open.at = "size"
  /\ LET bytes == safetensors_weight_bytes(file)
     IN  open' = IF bytes = 0 \/ bytes > kMax - kMaxTensors * (kSimdAlign - 1)
                 THEN Ended("failed") ELSE [Ended("load") EXCEPT !.bytes = bytes]
  /\ sized' = file
  /\ UNCHANGED <<file, text>>

\* The allocator may return any address.
Load ==
  /\ open.at = "load"
  /\ \E base \in 0..(kSimdAlign - 1) :
       LET loaded == load_safetensors(file, base, open.bytes)
       IN  open' = IF loaded.ok THEN [Ended("loaded") EXCEPT !.base = base, !.views = loaded.views]
                                ELSE Ended("failed")
  /\ UNCHANGED <<file, text, sized>>

\* Once before each pass: a replacement undone by another is no other case.
Replace ==
  /\ open.at \in {"size", "load"} /\ file = sized
  /\ file' \in Files
  /\ UNCHANGED <<text, open, sized>>

WeightsNext == ReadProfile \/ SizeStorage \/ Load \/ Replace

(***************************************************************************)
(* Properties.                                                             *)
(***************************************************************************)

\* Whatever the path held at each pass, the tensors of a loaded model lie in
\* the storage that was sized, aligned and apart from one another; their bytes
\* come from disjoint ranges of the file and are as many as the shape needs.
ViewsApart ==
  open.at = "loaded" =>
    /\ open.views # <<>> /\ Len(open.views) <= kMaxTensors
    /\ \A i \in DOMAIN open.views :
         LET v == open.views[i]
         IN  /\ v.data % kSimdAlign = 0 /\ v.data >= open.base
             /\ v.data + v.bytes <= open.base + StorageBytes(open.bytes)
             /\ FoldLeft(LAMBDA n, d : n * d, ElementBytes(v), v.shape) = v.bytes
             /\ \A j \in DOMAIN open.views :
                  LET w == open.views[j]
                  IN  i < j => /\ v.data + v.bytes <= w.data
                               /\ \/ v.source + v.bytes <= w.source
                                  \/ w.source + w.bytes <= v.source

\* A file that did not change after it was sized is loaded, tensor by tensor:
\* the sizing pass and the loading pass accept the same headers, the padding
\* covers every alignment, and what flowedge-inspect reports of the file is
\* what the engine then holds.
SizedIsLoaded ==
  open.at \in {"load", "loaded", "failed"} /\ open.bytes > 0 /\ file = sized =>
    LET report == inspect_safetensors(file, kMaxTensors)
    IN  /\ open.at # "failed"
        /\ report.ok /\ report.total = open.bytes
        /\ open.at = "loaded" =>
             /\ report.loaded = Len(open.views)
             /\ FoldLeft(LAMBDA n, v : n + v.bytes, 0, open.views) = open.bytes

\* Loading is safe when the file changes between the passes, and succeeds when it
\* does not.
LoadSound == ViewsApart /\ SizedIsLoaded

\* What docs/architecture/deployment-profile.md (29-38) describes: both versions
\* 1, the documented ranges, a schema hash, one strictly increasing pair of limits
\* for each action dimension of a minmax profile, empty parameters for a none
\* profile, and numbers and arrays that are not strings.
Documented(t) ==
  /\ t.braces /\ FieldsPresent(t) /\ t.quoted = {}
  /\ t.profile_version = 1 /\ t.model_compatibility_version = 1
  /\ t.observation_schema_hash = "hash"
  /\ t.action_dim \in 1..65536 /\ t.action_horizon \in 1..4096
  /\ t.action_units \in {"normalized", "physical"}
  /\ \/ /\ t.normalization_type = "none" /\ t.normalization_parameters = "object"
        /\ ~t.min.present /\ ~t.max.present
     \/ /\ t.normalization_type = "minmax" /\ t.normalization_parameters \in {"object", "more"}
        /\ t.min.present /\ t.max.present
        /\ NotANumber \notin Range(t.min.items) \cup Range(t.max.items)
        /\ {Len(t.min.items), Len(t.max.items)} = {t.action_dim}
        /\ \A i \in 1..t.action_dim : t.min.items[i] < t.max.items[i]
  /\ t.solver_default \in {"euler", "heun", "rk4"}
  /\ t.solver_min_steps \in 1..t.solver_max_steps /\ t.solver_max_steps <= 4096

\* The two liberties parse_deployment_profile takes with its input: a number or an
\* array may stand between quotes, and the parameters may hold more than the
\* limits (a none profile with a mean, which the document rules out).
Forgiven(t) ==
  [t EXCEPT !.quoted = {},
            !.normalization_parameters = IF @ = "more" THEN "object" ELSE @]

\* parse_deployment_profile accepts everything deployment-profile.md describes,
\* and what it accepts beyond that differs from a described profile in those two
\* liberties alone: no wrong version, range, hash or pair of limits gets through
\* with them.
AcceptsContract ==
  LET accepted == parse_deployment_profile(text).error = "ok"
  IN  /\ Documented(text) => accepted
      /\ accepted <=> Documented(Forgiven(text))

\* The text serialize_deployment_profile prints of a profile, whatever liberty the
\* profile was accepted with, is as documented and parses back to that profile.
ProfileRoundTrips ==
  LET parsed == parse_deployment_profile(text)
  IN  parsed.error = "ok" =>
        LET printed == serialize_deployment_profile(parsed.profile)
        IN  Documented(printed) /\ parse_deployment_profile(printed) = parsed
=============================================================================
