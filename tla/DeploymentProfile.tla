------------------------- MODULE DeploymentProfile -------------------------
(***************************************************************************)
(* The deployment profile a checkpoint may carry                           *)
(* (core/protocol/deployment_profile.cc): what field() finds of a JSON     *)
(* text, parse_deployment_profile, validate_deployment_profile and         *)
(* serialize_deployment_profile.                                           *)
(*                                                                         *)
(* A text is a record of what field() returns for each key.  A number is   *)
(* Absent, NotANumber (an empty value, trailing characters, more than 64   *)
(* bits) or its value; a name is "absent", "unquoted" or its text; an      *)
(* array of floats is a sequence in which NotANumber is an item that does  *)
(* not parse as a finite float, and the array without its brackets is      *)
(* <<NotANumber>>.  "%.9g" gives a float back exactly, so a printed float  *)
(* is its value.  quoted is the set of keys of numbers and arrays written  *)
(* between quotes: field() strips the quotes, and parse asks for them only *)
(* of names.  normalization_parameters is "absent", "unquoted" (an empty   *)
(* value), "object" (an object of the limits the text has and no more) or  *)
(* "more" (any other value, say one with a mean).                          *)
(***************************************************************************)
EXTENDS Integers, Sequences, FiniteSetsExt

Absent == -2
NotANumber == -1

kVersion == 1
kCompatibilityVersion == 1
kMaxActionDim == 65536
kMaxActionHorizon == 4096
kMaxSolverSteps == 4096
kMaxU32 == 100000                \* stands for 2^32 - 1

NoArray == [present |-> FALSE, items |-> <<>>]
Array(items) == [present |-> TRUE, items |-> items]

NoProfile == [profile_version |-> 0, model_compatibility_version |-> 0,
              observation_schema_hash |-> "", action_dim |-> 0, action_horizon |-> 0,
              action_units |-> "", normalization_type |-> "",
              normalization_min |-> <<>>, normalization_max |-> <<>>,
              solver_default |-> "", solver_min_steps |-> 0, solver_max_steps |-> 0]

\* The code's early returns: the first check that is true names the error.
FirstError(checks) ==
  LET failing == {i \in DOMAIN checks : checks[i][1]}
  IN  IF failing = {} THEN "ok" ELSE checks[Min(failing)][2]

\* "hash" stands for every text of sha256: and 64 hexadecimal digits.
valid_hash(text) == text = "hash"

Increasing(min, max, n) ==
  /\ Len(min) = n /\ Len(max) = n
  /\ \A i \in 1..n : min[i] < max[i]

SolverRange(p) ==
  /\ p.solver_min_steps # 0 /\ p.solver_max_steps # 0
  /\ p.solver_min_steps <= p.solver_max_steps
  /\ p.solver_max_steps <= kMaxSolverSteps

validate_deployment_profile(p) ==
  FirstError(<<
    <<p.profile_version # kVersion, "profile version">>,
    <<p.model_compatibility_version # kCompatibilityVersion, "compatibility version">>,
    <<~valid_hash(p.observation_schema_hash), "hash">>,
    <<p.action_dim = 0 \/ p.action_dim > kMaxActionDim, "action dim">>,
    <<p.action_horizon = 0 \/ p.action_horizon > kMaxActionHorizon, "action horizon">>,
    <<p.action_units \notin {"normalized", "physical"}, "action units">>,
    <<p.normalization_type \notin {"none", "minmax"}, "normalization type">>,
    <<IF p.normalization_type = "none"
      THEN p.normalization_min # <<>> \/ p.normalization_max # <<>>
      ELSE ~Increasing(p.normalization_min, p.normalization_max, p.action_dim),
      "normalization parameters">>,
    <<p.solver_default \notin {"euler", "heun", "rk4"}, "solver default">>,
    <<~SolverRange(p), "solver range">> >>)

parse_float_array(array) == array.present /\ \A i \in 1..Len(array.items) : array.items[i] # NotANumber

FieldsPresent(t) ==
  /\ \A n \in {t.profile_version, t.model_compatibility_version, t.action_dim, t.action_horizon,
               t.solver_min_steps, t.solver_max_steps} : n # Absent
  /\ \A s \in {t.observation_schema_hash, t.action_units, t.normalization_type,
               t.normalization_parameters, t.solver_default} : s # "absent"

\* The keys min and max are looked for in the parameters, and nothing else is.
ParametersParse(t) ==
  IF t.normalization_type = "minmax"
  THEN parse_float_array(t.min) /\ parse_float_array(t.max)
  ELSE ~t.min.present /\ ~t.max.present

Parsed(t) ==
  [profile_version |-> t.profile_version,
   model_compatibility_version |-> t.model_compatibility_version,
   observation_schema_hash |-> t.observation_schema_hash,
   action_dim |-> t.action_dim, action_horizon |-> t.action_horizon,
   action_units |-> t.action_units, normalization_type |-> t.normalization_type,
   normalization_min |-> t.min.items, normalization_max |-> t.max.items,
   solver_default |-> t.solver_default,
   solver_min_steps |-> t.solver_min_steps, solver_max_steps |-> t.solver_max_steps]

parse_deployment_profile(t) ==
  LET refused == FirstError(<<
        <<~t.braces, "json">>,
        <<~FieldsPresent(t), "missing">>,
        <<t.profile_version \notin 0..kMaxU32, "field">>,
        <<t.model_compatibility_version \notin 0..kMaxU32, "field">>,
        <<~valid_hash(t.observation_schema_hash), "hash">>,
        <<t.action_dim = NotANumber, "action dim">>,
        <<t.action_horizon = NotANumber, "action horizon">>,
        <<t.action_units \notin {"normalized", "physical"}, "action units">>,
        <<t.normalization_type \notin {"none", "minmax"}, "normalization type">>,
        <<t.normalization_parameters = "unquoted" \/ ~ParametersParse(t),
          "normalization parameters">>,
        <<t.solver_default \notin {"euler", "heun", "rk4"}, "solver default">>,
        <<NotANumber \in {t.solver_min_steps, t.solver_max_steps}, "solver range">> >>)
      error == IF refused = "ok" THEN validate_deployment_profile(Parsed(t)) ELSE refused
  IN  [error |-> error, profile |-> IF error = "ok" THEN Parsed(t) ELSE NoProfile]

NormalizationText(p, items) == IF p.normalization_type = "minmax" THEN Array(items) ELSE NoArray

\* The text of a profile that validates.
serialize_deployment_profile(p) ==
  [braces |-> TRUE, quoted |-> {},
   profile_version |-> p.profile_version,
   model_compatibility_version |-> p.model_compatibility_version,
   observation_schema_hash |-> p.observation_schema_hash,
   action_dim |-> p.action_dim, action_horizon |-> p.action_horizon,
   action_units |-> p.action_units, normalization_type |-> p.normalization_type,
   normalization_parameters |-> "object",
   min |-> NormalizationText(p, p.normalization_min),
   max |-> NormalizationText(p, p.normalization_max),
   solver_default |-> p.solver_default,
   solver_min_steps |-> p.solver_min_steps, solver_max_steps |-> p.solver_max_steps]
=============================================================================
