----------------------------- MODULE CommandLine ----------------------------
(***************************************************************************)
(* parse_options of flowedge-jobd, flowedge-relayd, flowedge-jobctl,       *)
(* flowedge-relayctl and flowedge-relay-trace.  The five share one shape:  *)
(* a command for the three clients, then arguments taken in turn, each     *)
(* checked as it is read, then checks on the whole.  A value is a text or, *)
(* when std::from_chars reads all of it, a number; number = -1 means that  *)
(* it is not one.                                                          *)
(***************************************************************************)
EXTENDS Integers, FiniteSets

CONSTANTS IntMax,           \* the largest unsigned integer; kAllJobWorkers
          Day,              \* 86'400'000 milliseconds
          MaxTokens,        \* tokens that fit a job's payload
          Millisecond,      \* 1'000'000 nanoseconds
          SentAt,           \* monotonic_ns() when the client sends
          Arguments         \* the arguments tried: records [program, flag, value]

VARIABLES program, command, \* the program, and the client command
          options,          \* the value of every option
          outcome           \* "parsing", "help", "error" or "accepted"

cliVars == <<program, command, options, outcome>>

Text(t) == [text |-> t, number |-> -1]
Number(n) == [text |-> "digits", number |-> n]

\* parse_number: the value, when the whole text is a number of the type.
parse_number(value) == value.number

-----------------------------------------------------------------------------
\* Defaults (struct Options) and the numbers each numeric option takes.
JobdDefaults ==
  [model |-> Text(""), shm |-> Text("ring"), trace |-> Text(""), capacity |-> Number(32),
   control_capacity |-> Number(8), workers |-> Number(1), threads |-> Number(0),
   placement |-> Text("none"), max_tokens |-> Number(512), max_sessions |-> Number(64),
   work_quantum |-> Number(1), event_capacity |-> Number(1024),
   interactive_reserve |-> Number(2), critical_reserve |-> Number(1),
   failure_threshold |-> Number(3), streaming_unit_ns |-> Number(0),
   admission_reserve_ns |-> Number(0), metrics |-> Text(""), metrics_interval_ms |-> Number(0),
   create |-> Text("no")]

RelaydDefaults ==
  [model |-> Text(""), shm |-> Text("ring"), trace |-> Text(""), capacity |-> Number(32),
   workers |-> Number(1), threads |-> Text("unset"), placement |-> Text("none"),
   nfe_ns |-> Number(0), admission_reserve_ns |-> Number(0), metrics |-> Text(""),
   metrics_interval_ms |-> Number(0), create |-> Text("no")]

JobctlDefaults ==
  [model |-> Text(""), shm |-> Text("ring"), tokens |-> Number(4), class |-> Text("best-effort"),
   sequence |-> Number(1), session |-> Number(1), generation |-> Number(1),
   deadline_ms |-> Number(1000), timeout_ms |-> Number(5000), worker |-> Number(IntMax)]

RelayctlDefaults ==
  [model |-> Text(""), shm |-> Text("ring"), sequence |-> Number(1), session |-> Number(1),
   generation |-> Number(1), steps |-> Number(6), deadline_ms |-> Number(1000),
   timeout_ms |-> Number(5000), condition_value |-> Number(0), noise_value |-> Number(0),
   threads |-> Number(0), solver |-> Text("heun")]

TraceDefaults ==
  [model |-> Text(""), threads |-> Number(0), tolerance |-> Number(1), jsonl |-> Text("no")]

Defaults(p) == CASE p = "jobd" -> JobdDefaults [] p = "relayd" -> RelaydDefaults
                 [] p = "jobctl" -> JobctlDefaults [] p = "relayctl" -> RelayctlDefaults
                 [] p = "trace" -> TraceDefaults

JobctlCommands == {"mamba", "status", "drain", "resume", "recover", "shutdown"}
RelayctlCommands == {"request", "shutdown"}
TraceCommands == {"inspect", "replay"}

CommandNames(p) == CASE p = "jobctl" -> JobctlCommands [] p = "relayctl" -> RelayctlCommands
                 [] p = "trace" -> TraceCommands [] OTHER -> {"none"}

Switches == {"create", "jsonl"}

-----------------------------------------------------------------------------
(* Whether the value of one argument is taken, program by program.         *)

InRange(value, low, high) == parse_number(value) \in low..high
parse_worker_placement(value) == value.text \in {"none", "compact", "spread"}
parse_service_class(value) == value.text \in {"best-effort", "interactive", "critical"}

Texts == {"model", "shm", "trace", "metrics"} \cup Switches
Otherwise(flag, value) == flag \in Texts \/ InRange(value, 0, IntMax)

JobdTakes(flag, value) ==
  CASE flag = "workers" -> InRange(value, 1, 8)
    [] flag = "threads" -> InRange(value, 0, 8)
    [] flag = "placement" -> parse_worker_placement(value)
    [] flag \in {"max_tokens", "max_sessions", "work_quantum", "event_capacity"} ->
         InRange(value, 1, IntMax)
    [] flag = "metrics_interval_ms" -> InRange(value, 0, Day)
    [] OTHER -> Otherwise(flag, value)

RelaydTakes(flag, value) ==
  CASE flag = "workers" -> InRange(value, 1, 8)
    [] flag = "threads" -> InRange(value, 0, 8)
    [] flag = "placement" -> parse_worker_placement(value)
    [] flag = "metrics_interval_ms" -> InRange(value, 0, Day)
    [] OTHER -> Otherwise(flag, value)

\* --tokens is its number of tokens; a list with a part that is no number is not one.
parse_tokens(value) == InRange(value, 1, MaxTokens)

JobctlTakes(flag, value) ==
  CASE flag = "tokens" -> parse_tokens(value)
    [] flag = "class" -> parse_service_class(value)
    [] flag = "timeout_ms" -> InRange(value, 1, IntMax)
    [] OTHER -> Otherwise(flag, value)

RelayctlTakes(flag, value) ==
  CASE flag \in {"steps", "timeout_ms"} -> InRange(value, 1, IntMax)
    [] flag = "threads" -> InRange(value, 0, 8)
    [] flag = "solver" -> value.text \in {"euler", "heun", "rk4"}
    [] OTHER -> Otherwise(flag, value)

TraceTakes(flag, value) ==
  IF flag = "threads" THEN InRange(value, 0, 8) ELSE Otherwise(flag, value)

Takes(flag, value) ==
  CASE program = "jobd" -> JobdTakes(flag, value) [] program = "relayd" -> RelaydTakes(flag, value)
    [] program = "jobctl" -> JobctlTakes(flag, value) [] program = "trace" -> TraceTakes(flag, value)
    [] OTHER -> RelayctlTakes(flag, value)

-----------------------------------------------------------------------------
\* A client's first argument is its command.
CliInit ==
  /\ program \in {"jobd", "relayd", "jobctl", "relayctl", "trace"}
  /\ command \in CommandNames(program)
                \cup (IF "none" \in CommandNames(program) THEN {} ELSE {"unknown", "help"})
  /\ options = Defaults(program)
  /\ outcome = CASE command = "unknown" -> "error" [] command = "help" -> "help"
                 [] OTHER -> "parsing"

\* One argument and its value.
Argument(a) ==
  /\ outcome = "parsing" /\ a.program = program
  /\ \/ /\ a.flag = "help"
        /\ outcome' = "help" /\ UNCHANGED options
     \/ /\ a.flag # "help" /\ a.flag \in DOMAIN options /\ Takes(a.flag, a.value)
        /\ options' = [options EXCEPT ![a.flag] = a.value]
        /\ UNCHANGED outcome
     \/ /\ a.flag # "help" /\ ~(a.flag \in DOMAIN options /\ Takes(a.flag, a.value))
        /\ outcome' = "error" /\ UNCHANGED options
  /\ UNCHANGED <<program, command>>

\* The last argument has no value after it.
MissingValue == /\ outcome = "parsing" /\ outcome' = "error"
                /\ UNCHANGED <<program, command, options>>

N(flag) == options[flag].number

Unsigned(n) == n % (IntMax + 1)

\* Mutation: the reserves are added before they are compared.
ReservesSummed == Unsigned(N("interactive_reserve") + N("critical_reserve")) < N("capacity")

\* The last check of jobd: the differences are unsigned, so that each is taken
\* only when it cannot wrap.
ReservesLeaveASlot ==
  /\ N("interactive_reserve") < N("capacity") /\ N("critical_reserve") < N("capacity")
  /\ N("interactive_reserve") <= N("capacity") - 1 - N("critical_reserve")

NeedsWorker == command \in {"drain", "resume", "recover"}

(* The checks on the whole.                                                *)

JobdComplete == /\ options.model.text # "" /\ options.shm.text # ""
                /\ N("max_tokens") <= MaxTokens /\ ReservesLeaveASlot
RelaydComplete == options.model.text # "" /\ options.shm.text # ""
JobctlComplete == /\ command = "mamba" => options.model.text # ""
                  /\ NeedsWorker => N("worker") # IntMax
                  /\ options.shm.text # ""
RelayctlComplete == options.shm.text # "" /\ (command = "request" => options.model.text # "")
TraceComplete == /\ command = "replay" => options.model.text # ""
                 /\ command # "inspect" => options.jsonl.text = "no"

Complete ==
  CASE program = "jobd" -> JobdComplete [] program = "relayd" -> RelaydComplete
    [] program = "jobctl" -> JobctlComplete [] program = "trace" -> TraceComplete
    [] OTHER -> RelayctlComplete

Finish == /\ outcome = "parsing"
          /\ outcome' = IF Complete THEN "accepted" ELSE "error"
          /\ UNCHANGED <<program, command, options>>

CliNext == (\E a \in Arguments : Argument(a)) \/ MissingValue \/ Finish

-----------------------------------------------------------------------------
(* What the options come to.                                               *)

\* The queue slots the pool keeps from a class.
reserved_slots(class) ==
  CASE class = "best-effort" -> Unsigned(N("interactive_reserve") + N("critical_reserve"))
    [] class = "interactive" -> N("critical_reserve")
    [] class = "critical" -> 0

\* Mutation: the clock is not counted.
DeadlineOverflowsAlone == N("deadline_ms") > IntMax \div Millisecond

\* send_mamba gives up when the deadline does not fit.
DeadlineOverflows == N("deadline_ms") > (IntMax - SentAt) \div Millisecond

\* The deadline that a client puts into its message; 0 is none.
Deadline == IF N("deadline_ms") = 0 THEN 0
            ELSE Unsigned(SentAt + Unsigned(N("deadline_ms") * Millisecond))

-----------------------------------------------------------------------------
\* Capacity and reserves come in any order and of any size up to the limit of the
\* type.  Whatever flowedge-jobd accepts, JobWorkerPool's admission, which adds
\* the reserves, takes a job of each class into an empty queue, and keeps from a
\* class at least what it keeps from a higher one.
ReservesUsable ==
  (program = "jobd" /\ outcome = "accepted") =>
    /\ N("capacity") > reserved_slots("best-effort")
    /\ reserved_slots("best-effort") >= reserved_slots("interactive")

\* A job that flowedge-jobctl sends has the deadline asked for, on the clock of the
\* daemon, and not one that wrapped round.
DeadlineAsked ==
  (program = "jobctl" /\ outcome = "accepted" /\ command = "mamba" /\ ~DeadlineOverflows) =>
    Deadline = IF N("deadline_ms") = 0 THEN 0 ELSE SentAt + N("deadline_ms") * Millisecond

\* What the daemons and clients make of accepted options is what was asked for.
OptionsKept == ReservesUsable /\ DeadlineAsked
=============================================================================
