--------------------------- MODULE WorkerTopology ---------------------------
(***************************************************************************)
(* Where the worker threads run: each thread finds the CPUs it may use and *)
(* the NUMA node of each from the nodes' CPU lists, sorts them by node and *)
(* binds itself by its index and the placement.                            *)
(***************************************************************************)
EXTENDS Integers, Sequences, FiniteSets, SequencesExt

CONSTANTS Cpus, NumaNodes,  \* the CPUs and the node numbers, from 0
          MaxWorkers

VARIABLES allowed,          \* the thread's affinity mask
          cpulist,          \* node -> the ranges of its CPU list
          placement, bound  \* the bindings of the workers, in the order of their indices

topologyVars == <<allowed, cpulist, placement, bound>>

\* A list such as 0-2,5 is a set of ranges <<first, last>>.
cpu_list_contains(ranges, cpu) == \E r \in ranges : r[1] <= cpu /\ cpu <= r[2]

linux_numa_node(cpu) ==
  LET listing == {n \in NumaNodes : cpu_list_contains(cpulist[n], cpu)}
  IN  IF listing = {} THEN 0 ELSE Min(listing)

Before(a, b) == a.node < b.node \/ (a.node = b.node /\ a.cpu < b.cpu)

discover_topology ==
  SetToSortSeq({[node |-> linux_numa_node(c), cpu |-> c] : c \in allowed}, Before)

\* The nodes of the sorted CPUs, each once and in their order.
NodesOf(topology) == SetToSortSeq({topology[i].node : i \in DOMAIN topology}, <)

Lane(worker, nodes) == worker \div nodes

Target(worker, nodes) == nodes[(worker % Len(nodes)) + 1]

select_cpu(topology, worker, where) ==
  LET nodes == NodesOf(topology)
      target == Target(worker, nodes)
      local == SelectSeq(topology, LAMBDA c : c.node = target)
      lane == Lane(worker, Len(nodes))
  IN  IF where = "compact" THEN topology[(worker % Len(topology)) + 1]
      ELSE IF lane < Len(local) THEN local[lane + 1] ELSE local[1]

\* The next worker thread binds itself; "none" and an empty mask leave it free.
bind_current_worker ==
  /\ Len(bound) < MaxWorkers /\ placement # "none" /\ allowed # {}
  /\ bound' = Append(bound, select_cpu(discover_topology, Len(bound), placement))
  /\ UNCHANGED <<allowed, cpulist, placement>>

TopologyInit ==
  /\ allowed \in SUBSET Cpus /\ placement \in {"none", "compact", "spread"} /\ bound = <<>>
  /\ cpulist \in [NumaNodes -> {{}} \cup {{<<f, l>>} : f, l \in Cpus}]

-----------------------------------------------------------------------------
On(cpu) == {w \in DOMAIN bound : bound[w].cpu = cpu}
OnNode(node) == {w \in DOMAIN bound : bound[w].node = node}

\* Spread workers are balanced: no node of the process has two workers more
\* than another, whatever the nodes' sizes and numbers.
SpreadBalanced ==
  placement = "spread" /\ bound # <<>> =>
    LET topology == discover_topology
        nodes == {topology[i].node : i \in DOMAIN topology}
    IN  \A m, n \in nodes : Cardinality(OnNode(m)) <= Cardinality(OnNode(n)) + 1

\* No CPU has a second worker while the place the worker was meant for has a
\* free one: with compact placement while any CPU of the process is free, with
\* spread placement while a CPU of its node is; workers run on allowed CPUs only.
NoNeedlessSharing ==
  \A w \in DOMAIN bound :
    /\ bound[w].cpu \in allowed
    /\ Cardinality(On(bound[w].cpu)) > 1 =>
         \A c \in allowed : placement = "compact" \/ linux_numa_node(c) = bound[w].node =>
                              On(c) # {}
=============================================================================
