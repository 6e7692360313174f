---------------------------- MODULE RelayStartup ----------------------------
(***************************************************************************)
(* How the daemons and their clients find each other: flowedge-relayd and  *)
(* flowedge-jobd load a model and then create or open their named rings in *)
(* turn; flowedge-relayctl and flowedge-jobctl open a pair of them, trying *)
(* again until a timeout, send one message and wait for the answer.  Any   *)
(* process may crash, which leaves its names behind, and start again.  The *)
(* creation of one ring (SharedMemoryRing) and one turn of a daemon's loop *)
(* (RelayDaemon, JobDaemon) are single steps here.                         *)
(***************************************************************************)
EXTENDS Naturals, Sequences, FiniteSets

CONSTANTS Names,            \* the ring names in the order the daemon takes them; pairs
          Commands,         \* the client process's invocations: [kind, sequence, about], about
                            \* the session of a request or the operation of an order
          SlotBytes,        \* SlotBytes[k]: slot size of the build of a process's k-th life
          NeededBytes,      \* sizeof of the largest message of the client's build
          MaxLives          \* bound: starts of the daemon

Process == {"daemon", "client"}
NoRing == [maker |-> "none", life |-> 0, name |-> 0, slot_bytes |-> 0]

VARIABLES creates,          \* --create: the daemon owns the rings
          named,            \* named[i]: the ring that Names[i] refers to, or NoRing
          box,              \* box[r]: the messages in ring r
          stage,            \* where each process is
          life,             \* how often each process has started
          held,             \* the rings each process holds, [ring, unlink_on_destroy]
          loaded,           \* the lives of the daemon that finished loading
          crashed,          \* processes and lives that died with rings in hand
          reports           \* history: <<invocation, invocation answered>>

startVars == <<creates, named, box, stage, life, held, loaded, crashed, reports>>

Indices == 1..Len(Names)

StartInit ==
  /\ creates \in BOOLEAN
  /\ named = [i \in Indices |-> NoRing] /\ box = [r \in {} |-> <<>>]
  /\ stage = [p \in Process |-> "down"] /\ life = [p \in Process |-> 0]
  /\ held = [p \in Process |-> <<>>]
  /\ loaded = {} /\ crashed = {} /\ reports = {}

Goto(p, where) == stage' = [stage EXCEPT ![p] = where]
Take(p, ring, unlink) == held' = [held EXCEPT ![p] = Append(@, [ring |-> ring, unlink |-> unlink])]

-----------------------------------------------------------------------------
\* Mutation: a start that fails leaves the names of the rings it has created.
UnlinkedNamesServing(p) ==
  IF stage[p] \in {"attaching", "owning"} THEN {}
  ELSE {held[p][k].ring.name : k \in {k \in 1..Len(held[p]) : held[p][k].unlink}}

\* The names that release() unlinks when the process destroys its rings.
UnlinkedNames(p) == {held[p][k].ring.name : k \in {k \in 1..Len(held[p]) : held[p][k].unlink}}

\* The rings are destroyed: on a clean exit and when a later step of the start fails.
Exit(p) ==
  /\ named' = [i \in Indices |-> IF i \in UnlinkedNames(p) THEN NoRing ELSE named[i]]
  /\ held' = [held EXCEPT ![p] = <<>>]
  /\ Goto(p, "down")

\* O_CREAT | O_EXCL.
MayCreate(i) == named[i] = NoRing

\* SharedMemoryRing::create of name i.
Create(p, i) ==
  LET ring == [maker |-> p, life |-> life[p], name |-> i, slot_bytes |-> SlotBytes[life[p]]]
  IN  /\ named' = [named EXCEPT ![i] = ring]
      /\ box' = [r \in DOMAIN box \cup {ring} |-> IF r = ring THEN <<>> ELSE box[r]]
      /\ Take(p, ring, TRUE)

-----------------------------------------------------------------------------
(* The daemons.                                                            *)

StartDaemon ==
  /\ stage["daemon"] = "down" /\ life["daemon"] < MaxLives
  /\ life' = [life EXCEPT !["daemon"] = @ + 1]
  /\ Goto("daemon", "loading")
  /\ UNCHANGED <<named, box, held, loaded, crashed, reports>>

\* The checkpoint is loaded, the pool created; a failure ends the process.
Load ==
  /\ stage["daemon"] = "loading"
  /\ \/ loaded' = loaded \cup {life["daemon"]} /\ Goto("daemon", "attaching")
     \/ UNCHANGED loaded /\ Goto("daemon", "down")
  /\ UNCHANGED <<named, box, life, held, crashed, reports>>

\* The rings in turn; one that cannot be created or opened (the name is taken or
\* missing, the capacity is no power of two, the system refuses) ends the process,
\* and so does a trace file that cannot be opened after the last.  flowedge-jobd
\* refuses an opened pair with slots too small for its messages, flowedge-relayd not.
Attach ==
  /\ stage["daemon"] = "attaching"
  /\ LET i == Len(held["daemon"]) + 1
     IN  \/ /\ i \in Indices /\ creates /\ MayCreate(i)
            /\ Create("daemon", i)
            /\ UNCHANGED stage
         \/ /\ i \in Indices /\ ~creates /\ named[i] # NoRing
            /\ Take("daemon", named[i], FALSE)
            /\ UNCHANGED <<named, box, stage>>
         \/ i \in Indices /\ Exit("daemon") /\ UNCHANGED box
         \/ /\ ~creates /\ i \in {3, 5}
            /\ \E k \in {i - 2, i - 1} : held["daemon"][k].ring.slot_bytes < NeededBytes
            /\ Exit("daemon") /\ UNCHANGED box
         \/ /\ i \notin Indices
            /\ \/ Goto("daemon", "serving") /\ UNCHANGED <<named, box, held>>
               \/ Exit("daemon") /\ UNCHANGED box
  /\ UNCHANGED <<life, loaded, crashed, reports>>

\* One turn of the loop: a message of an input ring is answered in its pair, or stops it.
Serve(i) ==
  /\ stage["daemon"] = "serving" /\ i % 2 = 1
  /\ LET from == held["daemon"][i].ring
         to == held["daemon"][i + 1].ring
     IN  /\ box[from] # <<>>
         /\ IF Head(box[from]).kind = "shutdown"
            THEN box' = [box EXCEPT ![from] = Tail(@)] /\ Exit("daemon")
            ELSE /\ box' = [box EXCEPT ![from] = Tail(@), ![to] = Append(@, Head(box[from]))]
                 /\ UNCHANGED <<named, held, stage>>
  /\ UNCHANGED <<life, loaded, crashed, reports>>

\* SIGINT or SIGTERM, or the loop's failure.
StopDaemon ==
  /\ stage["daemon"] = "serving"
  /\ Exit("daemon")
  /\ UNCHANGED <<box, life, loaded, crashed, reports>>

-----------------------------------------------------------------------------
(* The clients.                                                            *)

Command == Commands[life["client"]]
\* The pair an invocation uses: conditions and actions, or control and status.
FirstEnd == IF Command.kind = "control" THEN 3 ELSE 1
Needs == IF Command.kind = "shutdown" THEN {FirstEnd} ELSE {FirstEnd, FirstEnd + 1}

StartClient ==
  /\ stage["client"] = "down" /\ life["client"] < Len(Commands)
  /\ life' = [life EXCEPT !["client"] = @ + 1]
  /\ Goto("client", IF Commands[life["client"] + 1].kind = "own" THEN "owning" ELSE "connecting")
  /\ UNCHANGED <<named, box, held, loaded, crashed, reports>>

\* RelayClient::create, JobClient::create: a program that owns the pair; a second
\* ring that cannot be created takes the first one down with it.
CreatePair ==
  /\ stage["client"] = "owning"
  /\ LET i == Len(held["client"]) + 1
     IN  \/ i \in 1..2 /\ MayCreate(i) /\ Create("client", i) /\ UNCHANGED stage
         \/ i \in 1..2 /\ Exit("client") /\ UNCHANGED box
         \/ i = 3 /\ Goto("client", "connected") /\ UNCHANGED <<named, box, held>>
  /\ UNCHANGED <<life, loaded, crashed, reports>>

\* connect: one ring after the other; what is missing or too small means another try.
Connect ==
  /\ stage["client"] = "connecting"
  /\ LET i == FirstEnd + Len(held["client"])
     IN  \/ /\ i \in Needs /\ named[i] # NoRing /\ Take("client", named[i], FALSE)
            /\ UNCHANGED stage
         \/ /\ i \in Needs /\ named[i] = NoRing
            /\ held' = [held EXCEPT !["client"] = <<>>] /\ UNCHANGED stage
         \/ /\ i \notin Needs
            /\ IF \A k \in 1..Len(held["client"]) : held["client"][k].ring.slot_bytes >= NeededBytes
               THEN Goto("client", "connected") /\ UNCHANGED held
               ELSE held' = [held EXCEPT !["client"] = <<>>] /\ UNCHANGED stage
  /\ UNCHANGED <<named, box, life, loaded, crashed, reports>>

\* try_submit, send_shutdown.
ClientSend ==
  /\ stage["client"] = "connected"
  /\ LET to == held["client"][1].ring
     IN  box' = [box EXCEPT ![to] = Append(@, [kind |-> Command.kind, sequence |-> Command.sequence,
                                               about |-> Command.about, of |-> life["client"]])]
  /\ IF Command.kind = "shutdown" THEN Exit("client")
     ELSE Goto("client", "receiving") /\ UNCHANGED <<named, held>>
  /\ UNCHANGED <<life, loaded, crashed, reports>>

\* send_request holds the sequence and the session against its own, send_control the
\* sequence and the operation; send_mamba reports whatever result it finds.
IsAnswer(m) ==
  Command.kind = "mamba" \/ (m.sequence = Command.sequence /\ m.about = Command.about)

\* The first answer ends the invocation, its own or not.
ClientReceive ==
  /\ stage["client"] = "receiving"
  /\ LET from == held["client"][2].ring
     IN  /\ box[from] # <<>>
         /\ box' = [box EXCEPT ![from] = Tail(@)]
         /\ reports' = IF IsAnswer(Head(box[from]))
                       THEN reports \cup {<<life["client"], Head(box[from]).of>>} ELSE reports
  /\ Exit("client")
  /\ UNCHANGED <<life, loaded, crashed>>

\* The timeout of each loop of the client, and the end of the owning program.
ClientTimeout ==
  /\ stage["client"] \in {"connecting", "connected", "receiving"}
  /\ Exit("client")
  /\ UNCHANGED <<box, life, loaded, crashed, reports>>

\* A crash frees the mappings and leaves the names.
Crash(p) ==
  /\ stage[p] # "down" /\ held[p] # <<>>
  /\ crashed' = crashed \cup {<<p, life[p]>>}
  /\ held' = [held EXCEPT ![p] = <<>>]
  /\ Goto(p, "down")
  /\ UNCHANGED <<named, box, life, loaded, reports>>

StartNext ==
  /\ \/ StartDaemon \/ Load \/ Attach \/ (\E i \in Indices : Serve(i)) \/ StopDaemon
     \/ StartClient \/ CreatePair \/ Connect \/ ClientSend \/ ClientReceive \/ ClientTimeout
     \/ \E p \in Process : Crash(p)
  /\ UNCHANGED creates

-----------------------------------------------------------------------------
\* release() unlinks by name, not by mapping: the name a process is going to unlink
\* still refers to the ring this process made.
UnlinksOwn ==
  \A p \in Process : \A k \in 1..Len(held[p]) :
    held[p][k].unlink => named[held[p][k].ring.name] = held[p][k].ring

\* Every name belongs to a process that still holds the ring and will unlink it, or
\* that crashed: no failed start, failed pair or clean exit leaves a name behind.
NoOrphanName ==
  \A i \in Indices :
    named[i] # NoRing =>
      \/ <<named[i].maker, named[i].life>> \in crashed
      \/ \E k \in 1..Len(held[named[i].maker]) :
           held[named[i].maker][k] = [ring |-> named[i], unlink |-> TRUE]

\* "When the daemon owns the mappings, it publishes them only after checkpoint
\* loading succeeds" (ADR 0013): whoever holds a daemon's ring, that daemon loaded.
PublishedAfterLoading ==
  \A p \in Process : \A k \in 1..Len(held[p]) :
    held[p][k].ring.maker = "daemon" => held[p][k].ring.life \in loaded

\* Rings outlive the invocations that timed out, and a pair may be opened half before
\* and half after a daemon restarted, so that a later process finds an answer it did
\* not ask for.  No answer is reported twice or before it was asked for; and what a
\* relayctl request or a jobctl order reports answers the same question: the same
\* sequence, and session or operation.  It is its own when no invocation repeats them;
\* the clients' defaults do (sequence 1 in every process), and jobctl mamba
\* compares nothing.
ReportsAsked ==
  \A r \in reports :
    /\ r[2] <= r[1] /\ \A s \in reports : r[2] = s[2] => r = s
    /\ Commands[r[1]].kind # "mamba" => Commands[r[2]] = Commands[r[1]]

\* Ring names have one owner that loaded its checkpoint and removes them, and an
\* invocation reports an answer to its own question, once.
NamesOwned == UnlinksOwn /\ NoOrphanName /\ PublishedAfterLoading /\ ReportsAsked
=============================================================================
