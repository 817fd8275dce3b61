------------------------------ MODULE TimeBoard ------------------------------
(***************************************************************************)
(* The clocks of one device while it walks its module graph:               *)
(* TopModuleGraph::set_stamp with set_push_status and set_pop_status       *)
(* (src/src/module/module_graph.cpp) and the stamps of the TimeBoard.  A   *)
(* device may execute on two units at once, a high one (the GPU) and a low *)
(* one (LOGIC or PIM): it keeps a time for each, and device_time, which is *)
(* set back to the time of a unit when a tensor is marked for that unit.   *)
(* ModuleGraph models the devices with each other and one unit only.       *)
(*                                                                         *)
(* A graph is a sequence of pushes and pops.  An entry has the mark of its *)
(* tensor ("plain", "high" or "low"; parallel_execution and                *)
(* perform_at_high in the code) or a vector of tensors.  A push carries    *)
(* what forward does.  Modules that only wrap one other module are left    *)
(* out.                                                                    *)
(***************************************************************************)
EXTENDS Integers, Sequences, SequencesExt, FiniteSetsExt

CONSTANTS
  Configs,       \* [list, high, low, parallel, attention, experts]
  Durations,     \* times that an execution, or waiting for other devices, takes
  num_expert     \* experts of the device

ASSUME TimeBoardAssumption ==
  /\ Durations \subseteq Nat /\ Durations # {} /\ num_expert \in Nat
  /\ \A c \in Configs :
       /\ c.parallel \in BOOLEAN /\ c.experts \in BOOLEAN
       /\ c.attention \in {"self", "mla", "absorb"}
       /\ \/ c.high = c.low /\ c.high \in {"GPU", "LOGIC"} /\ c.list = <<c.high>>
          \/ c.high = "GPU" /\ c.low \in {"LOGIC", "PIM"} /\ c.list = <<c.high, c.low>>

Units == {"GPU", "LOGIC", "PIM"}

VARIABLES
  config,        \* the system configuration
  marks,         \* by expert: the mark Route gives to its input
  pos,           \* current_module
  stamped,       \* whether its stamp has been set
  device_time, high_time, low_time, parallel,       \* the StatusBoard
  exec,          \* Device::exec_status: unit and duration
  stamps,        \* the open stamps, innermost last
  closed,        \* history: the stamp that was closed last
  done           \* history: by unit, when its work is done

tbvars == <<config, marks, pos, stamped, device_time, high_time, low_time, parallel, exec,
          stamps, closed, done>>

NoExec == [unit |-> "NONE", time |-> 0]
-----------------------------------------------------------------------------
(* Entries and modules. *)

None == [kind |-> "none", units |-> {}]
Execute(units) == [kind |-> "execute", units |-> units]
Pass == [kind |-> "pass", units |-> {}]       \* adds a time itself: norm, residual, communication
Join == [kind |-> "join", units |-> {}]

Entry(push, mark, does) == [push |-> push, mark |-> mark, does |-> does, sync |-> FALSE]
Wrap(in, out, does, body) == <<Entry(TRUE, in, does)>> \o body \o <<Entry(FALSE, out, None)>>
Module(in, out, does) == Wrap(in, out, does, <<>>)
SyncModule(does) == <<[Entry(TRUE, "plain", does) EXCEPT !.sync = TRUE], Entry(FALSE, "plain", None)>>

Marked(c, mark) == CASE mark = "high" -> {c.high} [] mark = "low" -> {c.low}
                     [] mark = "plain" -> Range(c.list)

(* Linear and Activation hand the mark of their input on. *)
Linear(c, mark) == Module(mark, mark, Execute(Marked(c, mark)))
Activation(c, mark) == Module(mark, mark, Execute(Marked(c, mark)))

(* Latent attention on two units runs on the high one, whatever the mark   *)
(* of its input, except for unabsorbed decodes; and marks its output high. *)
TwoUnits(c) == Len(c.list) # 1

AttentionSum(c) ==
  IF c.parallel THEN Module("high", "high", Execute({c.high}))
  ELSE IF c.attention # "self" /\ TwoUnits(c) THEN Module("plain", "high", Execute({c.high}))
  ELSE Module("plain", "plain", Execute(Range(c.list)))

AttentionGen(c) ==
  IF c.parallel THEN IF c.attention = "absorb" THEN Module("low", "high", Execute({c.high}))
                     ELSE Module("low", "low", Execute({c.low}))
  ELSE IF c.attention # "self" /\ TwoUnits(c) THEN Module("plain", "high", Execute({c.high}))
  ELSE Module("plain", "plain", Execute(Range(c.list)))

AttentionSplit == Module("vec", "vec", Join)
AttentionMerge == Module("vec", "vec", Join)

(* SelfAttentionParallel; the latent ones take and give vectors. *)
SelfAttentionParallel(c) ==
  LET mark == IF c.attention = "self" THEN "plain" ELSE "vec"
  IN  Wrap(mark, mark, None,
           AttentionSplit \o AttentionSum(c) \o AttentionGen(c) \o AttentionMerge)

AllReduce == SyncModule(Pass)
LayerNorm == Module("plain", "plain", Pass)

Attention(c) ==
  Linear(c, "plain") \o SelfAttentionParallel(c) \o Linear(c, "plain") \o AllReduce

(* An expert; w1, activation, w3, w2. *)
FeedForward3Way(c, mark) ==
  Wrap(mark, mark, None,
       Linear(c, mark) \o Activation(c, mark) \o Linear(c, mark) \o Linear(c, mark))

RouteModule == Module("vec", "vec", None)
Sync == SyncModule(None)
MoEGather == Module("vec", "vec", Pass)

(* The first e experts of the device, one after the other. *)
ExpertRuns(c, m) ==
  LET runs[e \in 0 .. num_expert] ==
        IF e = 0 THEN <<>> ELSE runs[e - 1] \o FeedForward3Way(c, m[e])
  IN  runs

ExpertFFN(c, m) ==
  Wrap("plain", "plain", None,
       RouteModule \o ExpertRuns(c, m)[num_expert] \o Sync \o MoEGather)

Graph == IF config.experts THEN LayerNorm \o ExpertFFN(config, marks) ELSE Attention(config)
-----------------------------------------------------------------------------
(* setPerformHigh and setPerformLow in Route::forward. *)
RouteMarks(c) ==
  [1 .. num_expert -> IF c.parallel THEN {"high", "low"} ELSE {"plain"}]

Start ==
  /\ pos = 1 /\ stamped = FALSE
  /\ device_time = 0 /\ high_time = 0 /\ low_time = 0 /\ parallel = FALSE
  /\ exec = NoExec /\ stamps = <<>>
  /\ closed = [start |-> 0, end |-> 0, inner |-> 0, outer |-> 0]
  /\ done = [u \in Units |-> 0]

TBInit == config \in Configs /\ marks \in RouteMarks(config) /\ Start

Here == Graph[pos]
AtPush == pos <= Len(Graph) /\ Here.push
AtPop == pos <= Len(Graph) /\ ~Here.push

Joined == Max({device_time, low_time, high_time})
AllUnits(t) == [u \in Units |-> t]

(* Mutant: the time of the unit is not taken. *)
SetPushLate(mark) ==
  CASE mark \in {"high", "low"} ->
         parallel' = TRUE /\ UNCHANGED <<device_time, high_time, low_time>>
    [] OTHER ->
         /\ device_time' = Joined /\ high_time' = Joined /\ low_time' = Joined
         /\ parallel' = FALSE

(* set_push_status *)
SetPushStatus(mark) ==
  CASE mark = "high" -> device_time' = high_time /\ parallel' = TRUE /\ UNCHANGED <<high_time, low_time>>
    [] mark = "low"  -> device_time' = low_time /\ parallel' = TRUE /\ UNCHANGED <<high_time, low_time>>
    [] OTHER ->
         /\ device_time' = Joined /\ high_time' = Joined /\ low_time' = Joined
         /\ parallel' = FALSE

(* set_stamp at a push: the stamp keeps the device_time of its start. *)
PushStamp ==
  /\ AtPush /\ ~stamped
  /\ SetPushStatus(Here.mark)
  /\ stamps' = Append(stamps, [start |-> device_time', inner |-> 0])
  /\ done' = IF Here.mark \in {"plain", "vec"} THEN AllUnits(Max(Range(done))) ELSE done
  /\ stamped' = TRUE
  /\ UNCHANGED <<config, marks, pos, exec, closed>>

(* set_time: at a sync module, once, by the device that finds all others   *)
(* ready.                                                                  *)
SetTime ==
  /\ AtPush /\ stamped /\ Here.sync /\ device_time = high_time
  /\ \E w \in Durations :
       /\ device_time' = device_time + w
       /\ done' = AllUnits(Max(Range(done)) + w)
  /\ UNCHANGED <<config, marks, pos, stamped, high_time, low_time, parallel, exec, stamps, closed>>

(* ModuleGraph::run: forward. *)
Forward ==
  /\ AtPush /\ stamped
  /\ LET does == Here.does
     IN  \/ /\ does.kind = "none"
            /\ UNCHANGED <<device_time, high_time, low_time, exec, stamps, done>>
         \/ /\ does.kind = "execute"
            /\ \E u \in does.units, d \in Durations :
                 /\ exec' = [unit |-> u, time |-> d]
                 /\ done' = IF Here.mark \in {"plain", "vec"} THEN AllUnits(done[u] + d)
                            ELSE [done EXCEPT ![u] = @ + d]
            /\ UNCHANGED <<device_time, high_time, low_time, stamps>>
         \/ /\ does.kind = "pass"
            /\ \E d \in Durations :
                 /\ device_time' = device_time + d
                 /\ done' = AllUnits(Max(Range(done)) + d)
            /\ UNCHANGED <<high_time, low_time, exec, stamps>>
         \/ /\ does.kind = "join"
            /\ device_time' = Joined /\ high_time' = Joined /\ low_time' = Joined
            /\ UNCHANGED <<exec, stamps, done>>
  /\ pos' = pos + 1 /\ stamped' = FALSE
  /\ UNCHANGED <<config, marks, parallel, closed>>

(* Mutant: only device_time is moved, as where execution is not parallel. *)
SetPopSerial(par) ==
  device_time' = device_time + exec.time /\ UNCHANGED <<high_time, low_time>>

(* set_pop_status.  getExecStatus takes the status away. *)
SetPopStatus(par) ==
  CASE par /\ exec.unit \in {"LOGIC", "PIM"} ->
         /\ low_time' = low_time + exec.time /\ device_time' = low_time'
         /\ UNCHANGED high_time
    [] par /\ exec.unit = "GPU" ->
         /\ high_time' = high_time + exec.time /\ device_time' = high_time'
         /\ UNCHANGED low_time
    [] par /\ exec.unit = "NONE" -> UNCHANGED <<device_time, high_time, low_time>>
    [] ~par -> device_time' = device_time + exec.time /\ UNCHANGED <<high_time, low_time>>

(* set_stamp at a pop: set_status of the stamp, which goes back to the     *)
(* device_time whatever the unit.                                          *)
PopStamp ==
  /\ AtPop
  /\ parallel' = IF Here.mark = "vec" THEN parallel ELSE Here.mark # "plain"
  /\ SetPopStatus(parallel')
  /\ exec' = NoExec
  /\ LET top  == Last(stamps)
         rest == Front(stamps)
     IN  /\ closed' = [start |-> top.start, end |-> device_time', inner |-> top.inner,
                       outer |-> IF rest = <<>> THEN 0 ELSE Last(rest).start]
         /\ stamps' = IF rest = <<>> THEN rest
                      ELSE [rest EXCEPT ![Len(rest)].inner = Max({@, device_time'})]
  /\ pos' = pos + 1
  /\ UNCHANGED <<config, marks, stamped, done>>

(* restartModuleGraph: reset_status and reset_timeboard. *)
Restart ==
  /\ pos > Len(Graph)
  /\ marks' \in RouteMarks(config)
  /\ pos' = 1 /\ stamped' = FALSE
  /\ device_time' = 0 /\ high_time' = 0 /\ low_time' = 0 /\ parallel' = FALSE
  /\ exec' = NoExec /\ stamps' = <<>>
  /\ done' = AllUnits(0)
  /\ UNCHANGED <<config, closed>>

TBNext == PushStamp \/ SetTime \/ Forward \/ PopStamp \/ Restart

TBSpec == TBInit /\ [][TBNext]_tbvars
-----------------------------------------------------------------------------
ExecType == [unit : Units \cup {"NONE"}, time : Nat]

TBTypeOK ==
  /\ config \in Configs /\ marks \in RouteMarks(config)
  /\ pos \in 1 .. Len(Graph) + 1
  /\ {stamped, parallel} \subseteq BOOLEAN
  /\ {device_time, high_time, low_time} \subseteq Nat
  /\ exec \in ExecType
  /\ stamps \in Seq([start : Nat, inner : Nat])
  /\ done \in [Units -> Nat]

(* No time is lost and none counted twice: device_time may be set back to  *)
(* the time of a unit, but whenever a module that needs both units begins, *)
(* it has all of the work behind it, as if each unit had done its part     *)
(* without waiting and both had met at every module on plain tensors.      *)
NoTimeLost ==
  stamped /\ Here.mark \in {"plain", "vec"} => device_time = Max(Range(done))

(* The stamps of a device form intervals that nest: none ends before it    *)
(* starts, before a stamp inside it ends, or starts before the one around  *)
(* it, though the clock that they read is set back in between.             *)
StampsNest ==
  closed.outer <= closed.start /\ closed.start <= closed.end /\ closed.inner <= closed.end

=============================================================================
