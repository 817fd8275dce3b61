------------------------------ MODULE ModuleGraph ------------------------------
(***************************************************************************)
(* One iteration of the devices: Cluster::run with TopModuleGraph and      *)
(* ModuleGraph (src/src/hardware/cluster.cpp, src/src/module/              *)
(* module_graph.cpp).  Every device walks a list of graph modules and adds *)
(* up their durations on a clock of its own.  A sync module waits until    *)
(* its input is ready on all devices of its device_list; the first device  *)
(* to find it so sets all their clocks to the latest of them, and leaves a *)
(* mark, timeboard_synced, for the others not to do it again.              *)
(*                                                                         *)
(* The simulator is one thread.  It calls the devices in turn, and each    *)
(* goes on until a sync module holds it up, so that what one device does   *)
(* between two syncs is seen by the others as one step; what they see of   *)
(* each other are the ready flags, the marks, the clocks, and the token    *)
(* counts of the experts, which device 0 computes for all.                 *)
(*                                                                         *)
(* Parallel execution on high and low units is off, so that low_time and   *)
(* high_time follow device_time.                                           *)
(***************************************************************************)
EXTENDS Integers, FiniteSetsExt, DecoderGraph

CONSTANTS
  num_total_device,   (* number of devices                                   *)
  ne_tp_dg,           (* tensor-parallel degree outside the experts          *)
  e_tp_dg,            (* tensor-parallel degree of an expert                 *)
  Durations           (* device times one timed module may take              *)

ASSUME DeviceAssumption ==
  /\ num_total_device \in Nat \ {0}
  /\ ne_tp_dg \in Nat \ {0}
  /\ e_tp_dg \in Nat \ {0}
  /\ num_total_device % ne_tp_dg = 0
  /\ num_total_device % e_tp_dg = 0
  /\ Durations \subseteq Nat

(* The module_graph of every device.                                      *)
Graph == LLM

Devices == 0 .. num_total_device - 1

VARIABLES
  turn,               (* the device the simulator is in                      *)
  current_module,     (* position of each device in the graph                *)
  ready,              (* tensors of each device that are ready               *)
  timeboard_synced,   (* tensors of each device with the mark                *)
  device_time,        (* clock of each device                                *)
  iteration,          (* parity of the iteration, to tell two runs apart     *)
  num_token_in_expert,(* the run and the layer whose counts are in place     *)
  left                (* history: when each device left its last sync        *)

vars == <<turn, current_module, ready, timeboard_synced, device_time,
          iteration, num_token_in_expert, left>>

(* The tensor the first module takes.  It belongs to no module: nothing    *)
(* ever unsets it.                                                         *)
FirstInput == Graph[1].input

Init ==
  /\ turn = 0
  /\ current_module = [d \in Devices |-> 1]
  /\ ready = [d \in Devices |-> {FirstInput}]
  /\ timeboard_synced = [d \in Devices |-> {}]
  /\ device_time = [d \in Devices |-> 0]
  /\ iteration = 0
  /\ num_token_in_expert = <<0, 0>>
  /\ left = [d \in Devices |-> 0]
-----------------------------------------------------------------------------
(* set_device_list: the devices module m of device d syncs with.           *)
GroupOf(d, degree) == {e \in Devices : e \div degree = d \div degree}

device_list(m, d) == CASE m.device_list = "own"   -> {d}
                       [] m.device_list = "ne_tp" -> GroupOf(d, ne_tp_dg)
                       [] m.device_list = "e_tp"  -> GroupOf(d, e_tp_dg)
                       [] m.device_list = "all"   -> Devices

Remains(d) == current_module[d] <= Len(Graph)
Module(d)  == Graph[current_module[d]]

(* checkListReady and check_ready.  A TensorVec is always ready: what      *)
(* checkListReady looks at is the list of dependencies, which only sync    *)
(* modules have.                                                           *)
CheckListReady(d) ==
  \A e \in device_list(Module(d), d) : Module(d).input \in ready[e]

CheckReady(d) == IF Module(d).sync THEN CheckListReady(d)
                 ELSE Module(d).vec \/ Module(d).input \in ready[d]

(* sync_devices.  The first of the devices marks the others and sets all   *)
(* clocks; a marked device takes its mark off.  Mutant: it marks itself,   *)
(* too.                                                                    *)
IsMarked(d) == Module(d).input \in timeboard_synced[d]

LatestTime(d) == Max({device_time[e] : e \in device_list(Module(d), d)})

MarksAfterSelf(d) ==
  [e \in Devices |->
    IF ~IsMarked(d) /\ e \in device_list(Module(d), d)
    THEN timeboard_synced[e] \cup {Module(d).input}
    ELSE IF e = d THEN timeboard_synced[e] \ {Module(d).input}
    ELSE timeboard_synced[e]]

MarksAfter(d) ==
  [e \in Devices |->
    IF e = d THEN timeboard_synced[e] \ {Module(d).input}
    ELSE IF ~IsMarked(d) /\ e \in device_list(Module(d), d)
    THEN timeboard_synced[e] \cup {Module(d).input}
    ELSE timeboard_synced[e]]

ClocksAfter(d) ==
  [e \in Devices |->
    IF ~IsMarked(d) /\ e \in device_list(Module(d), d) THEN LatestTime(d)
                                                       ELSE device_time[e]]

(* What forward, and the pop stamp that comes right after it, do on device *)
(* d with the clocks as they are then.  Device 0 is the one that updates   *)
(* the experts' counts, for all ranks.                                     *)
Forward(d, clocks) ==
  /\ ready' = [ready EXCEPT ![d] = @ \cup {Module(d).output}]
  /\ \E t \in (IF Module(d).timed THEN Durations ELSE {0}) :
       device_time' = [clocks EXCEPT ![d] = @ + t]
  /\ num_token_in_expert' = IF Module(d).counts = "written" /\ d = 0
                            THEN <<iteration, Module(d).layer>>
                            ELSE num_token_in_expert
  /\ current_module' = [current_module EXCEPT ![d] = @ + 1]
  /\ UNCHANGED <<turn, iteration>>

RunModule ==
  /\ Remains(turn)
  /\ ~Module(turn).sync
  /\ CheckReady(turn)
  /\ Forward(turn, device_time)
  /\ UNCHANGED <<timeboard_synced, left>>

RunSync ==
  /\ Remains(turn)
  /\ Module(turn).sync
  /\ CheckReady(turn)
  /\ timeboard_synced' = MarksAfter(turn)
  /\ left' = [left EXCEPT ![turn] = ClocksAfter(turn)[turn]]
  /\ Forward(turn, ClocksAfter(turn))
-----------------------------------------------------------------------------
(* Cluster::run.  The loop over the devices goes on while any has modules  *)
(* left, which is looked at before device 0.                               *)
ModuleGraphRemain == \E d \in Devices : Remains(d)

NextDevice(d) == (d + 1) % num_total_device

GoOn ==
  /\ turn = 0 => ModuleGraphRemain
  /\ Remains(turn) => ~CheckReady(turn)
  /\ turn' = NextDevice(turn)
  /\ UNCHANGED <<current_module, ready, timeboard_synced, device_time,
                 iteration, num_token_in_expert, left>>

(* restartModuleGraph, at the start of the next iteration.  The marks stay *)
(* as they are.  Mutant: the tensors are not unset.                        *)
ReadyAfterRestartKept == ready

ReadyAfterRestart == [d \in Devices |-> {FirstInput}]

Restart ==
  /\ turn = 0
  /\ ~ModuleGraphRemain
  /\ current_module' = [d \in Devices |-> 1]
  /\ ready' = ReadyAfterRestart
  /\ device_time' = [d \in Devices |-> 0]
  /\ iteration' = 1 - iteration
  /\ left' = [d \in Devices |-> 0]
  /\ UNCHANGED <<turn, timeboard_synced, num_token_in_expert>>

Next == RunModule \/ RunSync \/ GoOn \/ Restart

Spec == Init /\ [][Next]_vars

(* The simulator is one thread that never waits.                           *)
FairSpec == Spec /\ WF_vars(Next)
-----------------------------------------------------------------------------
Tensors == {Graph[i].input : i \in 1 .. Len(Graph)}
             \cup {Graph[i].output : i \in 1 .. Len(Graph)}

TypeOK ==
  /\ turn \in Devices
  /\ current_module \in [Devices -> 1 .. Len(Graph) + 1]
  /\ ready \in [Devices -> SUBSET Tensors]
  /\ timeboard_synced \in [Devices -> SUBSET Tensors]
  /\ device_time \in [Devices -> Nat]
  /\ iteration \in {0, 1}
  /\ num_token_in_expert \in {0, 1} \X Nat
  /\ left \in [Devices -> Nat]
-----------------------------------------------------------------------------
(* Devices that have left the same sync module last have left it at the    *)
(* same time: no clock is behind, also where the input of the module was   *)
(* ready before a device came near it (the all-reduces of ExpertFFN).      *)
LastSync(d) == Max({0} \cup {i \in 1 .. current_module[d] - 1 : Graph[i].sync})

SyncedTogether ==
  \A d, e \in Devices :
    LastSync(d) > 0 /\ LastSync(d) = LastSync(e)
      /\ e \in device_list(Graph[LastSync(d)], d) => left[d] = left[e]

(* A sync moves the clock of another device only while this one stands at  *)
(* the same sync: set_time never overtakes work a device has yet to do.    *)
ClocksMoveAtSync ==
  [][\A e \in Devices \ {turn} :
       ModuleGraphRemain /\ device_time'[e] # device_time[e] =>
         current_module[e] = current_module[turn]]_vars

(* A mark is for a device that has this sync still before it.  One that    *)
(* outlives the iteration would make a sync of the next one a no-op, since *)
(* restarting takes no marks off.                                          *)
MarksAreUsed == ~ModuleGraphRemain => \A d \in Devices : timeboard_synced[d] = {}

(* What MoEScatter, Route and MoEGather read are the counts device 0 has   *)
(* computed for their layer, in this iteration: not those of an earlier    *)
(* layer, and not those of a layer device 0 has gone on to.                *)
CountsOfThisLayer ==
  Remains(turn) /\ Module(turn).counts = "read" /\ CheckReady(turn) =>
    num_token_in_expert = <<iteration, Module(turn).layer>>

(* Every iteration ends: the devices never wait for each other in a ring.  *)
IterationEnds == []<>~ModuleGraphRemain
=============================================================================
