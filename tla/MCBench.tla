------------------------------ MODULE MCBench -------------------------------
(***************************************************************************)
(* Everything that is checked one task at a time: the algorithms of the    *)
(* SDK, the planner and its inputs, the packer, the tokenizer, the worker, *)
(* the calls on the cache frame, what one Dianome shares, the adapters,    *)
(* and the runtime's GPU work.                                             *)
(***************************************************************************)
EXTENDS MCTokenizer, MCRunInputs, MCWorker, MCRuntime, MCAdapters,
        FrameChannel, SharedState

\* A page and the frame it was granted; the runs, and the loads, of one Dianome.
FrameTask == [kind |-> "frame"]

RunsTask == [kind |-> "runs"]

StoreTask == [kind |-> "opening"]

Calling == task = FrameTask /\ FCNext /\ UNCHANGED <<srVars, stVars>>

Overlapping == task = RunsTask /\ SRNext /\ UNCHANGED <<fcVars, stVars>>

Opening == task = StoreTask /\ STNext /\ UNCHANGED <<fcVars, srVars>>

sdkVars == <<fcVars, srVars, stVars>>

MachinesIdle == CPInit /\ ECInit /\ GInit /\ FCInit /\ SRInit /\ STInit

BenchInit ==
  /\ \/ Init
     \/ task \in WorkerTasks /\ result = <<>>
     \/ task \in RuntimeTasks /\ result = <<>>
     \/ task \in TokenizerTasks \cup InputsTasks \cup AdapterTasks /\ result = <<>>
     \/ task \in {FrameTask, RunsTask, StoreTask} /\ result = <<>>
  /\ MachinesIdle

BenchNext ==
  \/ (Next \/ Tokenizing \/ Informing \/ Adapting) /\ UNCHANGED <<cpVars, ecVars, gpuVars, sdkVars>>
  \/ (Control \/ Edge \/ Reporting) /\ UNCHANGED <<gpuVars, sdkVars>>
  \/ (OnGpu \/ Measuring) /\ UNCHANGED <<cpVars, ecVars, sdkVars>>
  \/ (Calling \/ Overlapping \/ Opening) /\ UNCHANGED <<vars, cpVars, ecVars, gpuVars>>

BenchSpec == BenchInit /\ [][BenchNext]_<<vars, cpVars, ecVars, gpuVars, sdkVars>>
=============================================================================
