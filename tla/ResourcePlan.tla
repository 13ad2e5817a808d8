----------------------------- MODULE ResourcePlan -----------------------------
(***************************************************************************)
(* What the program does with the machine it starts on (main.py):          *)
(* compute_resource_plan splits its memory and GPUs between vLLM, Vibe,    *)
(* the sandbox server and a pool of warm sandboxes, SandboxConfig takes    *)
(* the sandboxes' part, and environment variables may override it.         *)
(* Memory is in MiB; a GPU is its index, vram its memory.                  *)
(***************************************************************************)
EXTENDS Integers, FiniteSets

CONSTANTS
  Machines,     \* profiles [ram, threads, gpus, vram, docker] discovery may report
  Settings      \* environments [backend, gpu, pool]: VIBE_SANDBOX_BACKEND, _GPU, _POOL_SIZE

Absent == "unset"
NoSize == -1

ResourcePlanAssumption ==
  /\ \A m \in Machines :
       /\ m.ram \in Nat /\ m.threads \in Nat \ {0}
       /\ IsFiniteSet(m.gpus) /\ m.vram \in [m.gpus -> Nat] /\ m.docker \in BOOLEAN
  /\ \A s \in Settings :
       /\ s.backend \in {"opensandbox", "subprocess"}
       /\ s.gpu \in {Absent, "on", "off"} /\ s.pool \in Nat \cup {NoSize}

VARIABLES profile, env, pc, plan, config
vars == <<profile, env, pc, plan, config>>

NoPlan == [strategy |-> "none"]
NoConfig == [pool |-> 0]

Init ==
  /\ profile \in Machines /\ env \in Settings
  /\ pc = "discovered" /\ plan = NoPlan /\ config = NoConfig

-----------------------------------------------------------------------------

Least(a, b) == IF a < b THEN a ELSE b
Most(a, b) == IF a > b THEN a ELSE b

\* _size_pool: warm sandboxes by memory, then by threads, and the memory of each.
SizeByRam(m) ==
  IF m.ram < 16384 THEN 1 ELSE IF m.ram < 32768 THEN 2 ELSE IF m.ram < 65536 THEN 3 ELSE 4
\* The pool as it would be without the floor, and as it is.
PoolSizeUnfloored(m) ==
  IF m.threads < 4 THEN SizeByRam(m) - 1
  ELSE IF m.threads >= 16 THEN Least(SizeByRam(m) + 1, 6)
  ELSE SizeByRam(m)
PoolSize(m) ==
  IF m.threads < 4 THEN Most(1, SizeByRam(m) - 1)
  ELSE IF m.threads >= 16 THEN Least(SizeByRam(m) + 1, 6)
  ELSE SizeByRam(m)
PerSandbox(m) == IF m.ram < 16384 THEN 256 ELSE IF m.ram < 65536 THEN 512 ELSE 1024

Percent(n, p) == (n * p) \div 100

\* _plan_cpu_only
CpuOnly(m) ==
  [strategy |-> "cpu_only", vllm |-> Percent(m.ram, 70), services |-> 512 + 256,
   vllmGpus |-> {}, fraction |-> 0, sandboxGpus |-> {},
   pool |-> PoolSize(m), each |-> PerSandbox(m)]

\* _plan_single_gpu: a GPU of 24 GB is shared, and vLLM then claims 80% of it.
SingleGpu(m) ==
  LET shared == \A g \in m.gpus : m.vram[g] >= 24000 IN
    [strategy |-> "single_gpu", vllm |-> Percent(m.ram, 40), services |-> 512 + 256,
     vllmGpus |-> m.gpus, fraction |-> IF shared THEN 80 ELSE 100,
     sandboxGpus |-> IF shared THEN m.gpus ELSE {},
     pool |-> PoolSize(m), each |-> PerSandbox(m)]

\* The GPUs vLLM may get of several: the largest, and, when that has less than
\* 24 GB, the second as well; of GPUs of one size any.
Leading(m, gs) == \A g \in gs, h \in m.gpus \ gs : m.vram[g] >= m.vram[h]
ForVllm(m) ==
  {gs \in SUBSET m.gpus :
     /\ Leading(m, gs)
     /\ Cardinality(gs) = IF \A g \in m.gpus : m.vram[g] < 24576 THEN 2 ELSE 1}

\* _plan_multi_gpu: the sandboxes get the rest.
MultiGpu(m, gs) ==
  [strategy |-> "multi_gpu", vllm |-> Percent(m.ram, 35), services |-> 1024 + 512,
   vllmGpus |-> gs, fraction |-> 90, sandboxGpus |-> m.gpus \ gs,
   pool |-> Least(PoolSize(m) + 1, 6), each |-> PerSandbox(m)]

\* Docker is required, unless the backend is subprocess.
DockerMissing == ~profile.docker /\ env.backend # "subprocess"

ComputePlan ==
  /\ pc = "discovered" /\ ~DockerMissing
  /\ \/ profile.gpus = {} /\ plan' = CpuOnly(profile)
     \/ Cardinality(profile.gpus) = 1 /\ plan' = SingleGpu(profile)
     \/ /\ Cardinality(profile.gpus) > 1
        /\ \E gs \in ForVllm(profile) : plan' = MultiGpu(profile, gs)
  /\ pc' = "planned"
  /\ UNCHANGED <<profile, env, config>>

RaiseDocker ==
  /\ pc = "discovered" /\ DockerMissing
  /\ pc' = "failed"
  /\ UNCHANGED <<profile, env, plan, config>>

\* SandboxConfig.from_resource_plan
FromPlan ==
  /\ pc = "planned"
  /\ config' = [pool |-> plan.pool, gpu |-> plan.sandboxGpus # {}, gpus |-> plan.sandboxGpus]
  /\ pc' = "configured"
  /\ UNCHANGED <<profile, env, plan>>

\* apply_env_overrides: each variable that is set, for its own field only.
ApplyEnv ==
  /\ pc = "configured"
  /\ config' = [config EXCEPT
       !.pool = IF env.pool = NoSize THEN @ ELSE env.pool,
       !.gpu = IF env.gpu = Absent THEN @ ELSE env.gpu = "on"]
  /\ pc' = "ready"
  /\ UNCHANGED <<profile, env, plan>>

Next == ComputePlan \/ RaiseDocker \/ FromPlan \/ ApplyEnv

Spec == Init /\ [][Next]_vars

-----------------------------------------------------------------------------
(* Properties                                                              *)

Planned == pc \in {"planned", "configured", "ready"}

\* The warm pool has a sandbox on the smallest machine, and six at most on any.
PoolIsSized == Planned => plan.pool \in 1..6

\* On a machine of 5 GB or more the plan hands out no more memory than there is,
\* whatever the strategy and the threads that enlarge the pool.
MemoryFits ==
  Planned /\ profile.ram >= 5120 =>
    plan.vllm + plan.services + plan.pool * plan.each <= profile.ram

\* The GPUs the sandboxes see: an enabled list that is empty means all.
SandboxGpus ==
  IF ~config.gpu THEN {} ELSE IF config.gpus = {} THEN profile.gpus ELSE config.gpus

\* vLLM has a GPU if there is one, and one it shares with the sandboxes it does
\* not claim whole, unless the environment gave the GPU to the sandboxes.
GpusAreShared ==
  pc = "ready" =>
    /\ profile.gpus # {} => plan.vllmGpus # {}
    /\ plan.vllmGpus \cap SandboxGpus # {} => plan.fraction < 100 \/ env.gpu = "on"

PlanInv == PoolIsSized /\ MemoryFits /\ GpusAreShared

=============================================================================
