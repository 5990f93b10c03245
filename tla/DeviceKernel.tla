------------------------------ MODULE DeviceKernel ------------------------------
(***************************************************************************)
(* The machine the samples' kernels run on, which is not in this           *)
(* repository: the state of a sample that launches kernels, and what it    *)
(* relies on.  The threads of a warp run in step; the warps of all blocks  *)
(* run in any order; a warp passes a __syncthreads when every warp of its  *)
(* block has arrived at it; hggcDeviceSynchronize returns when the kernel  *)
(* has ended.  A warp is a pair of its block and its place in it.          *)
(***************************************************************************)
EXTENDS Integers

CONSTANT WarpSize

VARIABLES
  host,   \* where the host program is, and its locals
  gmem,   \* device memory
  smem,   \* the shared memory of each block
  reg,    \* the registers of each warp, or of each thread
  round   \* how many barriers each has arrived at

machine == << host, gmem, smem, reg, round >>

Grid(blocks, warps) == (0..blocks - 1) \X (0..warps - 1)

Launched(blocks, warps) == [w \in Grid(blocks, warps) |-> 0]

NoKernel == << >>

Warps == DOMAIN round

Lanes(w) == { w[2] * WarpSize + l : l \in 0..WarpSize - 1 }

\* The warp may run what follows the __syncthreads it arrived at last.
Synced(w) == \A v \in Warps : v[1] = w[1] => round[v] >= round[w]

Arrive(w) == round' = [round EXCEPT ![w] = @ + 1]

\* The kernel has ended: every warp is past its last round.
KernelEnded(last) == \A w \in Warps : round[w] = last + 1

\* Accesses of two different warps of a block that no __syncthreads separates.
Concurrent(v, w) == v # w /\ v[1] = w[1] /\ Synced(v) /\ Synced(w)

CeilDiv(a, b) == (a + b - 1) \div b

\* threadIdx.x ^ stride, for a power of 2
FlipBit(t, stride) == IF (t \div stride) % 2 = 0 THEN t + stride ELSE t - stride

Log2(x) == CHOOSE k \in 0..x : 2^k = x
===============================================================================
