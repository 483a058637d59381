# A TLA+ verification project for ALPACA's WENO5-HM stencil and simulation runner

This directory holds TLA+ modules, TLC configurations and TLAPS proofs for the two
source files of this repository:

- `src/src/stencils/spatial_reconstruction_stencils/weno5_hm.h`: the WENO5-HM
  face-reconstruction stencil. It holds the coefficient tables and window sizes,
  and it declares `ApplyImplementation`.
- `src/src/simulation_runner.h`: `Simulation::Run`. It builds the simulation's
  managers and runs the simulation.

## 1. Inventory

### Components

| Component | State | Operations | Source |
|---|---|---|---|
| Stencil contract (`Stencil<T>`) | none (stateless) | `StencilSize`, `DownstreamSize`, `Apply`, which forwards to `ApplyImplementation` | `stencil.h` (not under `src/`); `weno5_hm.h:116-118` derives from it |
| WENO5-HM stencil | none; constant coefficient tables | `ApplyImplementation(array, evaluation_properties, cell_size)` | `weno5_hm.h:116-173`, body not under `src/` |
| Simulation runner | the locals of `Run`: 14 managers | `Run`: construct the managers in order, flush the log, `Initialization`, `ComputeLoop`, flush | `simulation_runner.h:94-154` |
| Initialization managers (units, materials, topology, tree, multiresolution, communication, halo, I/O, initial condition) | outside `src/` | the `Initialize*` factories | called at `simulation_runner.h:108-141` |
| Modular algorithm assembler | outside `src/` | `Initialization`, `ComputeLoop` | called at `simulation_runner.h:149-151` |
| Log writer | outside `src/` | `LogMessage`, `Flush` | called throughout `Run` |

### How the components interact

- The flux computation, which is outside `src/`, cuts a window of `stencil_size_` = 6
  cell averages around a face. It calls `Apply` with that window, the evaluation
  properties (which side of the face) and the cell size, and gets back one value.
- The stencil holds no mutable state. Each call is a pure function of its arguments,
  so concurrent calls from many threads cannot interfere (spec.md 5).
- `Run` passes earlier managers by reference to the factory of each later one.
- `Run` executes on every MPI rank.

### What is hard

- **The stencil.** Its correctness is numerical, not about concurrency. Six tables of
  constants must agree with one another and with polynomial reconstruction theory.
  The cell selection must be mirror-consistent for the two face sides. The scheme
  must be exact on constants whatever the nonlinear weights are. A wrong coefficient
  often still gives a stable, convergent scheme of lower order, which ordinary tests
  do not notice.
- **The runner.** `Run` is straight-line C++: C++ itself guarantees that a manager is
  built after, and destroyed before, the managers it receives, on return and on
  every exception. What it cannot guarantee is across ranks: a throw on one rank
  while the others communicate would hang them; that is out of reach here (see
  section 6).

`PROJECT.json` lists the components and, under "hazards", every place in the code
where something can go wrong that a test would hardly reach, each with the
properties that cover it.

## 2. Modules

| Module | Role |
|---|---|
| `Weno5HmScheme` | The data of the scheme in `weno5_hm.h` (tables, sizes) and the pure operators of one evaluation: cell selection, indicators, candidates. No variables. |
| `Weno5Hm` | The stencil's calls: each step is one whole `Apply` call. |
| `Weno5HmReference` | TLC only: reference definitions from polynomial reconstruction (recursive folds), computed independently of the tables. |
| `MC_Weno5Hm`, `MC_Weno5HmStep` | The TLC instances. |
| `SimulationRunner` | `Simulation::Run` on one rank: statements, exceptions, unwinding. |
| `Weno5HmSchemeProofs`, `Weno5HmProofs`, `SimulationRunnerProofs` | TLAPS proofs. |

## 3. Modules and their correspondence to the code

### `Weno5HmScheme` and `Weno5Hm`

| Definition | Code |
|---|---|
| `coef_smoothness_`, `SmoothnessDen` | `coef_smoothness_1_` = 13/12, `_2_` = 0.25, as twelfths (13, 3) |
| `coef_smoothness_diff_` | `coef_smoothness_11_` .. `_36_`. Sub-stencil 2's first difference has two coefficients, on its first and last cell; the middle one is 0. |
| `coef_weights_`, `WeightsDen` | 0.1, 0.6, 0.3 as tenths |
| `coef_stencils_`, `StencilsDen` | `coef_stencils_1_` .. `_9_` as sixths |
| `stencil_size_`, `downstream_stencil_size_` | 6 and 2 |
| `Windows` | `std::array<double, stencil_size_>` over the value set `Values` |
| `Apply` | one call of `ApplyImplementation` (its declaration, `weno5_hm.h:164`) |

The following definitions model the body of `ApplyImplementation`, which is not in
`src/`. They follow spec.md 4.2 and are marked `spec_modelled` in the map.

- `EvaluationProperties` and `CellIndex`: `v_j = array[downstream_stencil_size_ +
  ep[2] + (j-3)*ep[1]]`.
  - The left cell of the face reads indices 0..4 forward.
  - The right cell reads indices 5..1 backward.
- `Smoothness`: twelve times beta_k. Its squares are written as products (`s * s`),
  because the provers do not interpret `^`.
- `Candidate`: six times q_k.
- `PenaltyFactors`, `RawWeights`, `Sum3` and `Blend`.

The HM weight mapping and its regularisation constant are not in `src/`, and
spec.md 4.2 step 3 only states their limits. How a Henrick-type mapping ranks the
sub-stencils, and whether it keeps the optimal ratios on ties, cannot be read from
the repository. The model therefore fixes nothing about the formula beyond
positivity: a call's raw weights are `coef_weights_[k] * g[k]` for any penalty
factors `g \in [1..3 -> Penalties]`, and `Blend` normalises by their sum and mixes
the candidates. Every property checked or proved below holds for every positive
weighting, so it holds whatever the real formula is.

### `SimulationRunner`

- `Program` lists the 19 statements of `Run` in order.
- Actions:
  - `Step`: a statement returns normally; a construction adds a live local.
  - `Throw`: any statement throws, before its object exists.
  - `Return`: the end of `Run` is reached.
  - `Destroy`: at scope exit, or while an exception unwinds, the newest live local is
    destroyed.
  - `Leave`: all locals are gone.
- Log messages and `MPI_Comm_size` are left out: the latter only feeds a log line.
- Which managers each construction receives is not modelled. Any property about it
  (no manager outlives one it refers to, locals destroyed newest first) is forced by
  C++ name lookup and scoping: a program that broke it would not compile.

## 4. Runs

| Run | Module / cfg | Checks | Shows |
|---|---|---|---|
| `weno_reconstruction` | `MC_Weno5Hm` | `TypeOK`, `ConstantFieldExact`, `CandidatesExact`, `IndicatorsExact`, `OptimalBlendFifthOrder`, `MirrorSymmetry` | Every call on the 64 windows over {0,1}, from both sides and with every choice of penalty factors in {1,2}, agrees with the reference definitions of the candidates, indicators and fifth-order blend, is exact on constants and is mirror-symmetric. |
| `weno_step_example` | `MC_Weno5HmStep` | `StepWithinRange` (expected violation) | spec.md 8's example `[1,1,1,1,5,5]` leaves [1,5] (see Findings). |
| `runner_statements` | `SimulationRunner` | `RunnerTypeOK` | Every interleaving of normal returns and exceptions of `Run`'s statements, followed by the unwinding, keeps the statement counter, the locals and the phase in range. |

Why the bounds are enough:

- `ConstantFieldExact`, `CandidatesExact`, `OptimalBlendFifthOrder` and
  `MirrorSymmetry` are linear in the window, and the unit windows lie in {0,1}^6.
  `IndicatorsExact` is quadratic; a quadratic identity holds everywhere once it holds
  on every `e_i` and every `e_i + e_j` (polarization), and those lie in {0,1}^6 too.
- Two penalty levels give unequal weightings of every pair of sub-stencils, which
  is enough to reach `ConstantFieldExact` with non-optimal weights.
- Every seeded fault in the tables (below) is caught on this instance.
- Since `Apply` may follow any call, the transitions are the square of the 1024
  states; the run takes seconds.
- `runner_statements` covers every throw point, so its state space (235 states) is
  complete. It sets `CHECK_DEADLOCK FALSE` because `Run` really ends.

**Fairness.** None is assumed. The runs check safety properties only. A liveness
property for `Run` ("every run ends with its locals destroyed") would need fairness
that assumes each call returns or throws. On a multi-rank run that is exactly what
can fail: a rank that throws leaves the others waiting in a collective (the
deadlock hazard in `PROJECT.json`). The model does not assume that hang away.

Each property has a seeded fault in `PROJECT.json` "mutants" that TLC catches:

| Property | Seeded fault |
|---|---|
| `TypeOK` (stencil) | a negative optimal weight |
| `ConstantFieldExact` | a coefficient typo |
| `CandidatesExact` | two swapped candidate coefficients, with the sum kept |
| `IndicatorsExact` | a copied difference row |
| `OptimalBlendFifthOrder` | reversed optimal weights |
| `MirrorSymmetry` | the central-cell shift ignored |
| `RunnerTypeOK` | a statement skipped |

## 5. Proofs (checked by `tlapm`)

The assumptions are `ValuesAssumption` (window values are integers) and
`PenaltiesAssumption` (penalty factors are positive integers). The theorems hold for
every such set, unbounded, and so for every positive weight formula.

`Weno5HmSchemeProofs` holds lemmas about the pure operators: `IndexInWindow`,
`StencilValuesType`, `CandidateOfConstant` (each `coef_stencils_` row sums to
`StencilsDen`), `MirroredIndex` and `MirroredValues`, the scalar lemma `MulStrict`,
and `StepValues` and `StepBlendBelowData`, which compute the step example: the
candidates are `6a`, `6a` and `6a - (b - a)` (in sixths), so any positive blend is
below a. It also proves the order of accuracy in closed form, for polynomials with
integer coefficients of any size:

- **`CandidatesReproduceQuadratics`**: on the cell averages of any quadratic
  `c0 + c1 x + c2 x^2` (cells [j-1, j], face x = 3), each candidate of
  `coef_stencils_` is the quadratic's value at the face.
- **`OptimalBlendReproducesQuartics`**: on the averages of any quartic, the blend of
  the candidates with `coef_weights_` is the quartic's value at the face.

Both reduce to identities between polynomials in the coefficients once the five
averages are written out.

`Weno5HmProofs`:

- **`TypeCorrect`**: `Spec => []TypeOK`.
- **`ConstantFieldExactness`**: `Spec => []ConstantFieldExact`, for any positive
  weights: every candidate reproduces a constant, so the blend is the constant.
- **`MirrorSymmetric`**: `Spec => []MirrorSymmetry`.
- **`IndicatorsCorrect`**: `Spec => []IndicatorsExact`, from `IndicatorIdentity`, the
  polynomial identity between the table form and the Jiang-Shu form for each k.
- **`StepBelowDataAlways`**: on spec.md 8's step window `[a,a,a,a,b,b]`, `a < b`,
  read from the left cell, every call returns strictly less than a, for all integers
  and all positive weights. This is the finding of `weno_step_example`, proved in
  general.

`TypeOK` is not inductive for these purposes: it says nothing of how `result` relates
to the window. The invariant used is `IInv == TypeOK /\ ResultOfCall`, where
`ResultOfCall` says that `result` is `Blend(StencilValues(array, ep), alpha)`.

`SimulationRunnerProofs`: **`RunnerTypeCorrect`**, `Spec => []RunnerTypeOK`, proved
through the inductive invariant `RunnerTypeOK /\ LivePrefix`: the live locals are
the first managers of `Program` in order, all of those built so far while `Run`
executes statements. `NextIInv` checks each of the five actions against it.

What stays with TLC:

- The comparisons with the reference definitions (`CandidatesExact`,
  `OptimalBlendFifthOrder`), as TLC states them. These use recursive folds, which are
  out of the provers' reach (tlapm loses its SMT backend in any module that reaches a
  RECURSIVE operator, and induction over data cannot be instantiated). The
  closed-form theorems above state the same accuracy facts without the folds, for
  polynomials of every coefficient size.
- The finding below, which is a violation.

## 6. Findings, and what is not modelled

**Finding (spec gap).** spec.md 8 requires the result for window `[1,1,1,1,5,5]`,
reconstructed from the left cell, to lie in [1,5].

- The third candidate, `(2·1 + 5·1 − 1·5)/6 = 1/3`, lies below the data.
- Any regularised weight formula gives it a positive weight `w3`, so the result is
  `1 − (2/3)·w3 < 1`.
- TLC finds the violation on the windows over {1,5}.
- `StepBelowDataAlways` proves the result is below a for every step `a < b` and
  every positive weighting.
- With Jiang-Shu weights and epsilon = 1e-6, the double result is
  0.9999999999999994.
- The value is close to 1, as the spec also says, but not inside [1,5].

**Not modelled:**

- floating-point rounding of the coefficients and of the blend;
- the regularisation constant and the exact HM mapping, which are not in `src/`;
  the model allows every positive weighting, so the division by the weights' sum is
  safe by assumption;
- `cell_size`, which this stencil does not use;
- the managers' internals, which managers each receives, and the time loop, which
  are outside `src/` and out of the spec's scope;
- the log writer's buffering (messages before the first flush may be lost on an early
  throw; listed as a hazard);
- the interaction of ranks. A throw on one rank while the others are in collective
  communication would hang them. That hazard is listed, but which calls
  communicate is not in `src/`.
