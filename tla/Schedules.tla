------------------------------ MODULE Schedules ------------------------------
(***************************************************************************)
(* The numbers that drive an update: the schedule of a coefficient or of   *)
(* the learning rate (src/crates/ferrl/src/trainer.rs), and the exponent   *)
(* of the bias correction (optim.rs).  A value is a fraction: a record of  *)
(* a numerator and a denominator, neither reduced nor rounded.             *)
(***************************************************************************)
EXTENDS Integers, Sequences

Over(num, den) == [num |-> num, den |-> den]

\* ScalarSchedule::validate_nonnegative.  A point has a step and a value.
ValidPoints(points, steps) ==
  /\ Len(points) > 0 /\ steps > 0
  /\ points[1].step = 0
  /\ \A i \in DOMAIN points : points[i].step < steps /\ points[i].value >= 0
  /\ \A i \in 1 .. Len(points) - 1 : points[i].step < points[i + 1].step

\* ScalarSchedule::at: the first pair of points that ends at the step or after it.
Segments(points, step) == {i \in 1 .. Len(points) - 1 : step <= points[i + 1].step}

Between(a, b, step) ==
  Over(a.value * (b.step - a.step) + (b.value - a.value) * (step - a.step), b.step - a.step)

At(points, step) ==
  IF step <= points[1].step THEN Over(points[1].value, 1)
  ELSE IF Segments(points, step) = {} THEN Over(points[Len(points)].value, 1)
  ELSE LET i == CHOOSE i \in Segments(points, step) : \A j \in Segments(points, step) : i <= j
       IN  Between(points[i], points[i + 1], step)

\* TrainerConfig::lr_at without a schedule.
Warmup(lr, step, warmup) ==
  IF warmup = 0 \/ step + 1 >= warmup THEN Over(lr, 1) ELSE Over(lr * (step + 1), warmup)

(***************************************************************************)
(* beta_to_step beyond the range of powi: squaring.  Of a power of beta    *)
(* only the exponent is kept.                                              *)
(***************************************************************************)
Odd(n) == n % 2 = 1

PowerBySquaring(step) ==
  LET rest[i \in 0 .. step] == IF i = 0 THEN step ELSE rest[i - 1] \div 2
      \* factor is beta to the 2^i after i squarings
      exponent[i \in 0 .. step] ==
        IF rest[i] = 0 THEN 0 ELSE (IF Odd(rest[i]) THEN 2 ^ i ELSE 0) + exponent[i + 1]
  IN  exponent[0]
=============================================================================
