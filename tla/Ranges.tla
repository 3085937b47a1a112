------------------------------- MODULE Ranges -------------------------------
(***************************************************************************)
(* The span a usage report covers and the buckets of its time series, as   *)
(* the admin API settles them from its query string                        *)
(* (src/src/http/admin/handlers.ts, readRange, usage and usageOverview;    *)
(* src/src/db/usage.ts, rangeOf and series).                               *)
(***************************************************************************)
EXTENDS Integers, FiniteSetsExt

CONSTANTS
  MinBucket,     \* MIN_BUCKET_MS
  PerWindow      \* BUCKETS_PER_WINDOW and the overview's points: one number for both

ASSUME RangesAssumption == MinBucket \in Nat \ {0} /\ PerWindow \in Nat \ {0}

\* A parameter that is absent, or that does not read as a number.
Omitted == -1

rangeOf(window, now) == <<now - window, now>>

\* An explicit range wins only as a pair that is not inverted; otherwise the
\* window that ends now.
readRange(from, to, window, now) ==
  IF from # Omitted /\ to # Omitted /\ to > from THEN <<from, to>> ELSE rangeOf(window, now)

\* The bucket asked for, or the span cut into a fixed number; never finer than the floor.
bucketMs(range, bucket) ==
  Max({MinBucket, IF bucket > 0 THEN bucket ELSE (range[2] - range[1]) \div PerWindow})

\* Seeded fault: a row is a bucket of its own.
BucketOfRow(ts, width) == ts

\* (ts / width) * width over integers.
BucketOf(ts, width) == (ts \div width) * width
=============================================================================
