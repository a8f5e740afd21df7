--------------------------- MODULE MCCronSubTask ---------------------------
(* Small instances of CronSubTask for TLC. *)
EXTENDS CronSubTask, TLC

CONSTANTS w1, w2, f1, f2, f3, f4, f5, f6, static, tags, udf1, udf2, udf3

\* Three links of UDFs are one too many for a MaxDepth of 2.
MCStrategies == {static, tags, udf1, udf2, udf3}
MCKind == (static :> "STATIC") @@ (tags :> "RANDOM_FROM_WORKER_TAGS")
       @@ (udf1 :> "UDF") @@ (udf2 :> "UDF") @@ (udf3 :> "UDF")
MCUdf == (static :> static) @@ (tags :> tags)
      @@ (udf1 :> tags) @@ (udf2 :> udf1) @@ (udf3 :> udf2)

\* Firings of every other strategy: f3 has no worker in the end, f6 has none at all.
MixArgument == (f1 :> "FROM_QUEUE_END_SKIP") @@ (f2 :> "FROM_QUEUE_END_REPEAT_LATEST")
            @@ (f3 :> "STATIC") @@ (f4 :> "UDF") @@ (f5 :> "DROP") @@ (f6 :> "SKIP")
MixChoice == (f1 :> static) @@ (f2 :> udf2) @@ (f3 :> udf3) @@ (f4 :> tags)
          @@ (f5 :> udf2) @@ (f6 :> tags)
MixCandidates == (f1 :> {w1}) @@ (f2 :> {w1, w2}) @@ (f3 :> {w2}) @@ (f4 :> {w2})
              @@ (f5 :> {w2}) @@ (f6 :> {})

\* Firings that take from the queue, and one that does not.
QueueArgument == (f1 :> "FROM_QUEUE_END_SKIP") @@ (f2 :> "FROM_QUEUE_END_DROP")
              @@ (f3 :> "FROM_QUEUE_END_REPEAT_LATEST") @@ (f4 :> "STATIC")
QueueChoice == (f1 :> static) @@ (f2 :> tags) @@ (f3 :> udf1) @@ (f4 :> static)
QueueCandidates == (f1 :> {w1}) @@ (f2 :> {w1, w2}) @@ (f3 :> {w1, w2}) @@ (f4 :> {w1})
=============================================================================
