------------------------------ MODULE SumpStats ------------------------------
(***************************************************************************)
(* Statistics: every success of a request adds its time and size to one of *)
(* two windows of its path, from which the service-time and the rate       *)
(* selectors choose; a poller empties the windows of every path of every   *)
(* channel each 0.3 s, and a path that comes back starts afresh.           *)
(*                                                                         *)
(* One channel, whose thread runs the handlers one at a time.  Rates are   *)
(* integers of the unit RateUnit; UintMax stands for the initial 10e32.    *)
(***************************************************************************)
EXTENDS SumpSelect, Sequences

CONSTANTS
  Algorithms,    \* the selectors of the builds considered
  Window,        \* 20 in the code
  Times, Sizes,  \* times a request may take and sizes it may have
  RateUnit,      \* spdk_get_ticks_hz()
  Requests,      \* requests the caller may have outstanding
  Idle,          \* a request not outstanding
  MaxServed      \* bound: requests measured altogether

ASSUME AlgorithmsAssumption == Algorithms \subseteq {"TIME", "AVG_RATE", "RATE"}
ASSUME WindowAssumption == Window \in Nat \ {0}
ASSUME MeasuresAssumption == Times \subseteq Nat \ {0} /\ Sizes \subseteq Nat
(* A time is below UINT64_MAX ticks and a rate below 10e32.                *)
ASSUME UintMaxIsLarge == /\ \A time \in Times : time < UintMax
                         /\ \A size \in Sizes : size * RateUnit < UintMax
ASSUME RateUnitAssumption == RateUnit \in Nat \ {0}
ASSUME BoundsAssumption == MaxServed \in Nat

(* A request that does not read counts as a write.                         *)
Kinds == {"read", "write"}

VARIABLES
  algorithm,  \* the selector compiled in
  available,  \* iopath->available
  queue,      \* io_read_queue and io_write_queue of every path, see Queue
  rate,       \* read_rate and write_rate of every path
  flight,     \* path and kind of every outstanding request
  served,     \* history: the requests measured since the queue was emptied
  total       \* history: the requests measured altogether

vars == <<algorithm, available, queue, rate, flight, served, total>>

Element == [time : Times, size : Sizes]

Queue == [time_list : Seq(Element), len : 0 .. Window,
          io_time_all : Nat, io_time_avg : Nat, io_size_all : Nat, io_rate_avg : Nat]

Rate(size, time) == (size * RateUnit) \div time

(* The totals are cleared, the averages are not.                           *)
QueueInitTotals(q) ==
  [q EXCEPT !.time_list = <<>>, !.len = 0, !.io_time_all = 0, !.io_size_all = 0]

(* ump_io_queue_init; the elements of the list are not freed.              *)
QueueInit(q) ==
  [q EXCEPT !.time_list = <<>>, !.len = 0, !.io_time_all = 0, !.io_time_avg = 0,
            !.io_rate_avg = UintMax, !.io_size_all = 0]

Calloc == [time_list |-> <<>>, len |-> 0, io_time_all |-> 0, io_time_avg |-> 0,
           io_size_all |-> 0, io_rate_avg |-> 0]

Everywhere(v) == [p \in Paths |-> [k \in Kinds |-> v]]

Init ==
  /\ algorithm \in Algorithms
  /\ available = [p \in Paths |-> TRUE]
  /\ queue = Everywhere(QueueInit(Calloc))
  /\ rate = Everywhere(UintMax)
  /\ flight = [r \in Requests |-> Idle]
  /\ served = Everywhere(<<>>)
  /\ total = 0

-----------------------------------------------------------------------------
(* update_iopath_detail: the element joins the window, of which the oldest *)
(* leaves once there are more than Window; then the averages.              *)
Averaged(q) ==
  [q EXCEPT !.io_time_avg = q.io_time_all \div q.len,
            !.io_rate_avg = Rate(q.io_size_all, q.io_time_all)]

Joined(q, ele) ==
  [q EXCEPT !.time_list = Append(@, ele), !.io_time_all = @ + ele.time,
            !.io_size_all = @ + ele.size]

(* The window grows by one too many.                                       *)
InsertOneMore(q, ele) ==
  LET j == Joined(q, ele)
  IN IF q.len <= Window THEN Averaged([j EXCEPT !.len = @ + 1])
     ELSE Averaged([j EXCEPT !.time_list = Tail(@),
                             !.io_time_all = @ - Head(j.time_list).time,
                             !.io_size_all = @ - Head(j.time_list).size])

(* The size of the element that leaves stays in the total.                 *)
InsertKeepsSize(q, ele) ==
  LET j == Joined(q, ele)
  IN IF q.len < Window THEN Averaged([j EXCEPT !.len = @ + 1])
     ELSE Averaged([j EXCEPT !.time_list = Tail(@),
                             !.io_time_all = @ - Head(j.time_list).time])

Insert(q, ele) ==
  LET j == Joined(q, ele)
  IN IF q.len < Window THEN Averaged([j EXCEPT !.len = @ + 1])
     ELSE Averaged([j EXCEPT !.time_list = Tail(@),
                             !.io_time_all = @ - Head(j.time_list).time,
                             !.io_size_all = @ - Head(j.time_list).size])

(* Reads and writes share the first queue.                                 *)
UpdateIopathMixed(p, k, ele) ==
  /\ queue' = [queue EXCEPT ![p]["read"] = Insert(@, ele)]
  /\ rate' = [rate EXCEPT ![p][k] = Rate(ele.size, ele.time)]

(* update_iopath; io_incomplete is SumpIo's.                               *)
UpdateIopath(p, k, ele) ==
  /\ queue' = [queue EXCEPT ![p][k] = Insert(@, ele)]
  /\ rate' = [rate EXCEPT ![p][k] = Rate(ele.size, ele.time)]

-----------------------------------------------------------------------------
(* The selector on the measures of the kind of request; 0 is what gcc on   *)
(* x86-64 makes of 10e32 in ump_find_iopath_rate.                          *)
FindIopath(avail, k) ==
  CASE algorithm = "TIME"     -> MinScan(avail, [p \in Paths |-> queue[p][k].io_time_avg])
    [] algorithm = "AVG_RATE" -> MaxScan(avail, [p \in Paths |-> queue[p][k].io_rate_avg])
    [] algorithm = "RATE"     -> RateScan(avail, [p \in Paths |-> rate[p][k]], 0)

(* A request arrives.  What happens when there is no path to choose is     *)
(* SumpIo's.                                                               *)
Submit(r, k) ==
  /\ flight[r] = Idle
  /\ FindIopath(available, k) \in Paths
  /\ flight' = [flight EXCEPT ![r] = [path |-> FindIopath(available, k), kind |-> k]]
  /\ UNCHANGED <<algorithm, available, queue, rate, served, total>>

(* The success branch of ump_bdev_io_completion_cb.                        *)
Succeed(r) ==
  /\ flight[r] # Idle
  /\ total < MaxServed
  /\ \E ele \in Element :
       LET p == flight[r].path
           k == flight[r].kind
       IN /\ UpdateIopath(p, k, ele)
          /\ served' = [served EXCEPT ![p][k] = Append(@, ele)]
  /\ flight' = [flight EXCEPT ![r] = Idle]
  /\ total' = total + 1
  /\ UNCHANGED <<algorithm, available>>

(* The same when the element cannot be allocated: nothing is measured.     *)
SucceedUnmeasured(r) ==
  /\ flight[r] # Idle
  /\ flight' = [flight EXCEPT ![r] = Idle]
  /\ UNCHANGED <<algorithm, available, queue, rate, served, total>>

(* Its failure branch: the path is taken out of service and the request is *)
(* submitted again at once.                                                *)
Fail(r) ==
  /\ flight[r] # Idle
  /\ LET avail == [available EXCEPT ![flight[r].path] = FALSE]
         p == FindIopath(avail, flight[r].kind)
     IN /\ p \in Paths
        /\ available' = avail
        /\ flight' = [flight EXCEPT ![r].path = p]
  /\ UNCHANGED <<algorithm, queue, rate, served, total>>

(* Failback succeeds: ump_iopath_init.                                     *)
IopathInit(p) ==
  /\ ~available[p]
  /\ available' = [available EXCEPT ![p] = TRUE]
  /\ queue' = [queue EXCEPT ![p] = [k \in Kinds |-> QueueInit(@[k])]]
  /\ rate' = [rate EXCEPT ![p] = [k \in Kinds |-> UintMax]]
  /\ served' = [served EXCEPT ![p] = [k \in Kinds |-> <<>>]]
  /\ UNCHANGED <<algorithm, flight, total>>

(* ump_io_count_reset_fn, on this channel: read_rate and write_rate are    *)
(* not reset.                                                              *)
Reset ==
  /\ queue' = [p \in Paths |-> [k \in Kinds |-> QueueInit(queue[p][k])]]
  /\ served' = Everywhere(<<>>)
  /\ UNCHANGED <<algorithm, available, rate, flight, total>>

Next ==
  \/ \E r \in Requests :
       \/ \E k \in Kinds : Submit(r, k)
       \/ Succeed(r) \/ SucceedUnmeasured(r) \/ Fail(r)
  \/ \E p \in Paths : IopathInit(p)
  \/ Reset

Spec == Init /\ [][Next]_vars

-----------------------------------------------------------------------------
(* Properties.                                                             *)

TypeOK ==
  /\ algorithm \in Algorithms
  /\ available \in [Paths -> BOOLEAN]
  /\ queue \in [Paths -> [Kinds -> Queue]]
  /\ rate \in [Paths -> [Kinds -> Nat]]
  /\ flight \in [Requests -> {Idle} \cup [path : Paths, kind : Kinds]]
  /\ served \in [Paths -> [Kinds -> Seq(Element)]]
  /\ total \in 0 .. MaxServed

(* The averages a path is judged by are those of the last Window requests  *)
(* of the kind it served since it was last emptied, or of all of them when *)
(* they are fewer (update_iopath_detail adds and removes incrementally).   *)
WindowOf(s) ==
  IF Len(s) <= Window THEN s ELSE SubSeq(s, Len(s) - Window + 1, Len(s))

Recent(p, k) == WindowOf(served[p][k])

SumOf(w) ==
  LET sum[n \in 0 .. Len(w)] == IF n = 0 THEN 0 ELSE sum[n-1] + w[n] IN sum[Len(w)]

TimeOf(s) == SumOf([i \in 1 .. Len(s) |-> s[i].time])
SizeOf(s) == SumOf([i \in 1 .. Len(s) |-> s[i].size])

Measured(p, k) == served[p][k] # <<>>

AveragesAreRecent ==
  \A p \in Paths, k \in Kinds :
    LET s == Recent(p, k)
    IN IF Measured(p, k)
       THEN /\ queue[p][k].io_time_avg = TimeOf(s) \div Len(s)
            /\ queue[p][k].io_rate_avg = Rate(SizeOf(s), TimeOf(s))
       ELSE /\ queue[p][k].io_time_avg = 0
            /\ queue[p][k].io_rate_avg = UintMax

(* While an available path has not served a request of the kind since the  *)
(* last reset or failback, the next request of that kind goes to a path    *)
(* that is available and has not, whatever the other paths' measures: each *)
(* path gets its turn (sump_util.c: "makes sure that at the start every    *)
(* path is added", sump_ctrl.c: "reset the paths periodically, lest some   *)
(* path is never used").  It is so of the selector by the mean service     *)
(* time, and of the one by the mean rate while the head of the list is up: *)
(* while the head is down and unmeasured that one takes the head.  The     *)
(* selector by the last rate gives no such turn, see the README.           *)
UnmeasuredFirst ==
  \A k \in Kinds :
    (/\ algorithm = "TIME" \/ (algorithm = "AVG_RATE" /\ available[0])
     /\ \E p \in Paths : available[p] /\ ~Measured(p, k))
      => LET c == FindIopath(available, k)
         IN  c \in Paths /\ available[c] /\ ~Measured(c, k)

(* Once every available path was measured, the service-time selector takes *)
(* one with the least mean time over its recent requests of the kind, and  *)
(* the average-rate selector, when the head of the list is up, one with    *)
(* the greatest rate over them, whatever was measured for the other kind.  *)
(* The selector by the last rate then takes one that the rate of no path's *)
(* last request exceeds by more than RateScan cuts off.                    *)
BestRecentIsChosen ==
  \A k \in Kinds :
    LET up == {p \in Paths : available[p]}
        c  == FindIopath(available, k)
        Mean(p) == TimeOf(Recent(p, k)) \div Len(Recent(p, k))
        Speed(p) == Rate(SizeOf(Recent(p, k)), TimeOf(Recent(p, k)))
        LastSpeed(p) == LET s == served[p][k] IN Rate(s[Len(s)].size, s[Len(s)].time)
    IN (up # {} /\ \A p \in up : Measured(p, k)) =>
         /\ algorithm = "TIME" => c \in up /\ \A p \in up : Mean(c) <= Mean(p)
         /\ (algorithm = "AVG_RATE" /\ 0 \in up)
              => c \in up /\ \A p \in up : Speed(c) >= Speed(p)
         /\ (algorithm = "RATE" /\ 0 \in up)
              => c \in up /\ \A p \in up : LastSpeed(c) > LastSpeed(p) - 2
=============================================================================
