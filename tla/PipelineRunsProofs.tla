------------------------ MODULE PipelineRunsProofs ------------------------
(***************************************************************************)
(* Proofs about pipeline runs, for any datasets, items, calls, plans and   *)
(* number of faults.                                                       *)
(***************************************************************************)
EXTENDS PipelineRuns, FiniteSetTheorems, TLAPS

-----------------------------------------------------------------------------
(* The parts of the inductive invariant.                                     *)

(* A run that was begun is one of a dataset its call names. *)
ValidInv ==
    \A r \in Runs : run[r] # "none" => r[2] <= Len(Request(r).sets)

(* Nothing runs while the process is down or recovers. *)
ProcessInv ==
    process # "up" =>
        /\ \A r \in Runs : run[r] \notin Locked \cup {"waiting"}
        /\ \A r \in Runs, i \in Items : task[r][i] \notin Going

(* A row of a start is about a run of its own pipeline and dataset. *)
RowInv ==
    \A p \in Pipelines, d \in Datasets :
        latest[p][d].status = "started" =>
            /\ latest[p][d].run \in Runs
            /\ run[latest[p][d].run] # "none"
            /\ Request(latest[p][d].run).pipeline = p
            /\ DatasetOf(latest[p][d].run) = d

(* Recovery works on datasets whose last row is a start. *)
StaleInv ==
    /\ \A d \in stale : IsStale(d)
    /\ \A d \in Datasets : recovery \in {"delete", "reset", "log"} \X {d} => IsStale(d)
    /\ process # "recovering" => stale = {} /\ recovery = <<"pick">>

(* A call that was not made has no runs. *)
IdleInv ==
    \A r \in Runs : call[r[1]] = "idle" => run[r] = "none"

(* A run behind which nothing was begun. *)
Open(r) ==
    \/ run[r] \in {"none", "waiting"}
    \/ ~Request(r).background /\ run[r] # "ended"

(* A call takes its datasets in their order: behind a run that is open nothing was begun. *)
OrderInv ==
    \A r, q \in Runs : r[1] = q[1] /\ r[2] < q[2] /\ Open(r) => run[q] = "none"

(* Runs that are inside the locks of their datasets have different datasets. *)
LockInv ==
    \A r, q \in Runs :
        r # q /\ run[r] \in Locked /\ run[q] \in Locked => DatasetOf(r) # DatasetOf(q)

(* While a run works its row is the last, unless an add has reset it. *)
ActiveInv ==
    \A r \in Runs :
        run[r] \in Locked \ {"answered"} =>
            \/ LatestOf(r) = [run |-> r, status |-> "started"]
            \/ LatestOf(r).status = "initiated"

(* Only cognify runs store items, and only they are rolled back. *)
RollInv ==
    \A r \in Runs :
        run[r] \in RollingBack \/ (\E i \in Items : task[r][i] \in {"owned", "stored", "marked"})
            => IsCognify(r)

(* A run has to do with the items of its dataset only. *)
ItemInv ==
    \A r \in Runs, i \in Items :
        task[r][i] # "none" \/ <<r, i>> \in owner \/ i \in undo[r].read \/ i \in undo[r].target
            => run[r] # "none" /\ i \in ItemsIn(r)

(* What a cognify run is done with is marked, and it forgets no item. *)
DoneOf(r) == IsCognify(r) =>
    \A i \in ItemsIn(r) :
        /\ run[r] = "working" => task[r][i] \notin {"none", "gone"}
        /\ run[r] = "working" /\ task[r][i] \in {"skipped", "marked", "ok"} => marker[i] # NoRun
        /\ run[r] = "flushing" => marker[i] # NoRun /\ task[r][i] \notin Going

(* It is so for all runs. *)
DoneInv ==
    \A r \in Runs : DoneOf(r)

(* A run that has not begun its work has left nothing. *)
FreshInv ==
    \A r \in Runs, i \in Items :
        run[r] \in {"none", "waiting", "answered", "started"} =>
            task[r][i] = "none" /\ <<r, i>> \notin owner /\ i \notin undo[r].target

(* A rollback resets the markers of all that it deletes. *)
ReadInv ==
    \A r \in Runs : undo[r].read \subseteq undo[r].target

(* What a run that works has stored is there, or is late. *)
StoredInv ==
    \A r \in Runs, i \in Items :
        run[r] = "working" /\ task[r][i] = "stored" => i \in graph \cup torn \cup late

(* The run whose artifacts a rollback, or the recovery, is about to delete,  *)
(* and the one whose rows and markers it is about to reset.                  *)
Deleting(r) ==
    \/ run[r] = "deleting"
    \/ \E d \in Datasets : recovery = <<"delete", d>> /\ StaleRun(d) = r
Resetting(r) ==
    \/ run[r] = "resetting"
    \/ \E d \in Datasets : recovery = <<"reset", d>> /\ StaleRun(d) = r
Owned(i) == \E r \in Runs : <<r, i>> \in owner

(* What the ledger knows of a run that is swept was read; and it is deleted before it is forgotten. *)
SweepInv ==
    ~inGraph => \A r \in Runs, i \in Items :
        /\ run[r] = "working" /\ task[r][i] = "owned" => Owned(i)
        /\ (Deleting(r) \/ Resetting(r)) /\ <<r, i>> \in owner /\ i \in (graph \cup torn) \ late
               => i \in undo[r].read
        /\ Deleting(r) /\ i \in undo[r].read => <<r, i>> \in owner
        /\ Resetting(r) /\ <<r, i>> \in owner /\ i \in graph => i \in late

(* The runs a rollback or the recovery may still come to, and their items. *)
Active(r) ==
    \/ run[r] \in Locked \ {"answered"}
    \/ LatestOf(r) = [run |-> r, status |-> "started"]
Touched(r, i) ==
    \/ <<r, i>> \in owner
    \/ i \in undo[r].target
    \/ task[r][i] \in Busy \cup {"marked"}
    \/ run[r] \in Working /\ task[r][i] \in {"ok", "failed"}

(* No run but itself has marked what an active run worked on, unless late. *)
KeepInv ==
    \A r \in Runs, i \in Items :
        IsCognify(r) /\ run[r] # "none" /\ Active(r) /\ Touched(r, i) => marker[i] \in {NoRun, r} \/ i \in late

-----------------------------------------------------------------------------
(* A run that was begun is one of a dataset its call names. *)
LEMMA RequestFacts ==
    ASSUME TypeOK, NEW r \in Runs
    PROVE  /\ r = <<r[1], r[2]>> /\ r[1] \in Calls /\ r[2] \in 1..MaxSets
           /\ Len(Request(r).sets) \in 1..MaxSets
           /\ Request(r).pipeline \in Pipelines
           /\ Request(r).background \in BOOLEAN
           /\ r[2] <= Len(Request(r).sets) => DatasetOf(r) \in Datasets
<1>1. r = <<r[1], r[2]>> /\ r[1] \in Calls /\ r[2] \in 1..MaxSets
    BY DEF Runs
<1>2. plan \in [Calls -> Requests] /\ Len(Request(r).sets) \in 1..MaxSets
    BY <1>1, RunsAssumption DEF TypeOK, Request
<1>3. Request(r) \in Requests
    BY <1>1, <1>2 DEF Request
<1> QED
    BY <1>1, <1>2, <1>3, RunsAssumption DEF Requests, DatasetOf

(* Where the runs are after a first answer, and after an end. *)
LEMMA FirstAnswerRuns ==
    ASSUME TypeOK, NEW r \in Runs, NEW pc \in RunPcs, FirstAnswer(r, pc)
    PROVE  /\ run'[r] = pc
           /\ \A q \in Runs : q # r => \/ run'[q] = run[q]
                                      \/ /\ run'[q] = "waiting"
                                         /\ Request(r).background
                                         /\ q[1] = r[1] /\ q[2] = r[2] + 1 /\ NotLast(r)
BY DEF FirstAnswer, TypeOK, NextOf, Runs

LEMMA EndRunRuns ==
    ASSUME TypeOK, NEW r \in Runs, EndRun(r)
    PROVE  /\ run'[r] = "ended"
           /\ \A q \in Runs : q # r => \/ run'[q] = run[q]
                                      \/ /\ run'[q] = "waiting"
                                         /\ ~Request(r).background
                                         /\ q[1] = r[1] /\ q[2] = r[2] + 1 /\ NotLast(r)
BY DEF EndRun, TypeOK, NextOf, Runs

(* The rows after a new one. *)
LEMMA NewRow ==
    ASSUME TypeOK, NEW r \in Runs, NEW status \in Statuses, LogRow(r, status),
           r[2] <= Len(Request(r).sets)
    PROVE  /\ Request(r).pipeline \in Pipelines /\ DatasetOf(r) \in Datasets
           /\ LatestOf(r) \in [run : Runs \cup {NoRun}, status : Statuses]
           /\ latest'[Request(r).pipeline][DatasetOf(r)] = [run |-> r, status |-> status]
           /\ \A p \in Pipelines, d \in Datasets :
                 p # Request(r).pipeline \/ d # DatasetOf(r) => latest'[p][d] = latest[p][d]
           /\ latest' \in [Pipelines -> [Datasets -> [run : Runs \cup {NoRun}, status : Statuses]]]
<1>1. Request(r).pipeline \in Pipelines /\ DatasetOf(r) \in Datasets
    BY RequestFacts
<1> QED
    BY <1>1 DEF LogRow, TypeOK, LatestOf


(* What keeps the order of a call: one of its runs goes on, and if the next  *)
(* one is begun for that, the first was open and no longer is.               *)
LEMMA OrderKept ==
    ASSUME TypeOK, OrderInv, plan' = plan, NEW r \in Runs,
           run[r] # "none", Open(r)' => Open(r),
           \A q \in Runs : q # r =>
               \/ run'[q] = run[q]
               \/ q[1] = r[1] /\ q[2] = r[2] + 1 /\ Open(r) /\ ~Open(r)' /\ run'[q] = "waiting"
    PROVE  OrderInv'
<1> SUFFICES ASSUME NEW a \in Runs, NEW b \in Runs, a[1] = b[1], a[2] < b[2], Open(a)'
             PROVE  run'[b] = "none"
    BY DEF OrderInv
<1>1. a[2] \in Nat /\ b[2] \in Nat /\ r[2] \in Nat
    BY DEF Runs
<1>2. a = r \/ run'[a] = run[a] \/ (a[1] = r[1] /\ a[2] = r[2] + 1 /\ Open(r))
    OBVIOUS
<1>3. a = r \/ a # r
    OBVIOUS
<1>4. CASE b = r
    <2>1. a # r /\ run'[a] = run[a]
        BY <1>1, <1>4
    <2>2. Open(a)
        BY <2>1 DEF Open, Request
    <2> QED
        BY <1>4, <2>2 DEF OrderInv
<1>5. CASE b # r /\ run'[b] # run[b]
    <2>1. b[1] = r[1] /\ b[2] = r[2] + 1 /\ Open(r) /\ ~Open(r)'
        BY <1>5
    <2>2. (a # r /\ a[1] = r[1] /\ a[2] < r[2]) \/ a[2] = r[2]
        BY <1>1, <2>1
    <2>3. CASE a[2] = r[2]
        BY <2>1, <2>3 DEF Runs
    <2>4. CASE a[2] < r[2]
        <3>1. run'[a] = run[a]
            BY <1>1, <2>4
        <3>2. Open(a)
            BY <3>1 DEF Open, Request
        <3> QED
            BY <2>1, <2>4, <3>2 DEF OrderInv
    <2> QED
        BY <2>2, <2>3, <2>4
<1>6. CASE b # r /\ run'[b] = run[b]
    <2>1. CASE a = r
        BY <1>6, <2>1 DEF OrderInv
    <2>2. CASE a # r /\ run'[a] = run[a]
        <3>1. Open(a)
            BY <2>2 DEF Open, Request
        <3> QED
            BY <1>6, <3>1 DEF OrderInv
    <2>3. CASE a[1] = r[1] /\ a[2] = r[2] + 1 /\ Open(r)
        <3>1. r[1] = b[1] /\ r[2] < b[2]
            BY <1>1, <2>3
        <3> QED
            BY <1>6, <2>3, <3>1 DEF OrderInv
    <2> QED
        BY <1>2, <2>1, <2>2, <2>3
<1> QED
    BY <1>4, <1>5, <1>6

(* What keeps the row of a run that works: no run begins to, and no row is   *)
(* written.                                                                  *)
LEMMA ActiveKept ==
    ASSUME ActiveInv, plan' = plan, latest' = latest,
           \A q \in Runs : run'[q] \in Locked \ {"answered"} => run[q] \in Locked \ {"answered"}
    PROVE  ActiveInv'
<1>1. \A q \in Runs : LatestOf(q)' = LatestOf(q)
    BY DEF LatestOf, Request, DatasetOf
<1> QED
    BY <1>1 DEF ActiveInv

(* Two runs inside the locks of their datasets have no item in common. *)
LEMMA ItemsApart ==
    ASSUME TypeOK, ValidInv, LockInv, NEW r \in Runs, NEW q \in Runs,
           r # q, run[r] \in Locked, run[q] \in Locked
    PROVE  ItemsIn(r) \cap ItemsIn(q) = {}
<1>1. DatasetOf(r) \in Datasets /\ DatasetOf(q) \in Datasets
    BY RequestFacts DEF ValidInv, Locked, Working, RollingBack
<1> QED
    BY <1>1, RunsAssumption DEF LockInv, ItemsIn


(* The recovery is over when a run works, and no run works while it lasts. *)
LEMMA UpFacts ==
    ASSUME ProcessInv, StaleInv, process = "up" \/ \E r \in Runs :
               run[r] \in Locked \cup {"waiting"} \/ \E i \in Items : task[r][i] \in Going
    PROVE  /\ process = "up" /\ recovery = <<"pick">>
           /\ \A q \in Runs : (Deleting(q) <=> run[q] = "deleting") /\ (Resetting(q) <=> run[q] = "resetting")
<1>1. process = "up" /\ recovery = <<"pick">>
    BY DEF ProcessInv, StaleInv
<1>2. \A d \in Datasets : recovery # <<"delete", d>> /\ recovery # <<"reset", d>>
    BY <1>1
<1> QED
    BY <1>1, <1>2 DEF Deleting, Resetting

LEMMA RecoveryFacts ==
    ASSUME ProcessInv, RowInv, StaleInv, NEW d \in Datasets,
           recovery \in {"delete", "reset", "log"} \X {d} \/ d \in stale
    PROVE  /\ StaleRun(d) \in Runs /\ IsCognify(StaleRun(d)) /\ DatasetOf(StaleRun(d)) = d
           /\ run[StaleRun(d)] # "none" /\ LatestOf(StaleRun(d)).status = "started"
           /\ LatestOf(StaleRun(d)).run = StaleRun(d)
           /\ \A q \in Runs : run[q] \notin Locked \cup {"waiting"}
           /\ \A q \in Runs, i \in Items : task[q][i] \notin Going
<1>1. IsStale(d)
    BY DEF StaleInv
<1>2. process = "recovering"
    <2>1. d \in stale \/ recovery # <<"pick">>
        OBVIOUS
    <2> QED
        BY <2>1 DEF StaleInv
<1> QED
    BY <1>1, <1>2
       DEF ProcessInv, RowInv, IsStale, StaleRun, IsCognify, LatestOf, Pipelines

(* What a sweep has read stays what it must delete and forget, while the    *)
(* stores stand and no other sweep begins.                                  *)
LEMMA SweepKept ==
    ASSUME SweepInv, UNCHANGED <<inGraph, graph, owner, torn>>, late \subseteq late',
           recovery' = <<"pick">> \/ UNCHANGED <<recovery, latest>>,
           \A q \in Runs : run'[q] \in {"deleting", "resetting"} => run'[q] = run[q],
           \A q \in Runs : \/ undo'[q] = undo[q]
                           \/ run'[q] \notin {"deleting", "resetting"} /\ recovery' = <<"pick">>,
           \A q \in Runs, i \in Items : run'[q] = "working" /\ task'[q][i] = "owned"
                                       => run[q] = "working" /\ task[q][i] = "owned"
    PROVE  SweepInv'
<1>1. \A q \in Runs : (Deleting(q)' => Deleting(q)) /\ (Resetting(q)' => Resetting(q))
    BY DEF Deleting, Resetting, StaleRun
<1>2. \A q \in Runs : Deleting(q)' \/ Resetting(q)' => undo'[q] = undo[q]
    BY DEF Deleting, Resetting
<1>3. \A i \in Items : Owned(i)' = Owned(i)
    BY DEF Owned
<1> QED
    BY <1>1, <1>2, <1>3 DEF SweepInv


(* The places of a run that has not begun its work. *)
Unbegun == {"none", "waiting", "answered", "started"}

(* Markers stay with the runs that set them while no run is touched or      *)
(* activated.                                                               *)
LEMMA KeepKept ==
    ASSUME KeepInv, FreshInv, plan' = plan, late \subseteq late',
           \A q \in Runs, j \in Items : IsCognify(q) /\ Touched(q, j)' => Touched(q, j),
           \A q \in Runs : run[q] \notin Unbegun /\ Active(q)' => Active(q),
           \A j \in Items : marker'[j] \in {marker[j], NoRun}
    PROVE  KeepInv'
<1>1. \A q \in Runs, j \in Items : run[q] \in Unbegun => ~Touched(q, j)
    BY DEF FreshInv, Unbegun, Touched, Busy
<1>2. \A q \in Runs : IsCognify(q)' = IsCognify(q)
    BY DEF IsCognify, Request
<1> QED
    BY <1>1, <1>2 DEF KeepInv, Unbegun


(* Rows stay about runs that were begun. *)
LEMMA RowKept ==
    ASSUME RowInv, plan' = plan, latest' = latest,
           \A q \in Runs : run[q] # "none" => run'[q] # "none"
    PROVE  RowInv'
BY DEF RowInv, Request, DatasetOf


(* A completed row stands while the markers do and no other is completed. *)
LEMMA CompletedKept ==
    ASSUME CompletedIsMarked,
           \A d \in Datasets : latest'["cognify"][d].status = "completed"
                                => latest["cognify"][d].status = "completed",
           \A i \in Items : marker[i] # NoRun => marker'[i] # NoRun
    PROVE  CompletedIsMarked'
BY RunsAssumption DEF CompletedIsMarked


(* A run is as done as before where its markers stand and it is where it was. *)
LEMMA DoneKept ==
    ASSUME DoneInv, plan' = plan, NEW q \in Runs,
           run'[q] \in Working => run'[q] = run[q] /\ task'[q] = task[q],
           run'[q] \in Working =>
               \A i \in ItemsIn(q) : marker[i] # NoRun => marker'[i] # NoRun
    PROVE  DoneOf(q)'
<1>1. ItemsIn(q)' = ItemsIn(q) /\ IsCognify(q)' = IsCognify(q)
    BY DEF ItemsIn, DatasetOf, IsCognify, Request
<1>2. DoneOf(q)
    BY DEF DoneInv
<1> QED
    BY <1>1, <1>2 DEF DoneOf, Working

-----------------------------------------------------------------------------
LEMMA TypeOKInit == Init => TypeOK
BY RunsAssumption DEF Init, Nothing, TypeOK, Runs, Pipelines, Statuses, RunPcs, TaskPcs, Locked, Going, Working, RollingBack, Busy

LEMMA TypeOKStep ==
    TypeOK /\ RowInv /\ StaleInv /\ [Next]_vars => TypeOK'
<1> SUFFICES ASSUME TypeOK, RowInv, StaleInv, [Next]_vars
             PROVE  TypeOK'
    OBVIOUS
<1> USE RunsAssumption
<1>1. ASSUME NEW c \in Calls, BeginCall(c) PROVE TypeOK'
    <2> USE <1>1 DEF TypeOK
    <2>1. (call \in [Calls -> {"idle", "starting", "driving", "done", "failed", "lost"}])'
        BY DEF BeginCall, Runs
    <2>2. (run \in [Runs -> RunPcs])'
        BY DEF BeginCall, Runs, RunPcs, Locked, Working, RollingBack
    <2> QED
        BY <2>1, <2>2 DEF BeginCall, setup, store, startup
<1>2. ASSUME NEW r \in Runs, AnswerRun(r) PROVE TypeOK'
    <2> USE <1>2 DEF TypeOK
    <2>1. (call \in [Calls -> {"idle", "starting", "driving", "done", "failed", "lost"}])'
        BY DEF AnswerRun, FirstAnswer, Request, NotLast, Runs
    <2>2. (run \in [Runs -> RunPcs])'
        BY
           DEF AnswerRun, FirstAnswer, NextOf, Runs, Request, NotLast, RunPcs, Locked,
               Working, RollingBack
    <2> QED
        BY <2>1, <2>2 DEF AnswerRun, FirstAnswer, setup, store, startup
<1>3. ASSUME NEW r \in Runs, StartRun(r) PROVE TypeOK'
    <2> USE <1>3 DEF TypeOK
    <2>1. (call \in [Calls -> {"idle", "starting", "driving", "done", "failed", "lost"}])'
        BY DEF StartRun, FirstAnswer, Request, NotLast, Runs
    <2>2. (run \in [Runs -> RunPcs])'
        BY
           DEF StartRun, FirstAnswer, NextOf, Runs, Request, NotLast, RunPcs, Locked,
               Working, RollingBack
    <2>3. (latest \in [Pipelines -> [Datasets -> [run : Runs \cup {NoRun}, status : Statuses]]])'
        BY DEF StartRun, LogRow, Request, DatasetOf, Runs, Pipelines, Statuses
    <2> QED
        BY <2>1, <2>2, <2>3 DEF StartRun, FirstAnswer, setup, store, startup
<1>4. ASSUME NEW r \in Runs, FinishAnswered(r) PROVE TypeOK'
    <2> USE <1>4 DEF TypeOK
    <2>1. (call \in [Calls -> {"idle", "starting", "driving", "done", "failed", "lost"}])'
        BY DEF FinishAnswered, EndRun, NotLast, Request, Runs
    <2>2. (at \in [Calls -> 1..MaxSets])'
        BY DEF FinishAnswered, EndRun, NotLast, Request, Runs
    <2>3. (run \in [Runs -> RunPcs])'
        BY
           DEF FinishAnswered, EndRun, NextOf, Runs, Request, NotLast, RunPcs, Locked,
               Working, RollingBack
    <2>4. (reraised \subseteq Runs)'
        BY DEF FinishAnswered, EndRun, Forget, Request, NotLast, Runs
    <2>5. (undo \in [Runs -> [read : SUBSET Items, target : SUBSET Items]])'
        BY DEF FinishAnswered, EndRun, Forget, Request, NotLast, Nothing, Runs
    <2> QED
        BY <2>1, <2>2, <2>3, <2>4, <2>5 DEF FinishAnswered, setup, store, startup
<1>5. ASSUME NEW r \in Runs, EnterContext(r) PROVE TypeOK'
    <2> USE <1>5 DEF TypeOK
    <2>1. (run \in [Runs -> RunPcs])'
        BY DEF EnterContext, Runs, RunPcs, Locked, Working, RollingBack
    <2>2. (task \in [Runs -> [Items -> TaskPcs]])'
        BY DEF EnterContext, ItemsIn, DatasetOf, Request, Runs, TaskPcs, Going, Busy
    <2> QED
        BY <2>1, <2>2 DEF EnterContext, setup, store, startup
<1>6. ASSUME NEW r \in Runs, GatherErrors(r) PROVE TypeOK'
    <2> USE <1>6 DEF TypeOK
    <2>1. (run \in [Runs -> RunPcs])'
        BY
           DEF GatherErrors, Fails, IsCognify, Request, Runs, RunPcs, Locked, Working,
               RollingBack
    <2>2. (undo \in [Runs -> [read : SUBSET Items, target : SUBSET Items]])'
        BY DEF GatherErrors, Fails, Runs, Processed
    <2> QED
        BY <2>1, <2>2 DEF GatherErrors, setup, store, startup
<1>7. ASSUME NEW r \in Runs, GatherResults(r) PROVE TypeOK'
    <2> USE <1>7 DEF TypeOK
    <2>1. (run \in [Runs -> RunPcs])'
        BY DEF GatherResults, Runs, RunPcs, Locked, Working, RollingBack
    <2> QED
        BY <2>1 DEF GatherResults, setup, store, startup
<1>8. ASSUME NEW r \in Runs, Complete(r) PROVE TypeOK'
    <2> USE <1>8 DEF TypeOK
    <2>1. (call \in [Calls -> {"idle", "starting", "driving", "done", "failed", "lost"}])'
        BY DEF Complete, EndRun, NotLast, Request, Runs
    <2>2. (at \in [Calls -> 1..MaxSets])'
        BY DEF Complete, EndRun, NotLast, Request, Runs
    <2>3. (run \in [Runs -> RunPcs])'
        BY
           DEF Complete, EndRun, NextOf, Runs, Request, NotLast, RunPcs, Locked,
               Working, RollingBack
    <2>4. (reraised \subseteq Runs)'
        BY DEF Complete, EndRun, Forget, Request, NotLast, Runs
    <2>5. (undo \in [Runs -> [read : SUBSET Items, target : SUBSET Items]])'
        BY DEF Complete, EndRun, Forget, Request, NotLast, Nothing, Runs
    <2>6. (latest \in [Pipelines -> [Datasets -> [run : Runs \cup {NoRun}, status : Statuses]]])'
        BY DEF Complete, LogRow, Request, DatasetOf, Runs, Pipelines, Statuses
    <2> QED
        BY <2>1, <2>2, <2>3, <2>4, <2>5, <2>6 DEF Complete, setup, store, startup
<1>9. ASSUME NEW r \in Runs, RollbackReads(r) PROVE TypeOK'
    <2> USE <1>9 DEF TypeOK
    <2>1. (run \in [Runs -> RunPcs])'
        BY DEF RollbackReads, Runs, RunPcs, Locked, Working, RollingBack
    <2>2. (undo \in [Runs -> [read : SUBSET Items, target : SUBSET Items]])'
        BY DEF RollbackReads, ReadArtifacts, OwnedBy, Runs
    <2> QED
        BY <2>1, <2>2 DEF RollbackReads, setup, store, startup
<1>10. ASSUME NEW r \in Runs, RollbackDeletes(r) PROVE TypeOK'
    <2> USE <1>10 DEF TypeOK
    <2>1. (run \in [Runs -> RunPcs])'
        BY DEF RollbackDeletes, Runs, RunPcs, Locked, Working, RollingBack
    <2>2. (graph \subseteq Items)'
        BY DEF RollbackDeletes, DeleteArtifacts, OwnedBy
    <2>3. (owner \subseteq Runs \X Items)'
        BY DEF RollbackDeletes, DeleteArtifacts, Disowned, OwnedBy, Runs
    <2>4. (torn \subseteq Items)'
        BY DEF RollbackDeletes, DeleteArtifacts, OwnedBy
    <2> QED
        BY <2>1, <2>2, <2>3, <2>4
           DEF RollbackDeletes, DeleteArtifacts, setup, store, startup
<1>11. ASSUME NEW r \in Runs, RollbackResets(r) PROVE TypeOK'
    <2> USE <1>11 DEF TypeOK
    <2>1. (run \in [Runs -> RunPcs])'
        BY DEF RollbackResets, Runs, RunPcs, Locked, Working, RollingBack
    <2>2. (owner \subseteq Runs \X Items)'
        BY DEF RollbackResets, ResetMarkers, Disowned, Runs
    <2>3. (marker \in [Items -> Runs \cup {NoRun}])'
        BY DEF RollbackResets, ResetMarkers, Runs
    <2>4. (torn \subseteq Items)'
        BY DEF RollbackResets, ResetMarkers
    <2> QED
        BY <2>1, <2>2, <2>3, <2>4
           DEF RollbackResets, ResetMarkers, setup, store, startup
<1>12. ASSUME NEW r \in Runs, LogError(r) PROVE TypeOK'
    <2> USE <1>12 DEF TypeOK
    <2>1. (call \in [Calls -> {"idle", "starting", "driving", "done", "failed", "lost"}])'
        BY DEF LogError, EndRun, NotLast, Request, Runs
    <2>2. (at \in [Calls -> 1..MaxSets])'
        BY DEF LogError, EndRun, NotLast, Request, Runs
    <2>3. (run \in [Runs -> RunPcs])'
        BY
           DEF LogError, EndRun, NextOf, Runs, Request, NotLast, RunPcs, Locked,
               Working, RollingBack
    <2>4. (reraised \subseteq Runs)'
        BY DEF LogError, EndRun, Forget, Request, NotLast, Runs
    <2>5. (undo \in [Runs -> [read : SUBSET Items, target : SUBSET Items]])'
        BY DEF LogError, EndRun, Forget, Request, NotLast, Nothing, Runs
    <2>6. (latest \in [Pipelines -> [Datasets -> [run : Runs \cup {NoRun}, status : Statuses]]])'
        BY DEF LogError, LogRow, Request, DatasetOf, Runs, Pipelines, Statuses
    <2> QED
        BY <2>1, <2>2, <2>3, <2>4, <2>5, <2>6 DEF LogError, setup, store, startup
<1>13. ASSUME NEW r \in Runs, LogAndRaise(r) PROVE TypeOK'
    <2> USE <1>13 DEF TypeOK
    <2>1. (call \in [Calls -> {"idle", "starting", "driving", "done", "failed", "lost"}])'
        BY DEF LogAndRaise, RaiseRun, Runs
    <2>2. (run \in [Runs -> RunPcs])'
        BY DEF LogAndRaise, RaiseRun, Runs, RunPcs, Locked, Working, RollingBack
    <2>3. (reraised \subseteq Runs)'
        BY DEF LogAndRaise, RaiseRun, Forget, Runs
    <2>4. (undo \in [Runs -> [read : SUBSET Items, target : SUBSET Items]])'
        BY DEF LogAndRaise, RaiseRun, Forget, Nothing, Runs
    <2>5. (latest \in [Pipelines -> [Datasets -> [run : Runs \cup {NoRun}, status : Statuses]]])'
        BY DEF LogAndRaise, LogRow, Request, DatasetOf, Runs, Pipelines, Statuses
    <2> QED
        BY <2>1, <2>2, <2>3, <2>4, <2>5 DEF LogAndRaise, RaiseRun, setup, store, startup
<1>14. ASSUME NEW r \in Runs, CloseGenerator(r) PROVE TypeOK'
    <2> USE <1>14 DEF TypeOK
    <2>1. (run \in [Runs -> RunPcs])'
        BY DEF CloseGenerator, Runs, RunPcs, Locked, Working, RollingBack
    <2> QED
        BY <2>1 DEF CloseGenerator, setup, store, startup
<1>15. ASSUME NEW r \in Runs, StartFails(r) PROVE TypeOK'
    <2> USE <1>15 DEF TypeOK
    <2>1. (call \in [Calls -> {"idle", "starting", "driving", "done", "failed", "lost"}])'
        BY DEF StartFails, RaiseRun, Runs
    <2>2. (run \in [Runs -> RunPcs])'
        BY DEF StartFails, RaiseRun, Runs, RunPcs, Locked, Working, RollingBack
    <2>3. (reraised \subseteq Runs)'
        BY DEF StartFails, RaiseRun, Forget, Runs
    <2>4. (undo \in [Runs -> [read : SUBSET Items, target : SUBSET Items]])'
        BY DEF StartFails, RaiseRun, Forget, Nothing, Runs
    <2>5. (faults \in 0..MaxFaults)'
        BY DEF StartFails, Fault
    <2> QED
        BY <2>1, <2>2, <2>3, <2>4, <2>5 DEF StartFails, RaiseRun, setup, store, startup
<1>16. ASSUME NEW r \in Runs, EntryFails(r) PROVE TypeOK'
    <2> USE <1>16 DEF TypeOK
    <2>1. (call \in [Calls -> {"idle", "starting", "driving", "done", "failed", "lost"}])'
        BY DEF EntryFails, RaiseRun, Runs
    <2>2. (run \in [Runs -> RunPcs])'
        BY DEF EntryFails, RaiseRun, Runs, RunPcs, Locked, Working, RollingBack
    <2>3. (reraised \subseteq Runs)'
        BY DEF EntryFails, RaiseRun, Forget, Runs
    <2>4. (undo \in [Runs -> [read : SUBSET Items, target : SUBSET Items]])'
        BY DEF EntryFails, RaiseRun, Forget, Nothing, Runs
    <2>5. (faults \in 0..MaxFaults)'
        BY DEF EntryFails, Fault
    <2> QED
        BY <2>1, <2>2, <2>3, <2>4, <2>5 DEF EntryFails, RaiseRun, setup, store, startup
<1>17. ASSUME NEW r \in Runs, FlushFails(r) PROVE TypeOK'
    <2> USE <1>17 DEF TypeOK
    <2>1. (run \in [Runs -> RunPcs])'
        BY
           DEF FlushFails, Fails, IsCognify, Request, Runs, RunPcs, Locked, Working,
               RollingBack
    <2>2. (reraised \subseteq Runs)'
        BY DEF FlushFails, Runs
    <2>3. (undo \in [Runs -> [read : SUBSET Items, target : SUBSET Items]])'
        BY DEF FlushFails, Fails, Runs, Processed
    <2>4. (faults \in 0..MaxFaults)'
        BY DEF FlushFails, Fault
    <2> QED
        BY <2>1, <2>2, <2>3, <2>4 DEF FlushFails, setup, store, startup
<1>18. ASSUME NEW r \in Runs, CancelRun(r) PROVE TypeOK'
    <2> USE <1>18 DEF TypeOK
    <2>1. (run \in [Runs -> RunPcs])'
        BY
           DEF CancelRun, Fails, IsCognify, Request, Runs, RunPcs, Locked, Working,
               RollingBack
    <2>2. (reraised \subseteq Runs)'
        BY DEF CancelRun, Runs
    <2>3. (task \in [Runs -> [Items -> TaskPcs]])'
        BY DEF CancelRun, Going, Busy, Runs, TaskPcs
    <2>4. (undo \in [Runs -> [read : SUBSET Items, target : SUBSET Items]])'
        BY DEF CancelRun, Fails, Runs
    <2>5. (faults \in 0..MaxFaults)'
        BY DEF CancelRun, Fault
    <2> QED
        BY <2>1, <2>2, <2>3, <2>4, <2>5 DEF CancelRun, setup, store, startup
<1>19. ASSUME NEW r \in Runs, RollbackFails(r) PROVE TypeOK'
    <2> USE <1>19 DEF TypeOK
    <2>1. (run \in [Runs -> RunPcs])'
        BY DEF RollbackFails, Runs, RunPcs, Locked, Working, RollingBack
    <2>2. (faults \in 0..MaxFaults)'
        BY DEF RollbackFails, Fault
    <2> QED
        BY <2>1, <2>2 DEF RollbackFails, setup, store, startup
<1>20. ASSUME NEW r \in Runs, CleanupFails(r) PROVE TypeOK'
    <2> USE <1>20 DEF TypeOK
    <2>1. (call \in [Calls -> {"idle", "starting", "driving", "done", "failed", "lost"}])'
        BY DEF CleanupFails, RaiseRun, Runs
    <2>2. (run \in [Runs -> RunPcs])'
        BY DEF CleanupFails, RaiseRun, Runs, RunPcs, Locked, Working, RollingBack
    <2>3. (reraised \subseteq Runs)'
        BY DEF CleanupFails, RaiseRun, Forget, Runs
    <2>4. (undo \in [Runs -> [read : SUBSET Items, target : SUBSET Items]])'
        BY DEF CleanupFails, RaiseRun, Forget, Nothing, Runs
    <2>5. (faults \in 0..MaxFaults)'
        BY DEF CleanupFails, Fault
    <2> QED
        BY <2>1, <2>2, <2>3, <2>4, <2>5
           DEF CleanupFails, RaiseRun, setup, store, startup
<1>21. ASSUME NEW r \in Runs, NEW i \in Items, BeginItem(r, i) PROVE TypeOK'
    <2> USE <1>21 DEF TypeOK
    <2>1. (task \in [Runs -> [Items -> TaskPcs]])'
        BY DEF BeginItem, TaskTo, Runs, TaskPcs, Going, Busy
    <2> QED
        BY <2>1 DEF BeginItem, setup, store, startup
<1>22. ASSUME NEW r \in Runs, NEW i \in Items, LedgerItem(r, i) PROVE TypeOK'
    <2> USE <1>22 DEF TypeOK
    <2>1. (task \in [Runs -> [Items -> TaskPcs]])'
        BY DEF LedgerItem, TaskTo, Runs, TaskPcs, Going, Busy
    <2>2. (owner \subseteq Runs \X Items)'
        BY DEF LedgerItem, Owns, Runs
    <2> QED
        BY <2>1, <2>2 DEF LedgerItem, setup, store, startup
<1>23. ASSUME NEW r \in Runs, NEW i \in Items, StoreItem(r, i) PROVE TypeOK'
    <2> USE <1>23 DEF TypeOK
    <2>1. (task \in [Runs -> [Items -> TaskPcs]])'
        BY DEF StoreItem, TaskTo, Runs, TaskPcs, Going, Busy
    <2>2. (graph \subseteq Items)'
        BY DEF StoreItem
    <2>3. (owner \subseteq Runs \X Items)'
        BY DEF StoreItem, Owns, Runs
    <2>4. (torn \subseteq Items)'
        BY DEF StoreItem
    <2>5. (late \subseteq Items)'
        BY DEF StoreItem, NoteLate
    <2> QED
        BY <2>1, <2>2, <2>3, <2>4, <2>5 DEF StoreItem, setup, store, startup
<1>24. ASSUME NEW r \in Runs, NEW i \in Items, MarkItem(r, i) PROVE TypeOK'
    <2> USE <1>24 DEF TypeOK
    <2>1. (task \in [Runs -> [Items -> TaskPcs]])'
        BY DEF MarkItem, TaskTo, Runs, TaskPcs, Going, Busy
    <2>2. (marker \in [Items -> Runs \cup {NoRun}])'
        BY DEF MarkItem, Runs
    <2>3. (late \subseteq Items)'
        BY DEF MarkItem, NoteLate
    <2> QED
        BY <2>1, <2>2, <2>3 DEF MarkItem, setup, store, startup
<1>25. ASSUME NEW r \in Runs, NEW i \in Items, FlushItem(r, i) \/ FinishCustomItem(r, i) PROVE TypeOK'
    <2> USE <1>25 DEF TypeOK
    <2>1. TaskTo(r, i, "ok")
        BY DEF FlushItem, FinishCustomItem
    <2>2. (task \in [Runs -> [Items -> TaskPcs]])'
        BY <2>1 DEF TaskTo, Runs, TaskPcs
    <2> QED
        BY <2>2 DEF FlushItem, FinishCustomItem, setup, store, startup
<1>26. ASSUME NEW r \in Runs, NEW i \in Items, ItemRaises(r, i) PROVE TypeOK'
    <2> USE <1>26 DEF TypeOK
    <2>1. (run \in [Runs -> RunPcs])'
        BY
           DEF ItemRaises, Fails, IsCognify, Request, Runs, RunPcs, Locked, Working,
               RollingBack
    <2>2. (reraised \subseteq Runs)'
        BY DEF ItemRaises, Runs
    <2>3. (task \in [Runs -> [Items -> TaskPcs]])'
        BY DEF ItemRaises, TaskTo, Runs, TaskPcs, Going, Busy
    <2>4. (undo \in [Runs -> [read : SUBSET Items, target : SUBSET Items]])'
        BY DEF ItemRaises, Fails, Runs
    <2>5. (faults \in 0..MaxFaults)'
        BY DEF ItemRaises, Fault
    <2> QED
        BY <2>1, <2>2, <2>3, <2>4, <2>5 DEF ItemRaises, setup, store, startup
<1>27. ASSUME NEW r \in Runs, NEW i \in Items, ItemErrs(r, i) PROVE TypeOK'
    <2> USE <1>27 DEF TypeOK
    <2>1. (task \in [Runs -> [Items -> TaskPcs]])'
        BY DEF ItemErrs, TaskTo, Runs, TaskPcs, Going, Busy
    <2>2. (faults \in 0..MaxFaults)'
        BY DEF ItemErrs, Fault
    <2> QED
        BY <2>1, <2>2 DEF ItemErrs, setup, store, startup
<1>28. ASSUME NEW d \in Datasets, RecoverySkips(d) PROVE TypeOK'
    <2> USE <1>28 DEF TypeOK
    <2>1. (stale \subseteq Datasets)'
        BY DEF RecoverySkips
    <2> QED
        BY <2>1 DEF RecoverySkips, setup, store, startup
<1>29. ASSUME NEW d \in Datasets, RecoveryReads(d) PROVE TypeOK'
    <2> USE <1>29 DEF TypeOK
    <2>1. (undo \in [Runs -> [read : SUBSET Items, target : SUBSET Items]])'
        BY DEF RecoveryReads, ReadArtifacts, OwnedBy, Runs
    <2>2. (recovery \in {<<"pick">>} \cup ({"delete", "reset", "log"} \X Datasets))'
        BY DEF RecoveryReads
    <2> QED
        BY <2>1, <2>2 DEF RecoveryReads, setup, store, startup
<1>30. ASSUME NEW d \in Datasets, RecoveryDeletes(d) PROVE TypeOK'
    <2> USE <1>30 DEF TypeOK
    <2>1. (graph \subseteq Items)'
        BY DEF RecoveryDeletes, DeleteArtifacts, OwnedBy
    <2>2. (owner \subseteq Runs \X Items)'
        BY DEF RecoveryDeletes, DeleteArtifacts, Disowned, OwnedBy, Runs
    <2>3. (recovery \in {<<"pick">>} \cup ({"delete", "reset", "log"} \X Datasets))'
        BY DEF RecoveryDeletes
    <2>4. (torn \subseteq Items)'
        <3>1. StaleRun(d) \in Runs
            BY DEF RecoveryDeletes, StaleInv, RowInv, IsStale, StaleRun, Pipelines
        <3> QED
            BY <3>1 DEF RecoveryDeletes, DeleteArtifacts, OwnedBy
    <2> QED
        BY <2>1, <2>2, <2>3, <2>4
           DEF RecoveryDeletes, DeleteArtifacts, setup, store, startup
<1>31. ASSUME NEW d \in Datasets, RecoveryResets(d) PROVE TypeOK'
    <2> USE <1>31 DEF TypeOK
    <2>1. (owner \subseteq Runs \X Items)'
        BY DEF RecoveryResets, ResetMarkers, Disowned, Runs
    <2>2. (marker \in [Items -> Runs \cup {NoRun}])'
        BY DEF RecoveryResets, ResetMarkers, Runs
    <2>3. (recovery \in {<<"pick">>} \cup ({"delete", "reset", "log"} \X Datasets))'
        BY DEF RecoveryResets
    <2>4. (torn \subseteq Items)'
        BY DEF RecoveryResets, ResetMarkers
    <2> QED
        BY <2>1, <2>2, <2>3, <2>4
           DEF RecoveryResets, ResetMarkers, setup, store, startup
<1>32. ASSUME NEW d \in Datasets, RecoveryLogs(d) PROVE TypeOK'
    <2> USE <1>32 DEF TypeOK
    <2>1. (undo \in [Runs -> [read : SUBSET Items, target : SUBSET Items]])'
        BY DEF RecoveryLogs, Nothing, StaleRun, Runs
    <2>2. (latest \in [Pipelines -> [Datasets -> [run : Runs \cup {NoRun}, status : Statuses]]])'
        BY DEF RecoveryLogs, Runs, Pipelines, Statuses
    <2>3. (stale \subseteq Datasets)'
        BY DEF RecoveryLogs
    <2>4. (recovery \in {<<"pick">>} \cup ({"delete", "reset", "log"} \X Datasets))'
        BY DEF RecoveryLogs
    <2> QED
        BY <2>1, <2>2, <2>3, <2>4 DEF RecoveryLogs, setup, store, startup
<1>33. ASSUME NEW d \in Datasets, RecoveryFails(d) PROVE TypeOK'
    <2> USE <1>33 DEF TypeOK
    <2>1. (undo \in [Runs -> [read : SUBSET Items, target : SUBSET Items]])'
        BY DEF RecoveryFails, Nothing, StaleRun, Runs
    <2>2. (stale \subseteq Datasets)'
        BY DEF RecoveryFails
    <2>3. (recovery \in {<<"pick">>} \cup ({"delete", "reset", "log"} \X Datasets))'
        BY DEF RecoveryFails
    <2>4. (faults \in 0..MaxFaults)'
        BY DEF RecoveryFails, Fault
    <2> QED
        BY <2>1, <2>2, <2>3, <2>4 DEF RecoveryFails, setup, store, startup
<1>34. ASSUME NEW d \in Datasets, AddResets(d) PROVE TypeOK'
    <2> USE <1>34 DEF TypeOK
    <2>1. (latest \in [Pipelines -> [Datasets -> [run : Runs \cup {NoRun}, status : Statuses]]])'
        BY DEF AddResets, Runs, Pipelines, Statuses
    <2> QED
        BY <2>1 DEF AddResets, setup, store, startup
<1>35. ASSUME Crash PROVE TypeOK'
    <2> USE <1>35 DEF TypeOK
    <2>1. (call \in [Calls -> {"idle", "starting", "driving", "done", "failed", "lost"}])'
        BY DEF Crash, Runs
    <2>2. (run \in [Runs -> RunPcs])'
        BY DEF Crash, Locked, Working, RollingBack, Runs, RunPcs
    <2>3. (reraised \subseteq Runs)'
        BY DEF Crash, Runs
    <2>4. (task \in [Runs -> [Items -> TaskPcs]])'
        BY DEF Crash, Going, Busy, Runs, TaskPcs
    <2>5. (undo \in [Runs -> [read : SUBSET Items, target : SUBSET Items]])'
        BY DEF Crash, Nothing, Runs
    <2>6. (process \in {"up", "down", "recovering"})'
        BY DEF Crash
    <2>7. (stale \subseteq Datasets)'
        BY DEF Crash
    <2>8. (recovery \in {<<"pick">>} \cup ({"delete", "reset", "log"} \X Datasets))'
        BY DEF Crash
    <2>9. (faults \in 0..MaxFaults)'
        BY DEF Crash, Fault
    <2> QED
        BY <2>1, <2>2, <2>3, <2>4, <2>5, <2>6, <2>7, <2>8, <2>9
           DEF Crash, setup, store, startup
<1>36. ASSUME Restart PROVE TypeOK'
    <2> USE <1>36 DEF TypeOK
    <2>1. (process \in {"up", "down", "recovering"})'
        BY DEF Restart
    <2>2. (stale \subseteq Datasets)'
        BY DEF Restart, IsStale
    <2> QED
        BY <2>1, <2>2 DEF Restart, setup, store, startup
<1>37. ASSUME RecoveryEnds PROVE TypeOK'
    <2> USE <1>37 DEF TypeOK
    <2>1. (process \in {"up", "down", "recovering"})'
        BY DEF RecoveryEnds
    <2> QED
        BY <2>1 DEF RecoveryEnds, setup, store, startup
<1>38. CASE UNCHANGED <<plan, inGraph, call, at, run, reraised, task, undo, graph, owner, marker, latest, process, stale, recovery, torn, late, faults>>
    BY <1>38
       DEF TypeOK, Runs, Pipelines, Statuses, RunPcs, TaskPcs, Locked, Going, Working,
           RollingBack, Busy
<1>39. CASE UNCHANGED vars
    BY <1>39, <1>38 DEF vars, setup, store, startup
<1> QED
    BY <1>1, <1>2, <1>3, <1>4, <1>5, <1>6, <1>7, <1>8, <1>9, <1>10, <1>11, <1>12, <1>13,
       <1>14, <1>15, <1>16, <1>17, <1>18, <1>19, <1>20, <1>21, <1>22, <1>23, <1>24,
       <1>25, <1>26, <1>27, <1>28, <1>29, <1>30, <1>31, <1>32, <1>33, <1>34, <1>35,
       <1>36, <1>37, <1>39, <1>38 DEF Next, RunStep, RunFails, TaskStep, RecoveryStep

-----------------------------------------------------------------------------
LEMMA ValidInvInit == Init => ValidInv
BY RunsAssumption DEF Init, Nothing, ValidInv, Runs, Request

LEMMA ValidInvStep ==
    TypeOK /\ ValidInv /\ [Next]_vars => ValidInv'
<1> SUFFICES ASSUME TypeOK, ValidInv, [Next]_vars
             PROVE  ValidInv'
    OBVIOUS
<1> USE RunsAssumption
<1>1. ASSUME NEW r \in Runs, NEW i \in Items, BeginItem(r, i) \/ LedgerItem(r, i) \/ StoreItem(r, i) \/
             MarkItem(r, i) \/ FlushItem(r, i) \/ FinishCustomItem(r, i) \/ ItemErrs(r, i)
      PROVE  UNCHANGED <<plan, run>>
    BY <1>1
       DEF BeginItem, LedgerItem, StoreItem, MarkItem, FlushItem, FinishCustomItem, ItemErrs, setup
<1>2. ASSUME NEW d \in Datasets, RecoverySkips(d) \/ RecoveryReads(d) \/ RecoveryDeletes(d) \/
             RecoveryResets(d) \/ RecoveryLogs(d) \/ RecoveryFails(d) \/ AddResets(d)
      PROVE  UNCHANGED <<plan, run>>
    BY <1>2
       DEF RecoverySkips, RecoveryReads, RecoveryDeletes, RecoveryResets, RecoveryLogs,
           RecoveryFails, AddResets, setup
<1>3. ASSUME Restart \/ RecoveryEnds
      PROVE  UNCHANGED <<plan, run>>
    BY <1>3 DEF Restart, RecoveryEnds, setup
<1>4. ASSUME NEW c \in Calls, BeginCall(c) PROVE ValidInv'
    <2>1. \A q \in Runs : run'[q] = run[q] \/ q = <<c, 1>>
        BY <1>4 DEF BeginCall, TypeOK
    <2>2. <<c, 1>> \in Runs /\ Len(Request(<<c, 1>>).sets) >= 1
        BY RequestFacts DEF Runs
    <2> QED
        BY <1>4, <2>1, <2>2 DEF BeginCall, ValidInv, Request, setup
<1>5. ASSUME NEW r \in Runs, AnswerRun(r) PROVE ValidInv'
    <2>1. run[r] = "waiting" /\ FirstAnswer(r, "answered") /\ plan' = plan
        BY <1>5 DEF AnswerRun, setup
    <2>2. "answered" \in RunPcs
        BY DEF RunPcs, Locked
    <2>3. \A q \in Runs : Request(q)' = Request(q) /\ q[2] \in Nat
        BY <2>1 DEF Request, Runs
    <2> QED
        BY <2>1, <2>2, <2>3, FirstAnswerRuns, RequestFacts
           DEF ValidInv, NotLast, Request
<1>6. ASSUME NEW r \in Runs, StartRun(r) PROVE ValidInv'
    <2>1. run[r] = "waiting" /\ FirstAnswer(r, "started") /\ plan' = plan
        BY <1>6 DEF StartRun, setup
    <2>2. "started" \in RunPcs
        BY DEF RunPcs, Locked
    <2>3. \A q \in Runs : Request(q)' = Request(q) /\ q[2] \in Nat
        BY <2>1 DEF Request, Runs
    <2> QED
        BY <2>1, <2>2, <2>3, FirstAnswerRuns, RequestFacts
           DEF ValidInv, NotLast, Request
<1>7. ASSUME NEW r \in Runs, FinishAnswered(r) PROVE ValidInv'
    BY <1>7 DEF FinishAnswered, EndRun, NextOf, Runs, Request, NotLast, setup, ValidInv
<1>8. ASSUME NEW r \in Runs, EnterContext(r) PROVE ValidInv'
    BY <1>8 DEF EnterContext, setup, ValidInv, Runs, Request
<1>9. ASSUME NEW r \in Runs, GatherErrors(r) PROVE ValidInv'
    BY <1>9
       DEF GatherErrors, Fails, IsCognify, Request, Returned, Going, Busy, setup,
           ValidInv, Runs
<1>10. ASSUME NEW r \in Runs, GatherResults(r) PROVE ValidInv'
    BY <1>10 DEF GatherResults, Returned, Going, Busy, setup, ValidInv, Runs, Request
<1>11. ASSUME NEW r \in Runs, Complete(r) PROVE ValidInv'
    BY <1>11 DEF Complete, EndRun, NextOf, Runs, Request, NotLast, setup, ValidInv
<1>12. ASSUME NEW r \in Runs, RollbackReads(r) PROVE ValidInv'
    BY <1>12 DEF RollbackReads, setup, ValidInv, Runs, Request
<1>13. ASSUME NEW r \in Runs, RollbackDeletes(r) PROVE ValidInv'
    BY <1>13 DEF RollbackDeletes, DeleteArtifacts, setup, ValidInv, Runs, Request
<1>14. ASSUME NEW r \in Runs, RollbackResets(r) PROVE ValidInv'
    BY <1>14 DEF RollbackResets, ResetMarkers, setup, ValidInv, Runs, Request
<1>15. ASSUME NEW r \in Runs, LogError(r) PROVE ValidInv'
    BY <1>15 DEF LogError, EndRun, NextOf, Runs, Request, NotLast, setup, ValidInv
<1>16. ASSUME NEW r \in Runs, LogAndRaise(r) PROVE ValidInv'
    BY <1>16 DEF LogAndRaise, RaiseRun, setup, ValidInv, Runs, Request
<1>17. ASSUME NEW r \in Runs, CloseGenerator(r) PROVE ValidInv'
    BY <1>17 DEF CloseGenerator, setup, ValidInv, Runs, Request
<1>18. ASSUME NEW r \in Runs, StartFails(r) PROVE ValidInv'
    BY <1>18 DEF StartFails, RaiseRun, setup, ValidInv, Runs, Request
<1>19. ASSUME NEW r \in Runs, EntryFails(r) PROVE ValidInv'
    BY <1>19 DEF EntryFails, RaiseRun, setup, ValidInv, Runs, Request
<1>20. ASSUME NEW r \in Runs, FlushFails(r) PROVE ValidInv'
    BY <1>20 DEF FlushFails, Fails, IsCognify, Request, setup, ValidInv, Runs
<1>21. ASSUME NEW r \in Runs, CancelRun(r) PROVE ValidInv'
    BY <1>21 DEF CancelRun, Fails, IsCognify, Request, setup, ValidInv, Runs
<1>22. ASSUME NEW r \in Runs, RollbackFails(r) PROVE ValidInv'
    BY <1>22 DEF RollbackFails, RollingBack, setup, ValidInv, Runs, Request
<1>23. ASSUME NEW r \in Runs, CleanupFails(r) PROVE ValidInv'
    BY <1>23 DEF CleanupFails, RaiseRun, RollingBack, setup, ValidInv, Runs, Request
<1>24. ASSUME NEW r \in Runs, NEW i \in Items, ItemRaises(r, i) PROVE ValidInv'
    BY <1>24
       DEF ItemRaises, setup, store, startup, Busy, Fault, Fails, TaskTo,
           IsCognify, Request, ValidInv, Runs
<1>25. ASSUME Crash PROVE ValidInv'
    BY <1>25 DEF Crash, Locked, Working, RollingBack, Runs, setup, ValidInv, Request
<1>26. CASE UNCHANGED <<plan, run>>
    BY <1>26 DEF ValidInv, Runs, Request
<1>27. CASE UNCHANGED vars
    BY <1>27, <1>26 DEF vars, setup, store, startup
<1> QED
    BY <1>1, <1>2, <1>3, <1>4, <1>5, <1>6, <1>7, <1>8, <1>9, <1>10, <1>11, <1>12, <1>13,
       <1>14, <1>15, <1>16, <1>17, <1>18, <1>19, <1>20, <1>21, <1>22, <1>23, <1>24,
       <1>25, <1>27, <1>26 DEF Next, RunStep, RunFails, TaskStep, RecoveryStep

-----------------------------------------------------------------------------
LEMMA IdleInvInit == Init => IdleInv
BY RunsAssumption DEF Init, Nothing, IdleInv, Runs

LEMMA IdleInvStep ==
    TypeOK /\ IdleInv /\ [Next]_vars => IdleInv'
<1> SUFFICES ASSUME TypeOK, IdleInv, [Next]_vars
             PROVE  IdleInv'
    OBVIOUS
<1> USE RunsAssumption
<1>1. ASSUME NEW r \in Runs, NEW i \in Items, BeginItem(r, i) \/ LedgerItem(r, i) \/ StoreItem(r, i) \/
             MarkItem(r, i) \/ FlushItem(r, i) \/ FinishCustomItem(r, i) \/ ItemErrs(r, i)
      PROVE  UNCHANGED <<call, run>>
    BY <1>1 DEF BeginItem, LedgerItem, StoreItem, MarkItem, FlushItem, FinishCustomItem, ItemErrs
<1>2. ASSUME NEW d \in Datasets, RecoverySkips(d) \/ RecoveryReads(d) \/ RecoveryDeletes(d) \/
             RecoveryResets(d) \/ RecoveryLogs(d) \/ RecoveryFails(d) \/ AddResets(d)
      PROVE  UNCHANGED <<call, run>>
    BY <1>2
       DEF RecoverySkips, RecoveryReads, RecoveryDeletes, RecoveryResets, RecoveryLogs,
           RecoveryFails, AddResets
<1>3. ASSUME Restart \/ RecoveryEnds
      PROVE  UNCHANGED <<call, run>>
    BY <1>3 DEF Restart, RecoveryEnds
<1>4. ASSUME NEW c \in Calls, BeginCall(c) PROVE IdleInv'
    <2>1. call'[c] # "idle" /\ \A b \in Calls : b # c => call'[b] = call[b]
        BY <1>4 DEF BeginCall, TypeOK
    <2>2. \A q \in Runs : run'[q] = run[q] \/ q[1] = c
        BY <1>4 DEF BeginCall, TypeOK
    <2> QED
        BY <2>1, <2>2 DEF IdleInv, Runs
<1>5. ASSUME NEW r \in Runs, AnswerRun(r) PROVE IdleInv'
    <2>1. run[r] = "waiting" /\ FirstAnswer(r, "answered") /\ plan' = plan
        BY <1>5 DEF AnswerRun, setup
    <2>2. "answered" \in RunPcs
        BY DEF RunPcs, Locked
    <2>3. call[r[1]] # "idle" /\ call'[r[1]] # "idle"
          /\ \A b \in Calls : b # r[1] => call'[b] = call[b]
        BY <2>1 DEF FirstAnswer, TypeOK, IdleInv, Runs
    <2> QED
        BY <2>1, <2>2, <2>3, FirstAnswerRuns DEF IdleInv, Runs
<1>6. ASSUME NEW r \in Runs, StartRun(r) PROVE IdleInv'
    <2>1. run[r] = "waiting" /\ FirstAnswer(r, "started") /\ plan' = plan
        BY <1>6 DEF StartRun, setup
    <2>2. "started" \in RunPcs
        BY DEF RunPcs, Locked
    <2>3. call[r[1]] # "idle" /\ call'[r[1]] # "idle"
          /\ \A b \in Calls : b # r[1] => call'[b] = call[b]
        BY <2>1 DEF FirstAnswer, TypeOK, IdleInv, Runs
    <2> QED
        BY <2>1, <2>2, <2>3, FirstAnswerRuns DEF IdleInv, Runs
<1>7. ASSUME NEW r \in Runs, FinishAnswered(r) PROVE IdleInv'
    BY <1>7 DEF FinishAnswered, EndRun, NotLast, Request, NextOf, Runs, IdleInv
<1>8. ASSUME NEW r \in Runs, EnterContext(r) PROVE IdleInv'
    BY <1>8 DEF EnterContext, IdleInv, Runs
<1>9. ASSUME NEW r \in Runs, GatherErrors(r) PROVE IdleInv'
    BY <1>9
       DEF GatherErrors, Fails, IsCognify, Request, Returned, Going, Busy, IdleInv, Runs
<1>10. ASSUME NEW r \in Runs, GatherResults(r) PROVE IdleInv'
    BY <1>10 DEF GatherResults, Returned, Going, Busy, IdleInv, Runs
<1>11. ASSUME NEW r \in Runs, Complete(r) PROVE IdleInv'
    BY <1>11 DEF Complete, EndRun, NotLast, Request, NextOf, Runs, IdleInv
<1>12. ASSUME NEW r \in Runs, RollbackReads(r) PROVE IdleInv'
    BY <1>12 DEF RollbackReads, IdleInv, Runs
<1>13. ASSUME NEW r \in Runs, RollbackDeletes(r) PROVE IdleInv'
    BY <1>13 DEF RollbackDeletes, DeleteArtifacts, IdleInv, Runs
<1>14. ASSUME NEW r \in Runs, RollbackResets(r) PROVE IdleInv'
    BY <1>14 DEF RollbackResets, ResetMarkers, IdleInv, Runs
<1>15. ASSUME NEW r \in Runs, LogError(r) PROVE IdleInv'
    BY <1>15 DEF LogError, EndRun, NotLast, Request, NextOf, Runs, IdleInv
<1>16. ASSUME NEW r \in Runs, LogAndRaise(r) PROVE IdleInv'
    BY <1>16 DEF LogAndRaise, RaiseRun, IdleInv, Runs
<1>17. ASSUME NEW r \in Runs, CloseGenerator(r) PROVE IdleInv'
    BY <1>17 DEF CloseGenerator, IdleInv, Runs
<1>18. ASSUME NEW r \in Runs, StartFails(r) PROVE IdleInv'
    BY <1>18 DEF StartFails, RaiseRun, IdleInv, Runs
<1>19. ASSUME NEW r \in Runs, EntryFails(r) PROVE IdleInv'
    BY <1>19 DEF EntryFails, RaiseRun, IdleInv, Runs
<1>20. ASSUME NEW r \in Runs, FlushFails(r) PROVE IdleInv'
    BY <1>20 DEF FlushFails, Fails, IsCognify, Request, IdleInv, Runs
<1>21. ASSUME NEW r \in Runs, CancelRun(r) PROVE IdleInv'
    BY <1>21 DEF CancelRun, Fails, IsCognify, Request, IdleInv, Runs
<1>22. ASSUME NEW r \in Runs, RollbackFails(r) PROVE IdleInv'
    BY <1>22 DEF RollbackFails, RollingBack, IdleInv, Runs
<1>23. ASSUME NEW r \in Runs, CleanupFails(r) PROVE IdleInv'
    BY <1>23 DEF CleanupFails, RaiseRun, RollingBack, IdleInv, Runs
<1>24. ASSUME NEW r \in Runs, NEW i \in Items, ItemRaises(r, i) PROVE IdleInv'
    BY <1>24
       DEF ItemRaises, setup, store, startup, Busy, Fault, Fails, TaskTo,
           IsCognify, Request, IdleInv, Runs
<1>25. ASSUME Crash PROVE IdleInv'
    BY <1>25 DEF Crash, Locked, Working, RollingBack, Runs, IdleInv
<1>26. CASE UNCHANGED <<call, run>>
    BY <1>26 DEF IdleInv, Runs
<1>27. CASE UNCHANGED vars
    BY <1>27, <1>26 DEF vars, setup, store, startup
<1> QED
    BY <1>1, <1>2, <1>3, <1>4, <1>5, <1>6, <1>7, <1>8, <1>9, <1>10, <1>11, <1>12, <1>13,
       <1>14, <1>15, <1>16, <1>17, <1>18, <1>19, <1>20, <1>21, <1>22, <1>23, <1>24,
       <1>25, <1>27, <1>26 DEF Next, RunStep, RunFails, TaskStep, RecoveryStep

-----------------------------------------------------------------------------
LEMMA OrderInvInit == Init => OrderInv
BY RunsAssumption DEF Init, Nothing, OrderInv, Runs, Open, Request

LEMMA OrderInvStep ==
    TypeOK /\ IdleInv /\ OrderInv /\ [Next]_vars => OrderInv'
<1> SUFFICES ASSUME TypeOK, IdleInv, OrderInv, [Next]_vars
             PROVE  OrderInv'
    OBVIOUS
<1> USE RunsAssumption
<1>1. ASSUME NEW r \in Runs, NEW i \in Items, BeginItem(r, i) \/ LedgerItem(r, i) \/ StoreItem(r, i) \/
             MarkItem(r, i) \/ FlushItem(r, i) \/ FinishCustomItem(r, i) \/ ItemErrs(r, i)
      PROVE  UNCHANGED <<plan, run>>
    BY <1>1
       DEF BeginItem, LedgerItem, StoreItem, MarkItem, FlushItem, FinishCustomItem, ItemErrs, setup
<1>2. ASSUME NEW d \in Datasets, RecoverySkips(d) \/ RecoveryReads(d) \/ RecoveryDeletes(d) \/
             RecoveryResets(d) \/ RecoveryLogs(d) \/ RecoveryFails(d) \/ AddResets(d)
      PROVE  UNCHANGED <<plan, run>>
    BY <1>2
       DEF RecoverySkips, RecoveryReads, RecoveryDeletes, RecoveryResets, RecoveryLogs,
           RecoveryFails, AddResets, setup
<1>3. ASSUME Restart \/ RecoveryEnds
      PROVE  UNCHANGED <<plan, run>>
    BY <1>3 DEF Restart, RecoveryEnds, setup
<1>4. ASSUME NEW c \in Calls, BeginCall(c) PROVE OrderInv'
    <2>1. \A q \in Runs : run'[q] = run[q] \/ q = <<c, 1>>
        BY <1>4 DEF BeginCall, TypeOK
    <2>2. \A q \in Runs : q[1] = c => run[q] = "none"
        BY <1>4 DEF BeginCall, IdleInv
    <2>3. \A q \in Runs : q[1] # c => run'[q] = run[q] /\ (Open(q)' => Open(q))
        BY <1>4, <2>1 DEF BeginCall, Open, Request, setup
    <2>4. \A q, b \in Runs : q[1] = b[1] /\ q[2] < b[2] => b # <<c, 1>>
        BY DEF Runs
    <2> QED
        BY <2>1, <2>2, <2>3, <2>4 DEF OrderInv
<1>5. ASSUME NEW r \in Runs, AnswerRun(r) PROVE OrderInv'
    <2>1. run[r] = "waiting" /\ FirstAnswer(r, "answered") /\ plan' = plan
        BY <1>5 DEF AnswerRun, setup
    <2>2. "answered" \in RunPcs
        BY DEF RunPcs, Locked
    <2>3. Request(r)' = Request(r) /\ run'[r] = "answered" /\ Open(r)
        BY <2>1, <2>2, FirstAnswerRuns DEF Request, Open
    <2>4. Request(r).background => ~Open(r)'
        BY <2>3 DEF Open
    <2> QED
        BY <2>1, <2>2, <2>3, <2>4, FirstAnswerRuns, OrderKept
<1>6. ASSUME NEW r \in Runs, StartRun(r) PROVE OrderInv'
    <2>1. run[r] = "waiting" /\ FirstAnswer(r, "started") /\ plan' = plan
        BY <1>6 DEF StartRun, setup
    <2>2. "started" \in RunPcs
        BY DEF RunPcs, Locked
    <2>3. Request(r)' = Request(r) /\ run'[r] = "started" /\ Open(r)
        BY <2>1, <2>2, FirstAnswerRuns DEF Request, Open
    <2>4. Request(r).background => ~Open(r)'
        BY <2>3 DEF Open
    <2> QED
        BY <2>1, <2>2, <2>3, <2>4, FirstAnswerRuns, OrderKept
<1>7. ASSUME NEW r \in Runs, FinishAnswered(r) PROVE OrderInv'
    <2>1. run[r] = "answered" /\ EndRun(r) /\ plan' = plan
        BY <1>7 DEF FinishAnswered, setup
    <2>2. Request(r)' = Request(r) /\ run'[r] = "ended" /\ ~Open(r)'
        BY <2>1, EndRunRuns DEF Request, Open
    <2>3. ~Request(r).background => Open(r)
        BY <2>1 DEF Open
    <2> QED
        BY <2>1, <2>2, <2>3, EndRunRuns, OrderKept
<1>8. ASSUME NEW r \in Runs, EnterContext(r) PROVE OrderInv'
    BY <1>8 DEF EnterContext, setup, OrderInv, Runs, Open, Request
<1>9. ASSUME NEW r \in Runs, GatherErrors(r) PROVE OrderInv'
    BY <1>9
       DEF GatherErrors, Fails, IsCognify, Request, Returned, Going, Busy, setup,
           OrderInv, Runs, Open
<1>10. ASSUME NEW r \in Runs, GatherResults(r) PROVE OrderInv'
    BY <1>10
       DEF GatherResults, Returned, Going, Busy, setup, OrderInv, Runs, Open, Request
<1>11. ASSUME NEW r \in Runs, Complete(r) PROVE OrderInv'
    <2>1. run[r] = "flushing" /\ EndRun(r) /\ plan' = plan
        BY <1>11 DEF Complete, setup
    <2>2. Request(r)' = Request(r) /\ run'[r] = "ended" /\ ~Open(r)'
        BY <2>1, EndRunRuns DEF Request, Open
    <2>3. ~Request(r).background => Open(r)
        BY <2>1 DEF Open
    <2> QED
        BY <2>1, <2>2, <2>3, EndRunRuns, OrderKept
<1>12. ASSUME NEW r \in Runs, RollbackReads(r) PROVE OrderInv'
    BY <1>12 DEF RollbackReads, setup, OrderInv, Runs, Open, Request
<1>13. ASSUME NEW r \in Runs, RollbackDeletes(r) PROVE OrderInv'
    BY <1>13 DEF RollbackDeletes, DeleteArtifacts, setup, OrderInv, Runs, Open, Request
<1>14. ASSUME NEW r \in Runs, RollbackResets(r) PROVE OrderInv'
    BY <1>14 DEF RollbackResets, ResetMarkers, setup, OrderInv, Runs, Open, Request
<1>15. ASSUME NEW r \in Runs, LogError(r) PROVE OrderInv'
    <2>1. run[r] = "erring" /\ EndRun(r) /\ plan' = plan
        BY <1>15 DEF LogError, setup
    <2>2. Request(r)' = Request(r) /\ run'[r] = "ended" /\ ~Open(r)'
        BY <2>1, EndRunRuns DEF Request, Open
    <2>3. ~Request(r).background => Open(r)
        BY <2>1 DEF Open
    <2> QED
        BY <2>1, <2>2, <2>3, EndRunRuns, OrderKept
<1>16. ASSUME NEW r \in Runs, LogAndRaise(r) PROVE OrderInv'
    BY <1>16 DEF LogAndRaise, RaiseRun, setup, OrderInv, Runs, Open, Request
<1>17. ASSUME NEW r \in Runs, CloseGenerator(r) PROVE OrderInv'
    BY <1>17 DEF CloseGenerator, setup, OrderInv, Runs, Open, Request
<1>18. ASSUME NEW r \in Runs, StartFails(r) PROVE OrderInv'
    BY <1>18 DEF StartFails, RaiseRun, setup, OrderInv, Runs, Open, Request
<1>19. ASSUME NEW r \in Runs, EntryFails(r) PROVE OrderInv'
    BY <1>19 DEF EntryFails, RaiseRun, setup, OrderInv, Runs, Open, Request
<1>20. ASSUME NEW r \in Runs, FlushFails(r) PROVE OrderInv'
    BY <1>20 DEF FlushFails, Fails, IsCognify, Request, setup, OrderInv, Runs, Open
<1>21. ASSUME NEW r \in Runs, CancelRun(r) PROVE OrderInv'
    BY <1>21 DEF CancelRun, Fails, IsCognify, Request, setup, OrderInv, Runs, Open
<1>22. ASSUME NEW r \in Runs, RollbackFails(r) PROVE OrderInv'
    BY <1>22 DEF RollbackFails, RollingBack, setup, OrderInv, Runs, Open, Request
<1>23. ASSUME NEW r \in Runs, CleanupFails(r) PROVE OrderInv'
    BY <1>23
       DEF CleanupFails, RaiseRun, RollingBack, setup, OrderInv, Runs, Open, Request
<1>24. ASSUME NEW r \in Runs, NEW i \in Items, ItemRaises(r, i) PROVE OrderInv'
    BY <1>24
       DEF ItemRaises, setup, store, startup, Busy, Fault, Fails, TaskTo,
           IsCognify, Request, OrderInv, Runs, Open
<1>25. ASSUME Crash PROVE OrderInv'
    BY <1>25
       DEF Crash, Runs, setup, store, Locked, Going, Nothing, Fault, Working,
           RollingBack, Busy, OrderInv, Open, Request
<1>26. CASE UNCHANGED <<plan, run>>
    BY <1>26 DEF OrderInv, Runs, Open, Request
<1>27. CASE UNCHANGED vars
    BY <1>27, <1>26 DEF vars, setup, store, startup
<1> QED
    BY <1>1, <1>2, <1>3, <1>4, <1>5, <1>6, <1>7, <1>8, <1>9, <1>10, <1>11, <1>12, <1>13,
       <1>14, <1>15, <1>16, <1>17, <1>18, <1>19, <1>20, <1>21, <1>22, <1>23, <1>24,
       <1>25, <1>27, <1>26 DEF Next, RunStep, RunFails, TaskStep, RecoveryStep

-----------------------------------------------------------------------------
LEMMA LockInvInit == Init => LockInv
BY RunsAssumption DEF Init, Nothing, LockInv, Runs, Locked, DatasetOf, Working, RollingBack, Request

LEMMA LockInvStep ==
    TypeOK /\ LockInv /\ [Next]_vars => LockInv'
<1> SUFFICES ASSUME TypeOK, LockInv, [Next]_vars
             PROVE  LockInv'
    OBVIOUS
<1> USE RunsAssumption
<1>1. ASSUME NEW r \in Runs, NEW i \in Items, BeginItem(r, i) \/ LedgerItem(r, i) \/ StoreItem(r, i) \/
             MarkItem(r, i) \/ FlushItem(r, i) \/ FinishCustomItem(r, i) \/ ItemErrs(r, i)
      PROVE  UNCHANGED <<plan, run>>
    BY <1>1
       DEF BeginItem, LedgerItem, StoreItem, MarkItem, FlushItem, FinishCustomItem, ItemErrs, setup
<1>2. ASSUME NEW d \in Datasets, RecoverySkips(d) \/ RecoveryReads(d) \/ RecoveryDeletes(d) \/
             RecoveryResets(d) \/ RecoveryLogs(d) \/ RecoveryFails(d) \/ AddResets(d)
      PROVE  UNCHANGED <<plan, run>>
    BY <1>2
       DEF RecoverySkips, RecoveryReads, RecoveryDeletes, RecoveryResets, RecoveryLogs,
           RecoveryFails, AddResets, setup
<1>3. ASSUME Restart \/ RecoveryEnds
      PROVE  UNCHANGED <<plan, run>>
    BY <1>3 DEF Restart, RecoveryEnds, setup
<1>4. ASSUME NEW c \in Calls, BeginCall(c) PROVE LockInv'
    BY <1>4
       DEF BeginCall, setup, LockInv, Runs, Locked, DatasetOf, Working, RollingBack,
           Request
<1>5. ASSUME NEW r \in Runs, AnswerRun(r) PROVE LockInv'
    <2>1. run[r] = "waiting" /\ FirstAnswer(r, "answered") /\ plan' = plan
        BY <1>5 DEF AnswerRun, setup
    <2>2. "answered" \in RunPcs
        BY DEF RunPcs, Locked
    <2>3. LockFree(DatasetOf(r)) /\ \A q \in Runs : DatasetOf(q)' = DatasetOf(q)
        BY <1>5, <2>1 DEF AnswerRun, DatasetOf, Request
    <2>4. \A q \in Runs : q # r /\ run'[q] \in Locked => run[q] \in Locked
        BY <2>1, <2>2, FirstAnswerRuns DEF Locked, Working, RollingBack
    <2> QED
        BY <2>3, <2>4 DEF LockInv, LockFree
<1>6. ASSUME NEW r \in Runs, StartRun(r) PROVE LockInv'
    <2>1. run[r] = "waiting" /\ FirstAnswer(r, "started") /\ plan' = plan
        BY <1>6 DEF StartRun, setup
    <2>2. "started" \in RunPcs
        BY DEF RunPcs, Locked
    <2>3. LockFree(DatasetOf(r)) /\ \A q \in Runs : DatasetOf(q)' = DatasetOf(q)
        BY <1>6, <2>1 DEF StartRun, DatasetOf, Request
    <2>4. \A q \in Runs : q # r /\ run'[q] \in Locked => run[q] \in Locked
        BY <2>1, <2>2, FirstAnswerRuns DEF Locked, Working, RollingBack
    <2> QED
        BY <2>3, <2>4 DEF LockInv, LockFree
<1>7. ASSUME NEW r \in Runs, FinishAnswered(r) PROVE LockInv'
    BY <1>7
       DEF FinishAnswered, EndRun, NextOf, Runs, Request, NotLast, setup, LockInv,
           Locked, DatasetOf, Working, RollingBack
<1>8. ASSUME NEW r \in Runs, EnterContext(r) PROVE LockInv'
    BY <1>8
       DEF EnterContext, setup, LockInv, Runs, Locked, DatasetOf, Working, RollingBack,
           Request
<1>9. ASSUME NEW r \in Runs, GatherErrors(r) PROVE LockInv'
    BY <1>9
       DEF GatherErrors, Fails, IsCognify, Request, Returned, Going, Busy, setup,
           LockInv, Runs, Locked, DatasetOf, Working, RollingBack
<1>10. ASSUME NEW r \in Runs, GatherResults(r) PROVE LockInv'
    BY <1>10
       DEF GatherResults, Returned, Going, Busy, setup, LockInv, Runs, Locked,
           DatasetOf, Working, RollingBack, Request
<1>11. ASSUME NEW r \in Runs, Complete(r) PROVE LockInv'
    BY <1>11
       DEF Complete, EndRun, NextOf, Runs, Request, NotLast, setup, LockInv, Locked,
           DatasetOf, Working, RollingBack
<1>12. ASSUME NEW r \in Runs, RollbackReads(r) PROVE LockInv'
    BY <1>12
       DEF RollbackReads, setup, LockInv, Runs, Locked, DatasetOf, Working, RollingBack,
           Request
<1>13. ASSUME NEW r \in Runs, RollbackDeletes(r) PROVE LockInv'
    BY <1>13
       DEF RollbackDeletes, DeleteArtifacts, setup, LockInv, Runs, Locked, DatasetOf,
           Working, RollingBack, Request
<1>14. ASSUME NEW r \in Runs, RollbackResets(r) PROVE LockInv'
    BY <1>14
       DEF RollbackResets, ResetMarkers, setup, LockInv, Runs, Locked, DatasetOf,
           Working, RollingBack, Request
<1>15. ASSUME NEW r \in Runs, LogError(r) PROVE LockInv'
    BY <1>15
       DEF LogError, EndRun, NextOf, Runs, Request, NotLast, setup, LockInv, Locked,
           DatasetOf, Working, RollingBack
<1>16. ASSUME NEW r \in Runs, LogAndRaise(r) PROVE LockInv'
    BY <1>16
       DEF LogAndRaise, RaiseRun, setup, LockInv, Runs, Locked, DatasetOf, Working,
           RollingBack, Request
<1>17. ASSUME NEW r \in Runs, CloseGenerator(r) PROVE LockInv'
    BY <1>17
       DEF CloseGenerator, setup, LockInv, Runs, Locked, DatasetOf, Working,
           RollingBack, Request
<1>18. ASSUME NEW r \in Runs, StartFails(r) PROVE LockInv'
    BY <1>18
       DEF StartFails, RaiseRun, setup, LockInv, Runs, Locked, DatasetOf, Working,
           RollingBack, Request
<1>19. ASSUME NEW r \in Runs, EntryFails(r) PROVE LockInv'
    BY <1>19
       DEF EntryFails, RaiseRun, setup, LockInv, Runs, Locked, DatasetOf, Working,
           RollingBack, Request
<1>20. ASSUME NEW r \in Runs, FlushFails(r) PROVE LockInv'
    BY <1>20
       DEF FlushFails, Fails, IsCognify, Request, setup, LockInv, Runs, Locked,
           DatasetOf, Working, RollingBack
<1>21. ASSUME NEW r \in Runs, CancelRun(r) PROVE LockInv'
    BY <1>21
       DEF CancelRun, Fails, IsCognify, Request, setup, LockInv, Runs, Locked,
           DatasetOf, Working, RollingBack
<1>22. ASSUME NEW r \in Runs, RollbackFails(r) PROVE LockInv'
    BY <1>22
       DEF RollbackFails, RollingBack, setup, LockInv, Runs, Locked, DatasetOf, Working,
           Request
<1>23. ASSUME NEW r \in Runs, CleanupFails(r) PROVE LockInv'
    BY <1>23
       DEF CleanupFails, RaiseRun, RollingBack, setup, LockInv, Runs, Locked, DatasetOf,
           Working, Request
<1>24. ASSUME NEW r \in Runs, NEW i \in Items, ItemRaises(r, i) PROVE LockInv'
    BY <1>24
       DEF ItemRaises, setup, store, startup, Busy, Fault, Fails, TaskTo,
           IsCognify, Request, LockInv, Runs, Locked, DatasetOf, Working, RollingBack
<1>25. ASSUME Crash PROVE LockInv'
    BY <1>25
       DEF Crash, Locked, Working, RollingBack, Runs, setup, LockInv, DatasetOf, Request
<1>26. CASE UNCHANGED <<plan, run>>
    BY <1>26 DEF LockInv, Runs, Locked, DatasetOf, Working, RollingBack, Request
<1>27. CASE UNCHANGED vars
    BY <1>27, <1>26 DEF vars, setup, store, startup
<1> QED
    BY <1>1, <1>2, <1>3, <1>4, <1>5, <1>6, <1>7, <1>8, <1>9, <1>10, <1>11, <1>12, <1>13,
       <1>14, <1>15, <1>16, <1>17, <1>18, <1>19, <1>20, <1>21, <1>22, <1>23, <1>24,
       <1>25, <1>27, <1>26 DEF Next, RunStep, RunFails, TaskStep, RecoveryStep

-----------------------------------------------------------------------------
LEMMA ProcessInvInit == Init => ProcessInv
BY RunsAssumption DEF Init, Nothing, ProcessInv, Runs, Locked, Going, Working, RollingBack, Busy

LEMMA ProcessInvStep ==
    TypeOK /\ ProcessInv /\ [Next]_vars => ProcessInv'
<1> SUFFICES ASSUME TypeOK, ProcessInv, [Next]_vars
             PROVE  ProcessInv'
    OBVIOUS
<1> USE RunsAssumption
<1>1. ASSUME NEW d \in Datasets, RecoverySkips(d) \/ RecoveryReads(d) \/ RecoveryDeletes(d) \/
             RecoveryResets(d) \/ RecoveryLogs(d) \/ RecoveryFails(d) \/ AddResets(d)
      PROVE  UNCHANGED <<run, task, process>>
    BY <1>1
       DEF RecoverySkips, RecoveryReads, RecoveryDeletes, RecoveryResets, RecoveryLogs,
           RecoveryFails, AddResets, startup
<1>2. ASSUME NEW c \in Calls, BeginCall(c) PROVE ProcessInv'
    BY <1>2
       DEF BeginCall, startup, ProcessInv, Runs, Locked, Going, Working, RollingBack,
           Busy
<1>3. ASSUME NEW r \in Runs, AnswerRun(r) PROVE ProcessInv'
    <2>1. run[r] = "waiting" /\ FirstAnswer(r, "answered") /\ plan' = plan
        BY <1>3 DEF AnswerRun, setup
    <2>2. "answered" \in RunPcs
        BY DEF RunPcs, Locked
    <2>3. process = "up" /\ process' = process
        BY <1>3, <2>1 DEF AnswerRun, ProcessInv, startup
    <2> QED
        BY <2>3 DEF ProcessInv
<1>4. ASSUME NEW r \in Runs, StartRun(r) PROVE ProcessInv'
    <2>1. run[r] = "waiting" /\ FirstAnswer(r, "started") /\ plan' = plan
        BY <1>4 DEF StartRun, setup
    <2>2. "started" \in RunPcs
        BY DEF RunPcs, Locked
    <2>3. process = "up" /\ process' = process
        BY <1>4, <2>1 DEF StartRun, ProcessInv, startup
    <2> QED
        BY <2>3 DEF ProcessInv
<1>5. ASSUME NEW r \in Runs, FinishAnswered(r) PROVE ProcessInv'
    BY <1>5
       DEF FinishAnswered, EndRun, NextOf, Runs, Request, NotLast, startup, ProcessInv,
           Locked, Going, Working, RollingBack, Busy
<1>6. ASSUME NEW r \in Runs, EnterContext(r) PROVE ProcessInv'
    BY <1>6
       DEF EnterContext, ItemsIn, DatasetOf, Request, startup, ProcessInv, Runs, Locked,
           Going, Working, RollingBack, Busy
<1>7. ASSUME NEW r \in Runs, GatherErrors(r) PROVE ProcessInv'
    BY <1>7
       DEF GatherErrors, Fails, IsCognify, Request, Returned, Going, Busy, startup,
           ProcessInv, Runs, Locked, Working, RollingBack
<1>8. ASSUME NEW r \in Runs, GatherResults(r) PROVE ProcessInv'
    BY <1>8
       DEF GatherResults, Returned, Going, Busy, startup, ProcessInv, Runs, Locked,
           Working, RollingBack
<1>9. ASSUME NEW r \in Runs, Complete(r) PROVE ProcessInv'
    BY <1>9
       DEF Complete, EndRun, NextOf, Runs, Request, NotLast, startup, ProcessInv,
           Locked, Going, Working, RollingBack, Busy
<1>10. ASSUME NEW r \in Runs, RollbackReads(r) PROVE ProcessInv'
    BY <1>10
       DEF RollbackReads, startup, ProcessInv, Runs, Locked, Going, Working,
           RollingBack, Busy
<1>11. ASSUME NEW r \in Runs, RollbackDeletes(r) PROVE ProcessInv'
    BY <1>11
       DEF RollbackDeletes, DeleteArtifacts, startup, ProcessInv, Runs, Locked, Going,
           Working, RollingBack, Busy
<1>12. ASSUME NEW r \in Runs, RollbackResets(r) PROVE ProcessInv'
    BY <1>12
       DEF RollbackResets, ResetMarkers, startup, ProcessInv, Runs, Locked, Going,
           Working, RollingBack, Busy
<1>13. ASSUME NEW r \in Runs, LogError(r) PROVE ProcessInv'
    BY <1>13
       DEF LogError, EndRun, NextOf, Runs, Request, NotLast, startup, ProcessInv,
           Locked, Going, Working, RollingBack, Busy
<1>14. ASSUME NEW r \in Runs, LogAndRaise(r) PROVE ProcessInv'
    BY <1>14
       DEF LogAndRaise, RaiseRun, startup, ProcessInv, Runs, Locked, Going, Working,
           RollingBack, Busy
<1>15. ASSUME NEW r \in Runs, CloseGenerator(r) PROVE ProcessInv'
    BY <1>15
       DEF CloseGenerator, startup, ProcessInv, Runs, Locked, Going, Working,
           RollingBack, Busy
<1>16. ASSUME NEW r \in Runs, StartFails(r) PROVE ProcessInv'
    BY <1>16
       DEF StartFails, RaiseRun, startup, ProcessInv, Runs, Locked, Going, Working,
           RollingBack, Busy
<1>17. ASSUME NEW r \in Runs, EntryFails(r) PROVE ProcessInv'
    BY <1>17
       DEF EntryFails, RaiseRun, startup, ProcessInv, Runs, Locked, Going, Working,
           RollingBack, Busy
<1>18. ASSUME NEW r \in Runs, FlushFails(r) PROVE ProcessInv'
    BY <1>18
       DEF FlushFails, Fails, IsCognify, Request, startup, ProcessInv, Runs, Locked,
           Going, Working, RollingBack, Busy
<1>19. ASSUME NEW r \in Runs, CancelRun(r) PROVE ProcessInv'
    BY <1>19
       DEF CancelRun, Fails, IsCognify, Request, Going, Busy, startup, ProcessInv, Runs,
           Locked, Working, RollingBack
<1>20. ASSUME NEW r \in Runs, RollbackFails(r) PROVE ProcessInv'
    BY <1>20
       DEF RollbackFails, RollingBack, startup, ProcessInv, Runs, Locked, Going,
           Working, Busy
<1>21. ASSUME NEW r \in Runs, CleanupFails(r) PROVE ProcessInv'
    BY <1>21
       DEF CleanupFails, RaiseRun, RollingBack, startup, ProcessInv, Runs, Locked,
           Going, Working, Busy
<1>22. ASSUME NEW r \in Runs, NEW i \in Items, BeginItem(r, i) PROVE ProcessInv'
    BY <1>22
       DEF BeginItem, TaskTo, startup, ProcessInv, Runs, Locked, Going, Working,
           RollingBack, Busy
<1>23. ASSUME NEW r \in Runs, NEW i \in Items, LedgerItem(r, i) PROVE ProcessInv'
    BY <1>23
       DEF LedgerItem, TaskTo, startup, ProcessInv, Runs, Locked, Going, Working,
           RollingBack, Busy
<1>24. ASSUME NEW r \in Runs, NEW i \in Items, StoreItem(r, i) PROVE ProcessInv'
    BY <1>24
       DEF StoreItem, TaskTo, startup, ProcessInv, Runs, Locked, Going, Working,
           RollingBack, Busy
<1>25. ASSUME NEW r \in Runs, NEW i \in Items, MarkItem(r, i) PROVE ProcessInv'
    BY <1>25
       DEF MarkItem, TaskTo, startup, ProcessInv, Runs, Locked, Going, Working,
           RollingBack, Busy
<1>26. ASSUME NEW r \in Runs, NEW i \in Items, FlushItem(r, i) \/ FinishCustomItem(r, i) PROVE ProcessInv'
    BY <1>26
       DEF FlushItem, FinishCustomItem, TaskTo, startup, ProcessInv, Runs, Locked, Going, Working,
           RollingBack, Busy
<1>27. ASSUME NEW r \in Runs, NEW i \in Items, ItemRaises(r, i) PROVE ProcessInv'
    BY <1>27
       DEF ItemRaises, Fails, IsCognify, Request, TaskTo, Busy, startup, ProcessInv,
           Runs, Locked, Going, Working, RollingBack
<1>28. ASSUME NEW r \in Runs, NEW i \in Items, ItemErrs(r, i) PROVE ProcessInv'
    BY <1>28
       DEF ItemErrs, TaskTo, Busy, startup, ProcessInv, Runs, Locked, Going, Working,
           RollingBack
<1>29. ASSUME Crash PROVE ProcessInv'
    BY <1>29 DEF Crash, Locked, Working, RollingBack, Runs, Going, Busy, ProcessInv
<1>30. ASSUME Restart PROVE ProcessInv'
    BY <1>30 DEF Restart, ProcessInv, Runs, Locked, Going, Working, RollingBack, Busy
<1>31. ASSUME RecoveryEnds PROVE ProcessInv'
    BY <1>31
       DEF RecoveryEnds, ProcessInv, Runs, Locked, Going, Working, RollingBack, Busy
<1>32. CASE UNCHANGED <<run, task, process>>
    BY <1>32 DEF ProcessInv, Runs, Locked, Going, Working, RollingBack, Busy
<1>33. CASE UNCHANGED vars
    BY <1>33, <1>32 DEF vars, setup, store, startup
<1> QED
    BY <1>1, <1>2, <1>3, <1>4, <1>5, <1>6, <1>7, <1>8, <1>9, <1>10, <1>11, <1>12, <1>13,
       <1>14, <1>15, <1>16, <1>17, <1>18, <1>19, <1>20, <1>21, <1>22, <1>23, <1>24,
       <1>25, <1>26, <1>27, <1>28, <1>29, <1>30, <1>31, <1>33, <1>32 DEF Next, RunStep,
       RunFails, TaskStep, RecoveryStep

-----------------------------------------------------------------------------
LEMMA RowInvInit == Init => RowInv
BY RunsAssumption DEF Init, Nothing, RowInv, Runs, Pipelines, Request, DatasetOf

LEMMA RowInvStep ==
    TypeOK /\ ValidInv /\ RowInv /\ [Next]_vars => RowInv'
<1> SUFFICES ASSUME TypeOK, ValidInv, RowInv, [Next]_vars
             PROVE  RowInv'
    OBVIOUS
<1> USE RunsAssumption
<1>1. ASSUME NEW r \in Runs, NEW i \in Items, BeginItem(r, i) \/ LedgerItem(r, i) \/ StoreItem(r, i) \/
             MarkItem(r, i) \/ FlushItem(r, i) \/ FinishCustomItem(r, i) \/ ItemErrs(r, i)
      PROVE  UNCHANGED <<plan, run, latest>>
    BY <1>1
       DEF BeginItem, LedgerItem, StoreItem, MarkItem, FlushItem, FinishCustomItem, ItemErrs, setup
<1>2. ASSUME NEW d \in Datasets, RecoverySkips(d) \/ RecoveryReads(d) \/ RecoveryDeletes(d) \/
             RecoveryResets(d) \/ RecoveryFails(d)
      PROVE  UNCHANGED <<plan, run, latest>>
    BY <1>2
       DEF RecoverySkips, RecoveryReads, RecoveryDeletes, RecoveryResets, RecoveryFails,
           setup
<1>3. ASSUME Restart \/ RecoveryEnds
      PROVE  UNCHANGED <<plan, run, latest>>
    BY <1>3 DEF Restart, RecoveryEnds, setup
<1>4. ASSUME NEW c \in Calls, BeginCall(c) PROVE RowInv'
    <2>1. plan' = plan /\ latest' = latest
        BY <1>4 DEF BeginCall, setup
    <2>2. \A q \in Runs : run[q] # "none" => run'[q] # "none"
        BY <1>4 DEF BeginCall, setup, store, startup, TypeOK
    <2> QED
        BY <2>1, <2>2, RowKept
<1>5. ASSUME NEW r \in Runs, AnswerRun(r) PROVE RowInv'
    <2>1. plan' = plan /\ latest' = latest
        BY <1>5 DEF AnswerRun, setup
    <2>2. \A q \in Runs : run[q] # "none" => run'[q] # "none"
        BY <1>5
           DEF AnswerRun, setup, store, startup, FirstAnswer, Runs, NextOf, Locked,
               Working, RollingBack, TypeOK
    <2> QED
        BY <2>1, <2>2, RowKept
<1>6. ASSUME NEW r \in Runs, StartRun(r) PROVE RowInv'
    <2>1. run[r] = "waiting" /\ LogRow(r, "started") /\ plan' = plan /\ "started" \in Statuses
        BY <1>6 DEF StartRun, Statuses, setup
    <2>2. r[2] <= Len(Request(r).sets)
        BY <2>1 DEF ValidInv
    <2>3. \A q \in Runs : Request(q)' = Request(q) /\ DatasetOf(q)' = DatasetOf(q)
        BY <2>1 DEF Request, DatasetOf
    <2>4. \A q \in Runs : run[q] # "none" => run'[q] # "none"
        BY <1>6 DEF StartRun, FirstAnswer, TypeOK
    <2>5. \A p \in Pipelines, d \in Datasets :
              \/ latest'[p][d] = latest[p][d]
              \/ /\ latest'[p][d] = [run |-> r, status |-> "started"]
                 /\ p = Request(r).pipeline /\ d = DatasetOf(r)
        BY <2>1, <2>2, NewRow
    <2>6. run[r] # "none" /\ plan' = plan
        BY <2>1
    <2> QED
        BY <2>4, <2>5, <2>6 DEF RowInv, Request, DatasetOf
<1>7. ASSUME NEW r \in Runs, FinishAnswered(r) PROVE RowInv'
    <2>1. plan' = plan /\ latest' = latest
        BY <1>7 DEF FinishAnswered, setup
    <2>2. \A q \in Runs : run[q] # "none" => run'[q] # "none"
        BY <1>7
           DEF FinishAnswered, setup, store, startup, Driven, EndRun, Runs, NextOf,
               TypeOK
    <2> QED
        BY <2>1, <2>2, RowKept
<1>8. ASSUME NEW r \in Runs, EnterContext(r) PROVE RowInv'
    <2>1. plan' = plan /\ latest' = latest
        BY <1>8 DEF EnterContext, setup
    <2>2. \A q \in Runs : run[q] # "none" => run'[q] # "none"
        BY <1>8 DEF EnterContext, setup, store, startup, Driven, TypeOK
    <2> QED
        BY <2>1, <2>2, RowKept
<1>9. ASSUME NEW r \in Runs, GatherErrors(r) PROVE RowInv'
    <2>1. plan' = plan /\ latest' = latest
        BY <1>9 DEF GatherErrors, setup
    <2>2. \A q \in Runs : run[q] # "none" => run'[q] # "none"
        BY <1>9 DEF GatherErrors, setup, store, startup, Fails, Going, Busy, TypeOK
    <2> QED
        BY <2>1, <2>2, RowKept
<1>10. ASSUME NEW r \in Runs, GatherResults(r) PROVE RowInv'
    <2>1. plan' = plan /\ latest' = latest
        BY <1>10 DEF GatherResults, setup
    <2>2. \A q \in Runs : run[q] # "none" => run'[q] # "none"
        BY <1>10 DEF GatherResults, setup, store, startup, Going, Busy, TypeOK
    <2> QED
        BY <2>1, <2>2, RowKept
<1>11. ASSUME NEW r \in Runs, Complete(r) PROVE RowInv'
    <2>1. run[r] = "flushing" /\ LogRow(r, "completed") /\ plan' = plan /\ "completed" \in Statuses
        BY <1>11 DEF Complete, Statuses, setup
    <2>2. r[2] <= Len(Request(r).sets)
        BY <2>1 DEF ValidInv
    <2>3. \A q \in Runs : Request(q)' = Request(q) /\ DatasetOf(q)' = DatasetOf(q)
        BY <2>1 DEF Request, DatasetOf
    <2>4. \A q \in Runs : run[q] # "none" => run'[q] # "none"
        BY <1>11 DEF Complete, EndRun, TypeOK
    <2>5. \A p \in Pipelines, d \in Datasets :
              \/ latest'[p][d] = latest[p][d]
              \/ /\ latest'[p][d] = [run |-> r, status |-> "completed"]
                 /\ p = Request(r).pipeline /\ d = DatasetOf(r)
        BY <2>1, <2>2, NewRow
    <2>6. run[r] # "none" /\ plan' = plan
        BY <2>1
    <2> QED
        BY <2>4, <2>5, <2>6 DEF RowInv, Request, DatasetOf
<1>12. ASSUME NEW r \in Runs, RollbackReads(r) PROVE RowInv'
    <2>1. plan' = plan /\ latest' = latest
        BY <1>12 DEF RollbackReads, setup
    <2>2. \A q \in Runs : run[q] # "none" => run'[q] # "none"
        BY <1>12
           DEF RollbackReads, setup, store, startup, ReadArtifacts, OwnedBy, TypeOK
    <2> QED
        BY <2>1, <2>2, RowKept
<1>13. ASSUME NEW r \in Runs, RollbackDeletes(r) PROVE RowInv'
    <2>1. plan' = plan /\ latest' = latest
        BY <1>13 DEF RollbackDeletes, setup
    <2>2. \A q \in Runs : run[q] # "none" => run'[q] # "none"
        BY <1>13
           DEF RollbackDeletes, setup, startup, DeleteArtifacts, OwnedBy, Disowned,
               TypeOK
    <2> QED
        BY <2>1, <2>2, RowKept
<1>14. ASSUME NEW r \in Runs, RollbackResets(r) PROVE RowInv'
    <2>1. plan' = plan /\ latest' = latest
        BY <1>14 DEF RollbackResets, setup
    <2>2. \A q \in Runs : run[q] # "none" => run'[q] # "none"
        BY <1>14 DEF RollbackResets, setup, startup, ResetMarkers, Disowned, TypeOK
    <2> QED
        BY <2>1, <2>2, RowKept
<1>15. ASSUME NEW r \in Runs, LogError(r) PROVE RowInv'
    <2>1. run[r] = "erring" /\ LogRow(r, "errored") /\ plan' = plan /\ "errored" \in Statuses
        BY <1>15 DEF LogError, Statuses, setup
    <2>2. r[2] <= Len(Request(r).sets)
        BY <2>1 DEF ValidInv
    <2>3. \A q \in Runs : Request(q)' = Request(q) /\ DatasetOf(q)' = DatasetOf(q)
        BY <2>1 DEF Request, DatasetOf
    <2>4. \A q \in Runs : run[q] # "none" => run'[q] # "none"
        BY <1>15 DEF LogError, EndRun, TypeOK
    <2>5. \A p \in Pipelines, d \in Datasets :
              \/ latest'[p][d] = latest[p][d]
              \/ /\ latest'[p][d] = [run |-> r, status |-> "errored"]
                 /\ p = Request(r).pipeline /\ d = DatasetOf(r)
        BY <2>1, <2>2, NewRow
    <2>6. run[r] # "none" /\ plan' = plan
        BY <2>1
    <2> QED
        BY <2>4, <2>5, <2>6 DEF RowInv, Request, DatasetOf
<1>16. ASSUME NEW r \in Runs, LogAndRaise(r) PROVE RowInv'
    <2>1. run[r] = "erring" /\ LogRow(r, "errored") /\ plan' = plan /\ "errored" \in Statuses
        BY <1>16 DEF LogAndRaise, Statuses, setup
    <2>2. r[2] <= Len(Request(r).sets)
        BY <2>1 DEF ValidInv
    <2>3. \A q \in Runs : Request(q)' = Request(q) /\ DatasetOf(q)' = DatasetOf(q)
        BY <2>1 DEF Request, DatasetOf
    <2>4. \A q \in Runs : run[q] # "none" => run'[q] # "none"
        BY <1>16 DEF LogAndRaise, RaiseRun, TypeOK
    <2>5. \A p \in Pipelines, d \in Datasets :
              \/ latest'[p][d] = latest[p][d]
              \/ /\ latest'[p][d] = [run |-> r, status |-> "errored"]
                 /\ p = Request(r).pipeline /\ d = DatasetOf(r)
        BY <2>1, <2>2, NewRow
    <2>6. run[r] # "none" /\ plan' = plan
        BY <2>1
    <2> QED
        BY <2>4, <2>5, <2>6 DEF RowInv, Request, DatasetOf
<1>17. ASSUME NEW r \in Runs, CloseGenerator(r) PROVE RowInv'
    <2>1. plan' = plan /\ latest' = latest
        BY <1>17 DEF CloseGenerator, setup
    <2>2. \A q \in Runs : run[q] # "none" => run'[q] # "none"
        BY <1>17 DEF CloseGenerator, setup, store, startup, TypeOK
    <2> QED
        BY <2>1, <2>2, RowKept
<1>18. ASSUME NEW r \in Runs, StartFails(r) PROVE RowInv'
    <2>1. plan' = plan /\ latest' = latest
        BY <1>18 DEF StartFails, setup
    <2>2. \A q \in Runs : run[q] # "none" => run'[q] # "none"
        BY <1>18 DEF StartFails, setup, store, startup, Fault, RaiseRun, TypeOK
    <2> QED
        BY <2>1, <2>2, RowKept
<1>19. ASSUME NEW r \in Runs, EntryFails(r) PROVE RowInv'
    <2>1. plan' = plan /\ latest' = latest
        BY <1>19 DEF EntryFails, setup
    <2>2. \A q \in Runs : run[q] # "none" => run'[q] # "none"
        BY <1>19 DEF EntryFails, setup, store, startup, Fault, Driven, RaiseRun, TypeOK
    <2> QED
        BY <2>1, <2>2, RowKept
<1>20. ASSUME NEW r \in Runs, FlushFails(r) PROVE RowInv'
    <2>1. plan' = plan /\ latest' = latest
        BY <1>20 DEF FlushFails, setup
    <2>2. \A q \in Runs : run[q] # "none" => run'[q] # "none"
        BY <1>20 DEF FlushFails, setup, store, startup, Fault, Fails, TypeOK
    <2> QED
        BY <2>1, <2>2, RowKept
<1>21. ASSUME NEW r \in Runs, CancelRun(r) PROVE RowInv'
    <2>1. plan' = plan /\ latest' = latest
        BY <1>21 DEF CancelRun, setup
    <2>2. \A q \in Runs : run[q] # "none" => run'[q] # "none"
        BY <1>21 DEF CancelRun, setup, store, startup, Going, Fault, Fails, Busy, TypeOK
    <2> QED
        BY <2>1, <2>2, RowKept
<1>22. ASSUME NEW r \in Runs, RollbackFails(r) PROVE RowInv'
    <2>1. plan' = plan /\ latest' = latest
        BY <1>22 DEF RollbackFails, setup
    <2>2. \A q \in Runs : run[q] # "none" => run'[q] # "none"
        BY <1>22 DEF RollbackFails, setup, store, startup, RollingBack, Fault, TypeOK
    <2> QED
        BY <2>1, <2>2, RowKept
<1>23. ASSUME NEW r \in Runs, CleanupFails(r) PROVE RowInv'
    <2>1. plan' = plan /\ latest' = latest
        BY <1>23 DEF CleanupFails, setup
    <2>2. \A q \in Runs : run[q] # "none" => run'[q] # "none"
        BY <1>23
           DEF CleanupFails, setup, store, startup, RollingBack, Fault, RaiseRun, TypeOK
    <2> QED
        BY <2>1, <2>2, RowKept
<1>24. ASSUME NEW r \in Runs, NEW i \in Items, ItemRaises(r, i) PROVE RowInv'
    <2>1. plan' = plan /\ latest' = latest
        BY <1>24 DEF ItemRaises, setup
    <2>2. \A q \in Runs : run[q] # "none" => run'[q] # "none"
        BY <1>24
           DEF ItemRaises, setup, store, startup, Busy, Fault, Fails, TaskTo,
               TypeOK
    <2> QED
        BY <2>1, <2>2, RowKept
<1>25. ASSUME NEW d \in Datasets, RecoveryLogs(d) PROVE RowInv'
    <2>1. UNCHANGED <<run, plan>>
        BY <1>25 DEF RecoveryLogs, setup
    <2>2. \A p \in Pipelines, e \in Datasets :
              latest'[p][e] = latest[p][e] \/ latest'[p][e].status = "initiated"
        BY <1>25 DEF RecoveryLogs, TypeOK, Pipelines
    <2> QED
        BY <2>1, <2>2 DEF RowInv, Request, DatasetOf
<1>26. ASSUME NEW d \in Datasets, AddResets(d) PROVE RowInv'
    <2>1. UNCHANGED <<run, plan>>
        BY <1>26 DEF AddResets, setup
    <2>2. \A p \in Pipelines, e \in Datasets :
              latest'[p][e] = latest[p][e] \/ latest'[p][e].status = "initiated"
        BY <1>26 DEF AddResets, TypeOK, Pipelines
    <2> QED
        BY <2>1, <2>2 DEF RowInv, Request, DatasetOf
<1>27. ASSUME Crash PROVE RowInv'
    <2>1. plan' = plan /\ latest' = latest
        BY <1>27 DEF Crash, setup
    <2>2. \A q \in Runs : run[q] # "none" => run'[q] # "none"
        BY <1>27
           DEF Crash, Runs, setup, store, Locked, Going, Fault, Working, RollingBack,
               Busy, TypeOK
    <2> QED
        BY <2>1, <2>2, RowKept
<1>28. CASE UNCHANGED <<plan, run, latest>>
    BY <1>28 DEF RowInv, Runs, Pipelines, Request, DatasetOf
<1>29. CASE UNCHANGED vars
    BY <1>29, <1>28 DEF vars, setup, store, startup
<1> QED
    BY <1>1, <1>2, <1>3, <1>4, <1>5, <1>6, <1>7, <1>8, <1>9, <1>10, <1>11, <1>12, <1>13,
       <1>14, <1>15, <1>16, <1>17, <1>18, <1>19, <1>20, <1>21, <1>22, <1>23, <1>24,
       <1>25, <1>26, <1>27, <1>29, <1>28 DEF Next, RunStep, RunFails, TaskStep,
       RecoveryStep

-----------------------------------------------------------------------------
LEMMA StaleInvInit == Init => StaleInv
BY RunsAssumption DEF Init, Nothing, StaleInv, IsStale

LEMMA StaleInvStep ==
    TypeOK /\ ProcessInv /\ RowInv /\ StaleInv /\ [Next]_vars => StaleInv'
<1> SUFFICES ASSUME TypeOK, ProcessInv, RowInv, StaleInv, [Next]_vars
             PROVE  StaleInv'
    OBVIOUS
<1> USE RunsAssumption
<1>1. ASSUME NEW c \in Calls, BeginCall(c)
      PROVE  UNCHANGED <<latest, process, stale, recovery>>
    BY <1>1 DEF BeginCall, startup
<1>2. ASSUME NEW r \in Runs, AnswerRun(r) \/ FinishAnswered(r) \/ EnterContext(r) \/ GatherErrors(r) \/
             GatherResults(r) \/ RollbackReads(r) \/ RollbackDeletes(r) \/ RollbackResets(r) \/
             CloseGenerator(r) \/ StartFails(r) \/ EntryFails(r) \/ FlushFails(r) \/ CancelRun(r) \/
             RollbackFails(r) \/ CleanupFails(r)
      PROVE  UNCHANGED <<latest, process, stale, recovery>>
    BY <1>2
       DEF AnswerRun, FinishAnswered, EnterContext, GatherErrors, GatherResults,
           RollbackReads, RollbackDeletes, RollbackResets, CloseGenerator, StartFails,
           EntryFails, FlushFails, CancelRun, RollbackFails, CleanupFails, startup
<1>3. ASSUME NEW r \in Runs, NEW i \in Items, BeginItem(r, i) \/ LedgerItem(r, i) \/ StoreItem(r, i) \/
             MarkItem(r, i) \/ FlushItem(r, i) \/ FinishCustomItem(r, i) \/ ItemRaises(r, i) \/ ItemErrs(r, i)
      PROVE  UNCHANGED <<latest, process, stale, recovery>>
    BY <1>3
       DEF BeginItem, LedgerItem, StoreItem, MarkItem, FlushItem, FinishCustomItem, ItemRaises,
           ItemErrs, startup
<1>4. ASSUME NEW r \in Runs, StartRun(r) PROVE StaleInv'
    <2>1. run[r] \in Locked \cup {"waiting"} /\ UNCHANGED <<process, stale, recovery>>
        BY <1>4 DEF StartRun, startup, Locked, Working
    <2>2. process = "up"
        BY <2>1 DEF ProcessInv
    <2>3. stale = {} /\ recovery = <<"pick">>
        BY <2>2 DEF StaleInv
    <2>4. \A d \in Datasets : <<"pick">> \notin {"delete", "reset", "log"} \X {d}
        OBVIOUS
    <2> QED
        BY <2>1, <2>3, <2>4 DEF StaleInv
<1>5. ASSUME NEW r \in Runs, Complete(r) PROVE StaleInv'
    <2>1. run[r] \in Locked \cup {"waiting"} /\ UNCHANGED <<process, stale, recovery>>
        BY <1>5 DEF Complete, startup, Locked, Working
    <2>2. process = "up"
        BY <2>1 DEF ProcessInv
    <2>3. stale = {} /\ recovery = <<"pick">>
        BY <2>2 DEF StaleInv
    <2>4. \A d \in Datasets : <<"pick">> \notin {"delete", "reset", "log"} \X {d}
        OBVIOUS
    <2> QED
        BY <2>1, <2>3, <2>4 DEF StaleInv
<1>6. ASSUME NEW r \in Runs, LogError(r) PROVE StaleInv'
    <2>1. run[r] \in Locked \cup {"waiting"} /\ UNCHANGED <<process, stale, recovery>>
        BY <1>6 DEF LogError, startup, Locked, Working
    <2>2. process = "up"
        BY <2>1 DEF ProcessInv
    <2>3. stale = {} /\ recovery = <<"pick">>
        BY <2>2 DEF StaleInv
    <2>4. \A d \in Datasets : <<"pick">> \notin {"delete", "reset", "log"} \X {d}
        OBVIOUS
    <2> QED
        BY <2>1, <2>3, <2>4 DEF StaleInv
<1>7. ASSUME NEW r \in Runs, LogAndRaise(r) PROVE StaleInv'
    <2>1. run[r] \in Locked \cup {"waiting"} /\ UNCHANGED <<process, stale, recovery>>
        BY <1>7 DEF LogAndRaise, startup, Locked, Working
    <2>2. process = "up"
        BY <2>1 DEF ProcessInv
    <2>3. stale = {} /\ recovery = <<"pick">>
        BY <2>2 DEF StaleInv
    <2>4. \A d \in Datasets : <<"pick">> \notin {"delete", "reset", "log"} \X {d}
        OBVIOUS
    <2> QED
        BY <2>1, <2>3, <2>4 DEF StaleInv
<1>8. ASSUME NEW d \in Datasets, RecoverySkips(d) PROVE StaleInv'
    BY <1>8 DEF RecoverySkips, StaleInv, IsStale
<1>9. ASSUME NEW d \in Datasets, RecoveryReads(d) PROVE StaleInv'
    BY <1>9 DEF RecoveryReads, StaleInv, IsStale
<1>10. ASSUME NEW d \in Datasets, RecoveryDeletes(d) PROVE StaleInv'
    BY <1>10 DEF RecoveryDeletes, DeleteArtifacts, StaleInv, IsStale
<1>11. ASSUME NEW d \in Datasets, RecoveryResets(d) PROVE StaleInv'
    BY <1>11 DEF RecoveryResets, ResetMarkers, StaleInv, IsStale
<1>12. ASSUME NEW d \in Datasets, RecoveryLogs(d) PROVE StaleInv'
    BY <1>12 DEF RecoveryLogs, StaleInv, IsStale
<1>13. ASSUME NEW d \in Datasets, RecoveryFails(d) PROVE StaleInv'
    BY <1>13 DEF RecoveryFails, StaleInv, IsStale
<1>14. ASSUME NEW d \in Datasets, AddResets(d) PROVE StaleInv'
    BY <1>14 DEF AddResets, startup, StaleInv, IsStale
<1>15. ASSUME Crash PROVE StaleInv'
    BY <1>15 DEF Crash, Locked, StaleInv, IsStale
<1>16. ASSUME Restart PROVE StaleInv'
    BY <1>16 DEF Restart, IsStale, StaleInv
<1>17. ASSUME RecoveryEnds PROVE StaleInv'
    BY <1>17 DEF RecoveryEnds, StaleInv, IsStale
<1>18. CASE UNCHANGED <<latest, process, stale, recovery>>
    BY <1>18 DEF StaleInv, IsStale
<1>19. CASE UNCHANGED vars
    BY <1>19, <1>18 DEF vars, setup, store, startup
<1> QED
    BY <1>1, <1>2, <1>3, <1>4, <1>5, <1>6, <1>7, <1>8, <1>9, <1>10, <1>11, <1>12, <1>13,
       <1>14, <1>15, <1>16, <1>17, <1>19, <1>18 DEF Next, RunStep, RunFails, TaskStep,
       RecoveryStep

-----------------------------------------------------------------------------
LEMMA ActiveInvInit == Init => ActiveInv
BY RunsAssumption DEF Init, Nothing, ActiveInv, Runs, Locked, LatestOf, Working, RollingBack, Request, DatasetOf

LEMMA ActiveInvStep ==
    TypeOK /\ ValidInv /\ LockInv /\ ProcessInv /\ StaleInv /\ ActiveInv /\ [Next]_vars => ActiveInv'
<1> SUFFICES ASSUME TypeOK, ValidInv, LockInv, ProcessInv, StaleInv, ActiveInv, [Next]_vars
             PROVE  ActiveInv'
    OBVIOUS
<1> USE RunsAssumption
<1>1. ASSUME NEW r \in Runs, NEW i \in Items, BeginItem(r, i) \/ LedgerItem(r, i) \/ StoreItem(r, i) \/
             MarkItem(r, i) \/ FlushItem(r, i) \/ FinishCustomItem(r, i) \/ ItemErrs(r, i)
      PROVE  UNCHANGED <<plan, run, latest>>
    BY <1>1
       DEF BeginItem, LedgerItem, StoreItem, MarkItem, FlushItem, FinishCustomItem, ItemErrs, setup
<1>2. ASSUME NEW d \in Datasets, RecoverySkips(d) \/ RecoveryReads(d) \/ RecoveryDeletes(d) \/
             RecoveryResets(d) \/ RecoveryFails(d)
      PROVE  UNCHANGED <<plan, run, latest>>
    BY <1>2
       DEF RecoverySkips, RecoveryReads, RecoveryDeletes, RecoveryResets, RecoveryFails,
           setup
<1>3. ASSUME Restart \/ RecoveryEnds
      PROVE  UNCHANGED <<plan, run, latest>>
    BY <1>3 DEF Restart, RecoveryEnds, setup
<1>4. ASSUME NEW c \in Calls, BeginCall(c) PROVE ActiveInv'
    <2>1. \A q \in Runs : run'[q] \in Locked \ {"answered"} => run[q] \in Locked \ {"answered"}
        BY <1>4
           DEF BeginCall, setup, store, startup, TypeOK, Locked, Working, RollingBack
    <2>2. plan' = plan /\ latest' = latest
        BY <1>4 DEF BeginCall, setup
    <2> QED
        BY <2>1, <2>2, ActiveKept
<1>5. ASSUME NEW r \in Runs, AnswerRun(r) PROVE ActiveInv'
    <2>1. \A q \in Runs : run'[q] \in Locked \ {"answered"} => run[q] \in Locked \ {"answered"}
        BY <1>5
           DEF AnswerRun, setup, store, startup, FirstAnswer, Runs, NotLast, NextOf,
               Locked, IsCognify, Working, RollingBack, TypeOK
    <2>2. plan' = plan /\ latest' = latest
        BY <1>5 DEF AnswerRun, setup
    <2> QED
        BY <2>1, <2>2, ActiveKept
<1>6. ASSUME NEW r \in Runs, StartRun(r) PROVE ActiveInv'
    <2>1. run[r] = "waiting" /\ LogRow(r, "started") /\ plan' = plan /\ "started" \in Statuses
        BY <1>6 DEF StartRun, Statuses, setup
    <2>2. r[2] <= Len(Request(r).sets)
        BY <2>1 DEF ValidInv
    <2>3. \A q \in Runs : Request(q)' = Request(q) /\ DatasetOf(q)' = DatasetOf(q)
        BY <2>1 DEF Request, DatasetOf
    <2>4. \A q \in Runs : q # r /\ run'[q] \in Locked \ {"answered"} => run[q] \in Locked \ {"answered"}
        BY <1>6 DEF StartRun, FirstAnswer, TypeOK, Locked, Working, RollingBack
    <2>5. \A q \in Runs : run[q] \in Locked => DatasetOf(q) # DatasetOf(r)
        BY <1>6 DEF StartRun, LockFree
    <2>6. LatestOf(r)' = [run |-> r, status |-> "started"]
        BY <2>1, <2>2, <2>3, NewRow DEF LatestOf
    <2>7. \A q \in Runs : run[q] \in Locked => Request(q).pipeline \in Pipelines /\ DatasetOf(q) \in Datasets
        BY RequestFacts DEF ValidInv, Locked, Working, RollingBack
    <2>8. \A q \in Runs : q # r /\ run'[q] \in Locked \ {"answered"} => LatestOf(q)' = LatestOf(q)
        <3>0. \A p \in Pipelines, d \in Datasets :
                  p # Request(r).pipeline \/ d # DatasetOf(r) => latest'[p][d] = latest[p][d]
            BY <2>1, <2>2, NewRow
        <3> SUFFICES ASSUME NEW q \in Runs, q # r, run'[q] \in Locked \ {"answered"}
                     PROVE  LatestOf(q)' = LatestOf(q)
            OBVIOUS
        <3>1. DatasetOf(q) # DatasetOf(r) /\ Request(q).pipeline \in Pipelines /\ DatasetOf(q) \in Datasets
            BY <2>4, <2>5, <2>7
        <3>2. latest'[Request(q).pipeline][DatasetOf(q)] = latest[Request(q).pipeline][DatasetOf(q)]
            BY <3>0, <3>1
        <3> QED
            BY <3>2, <2>3 DEF LatestOf
    <2> QED
        BY <2>4, <2>6, <2>8 DEF ActiveInv, Locked, Working, RollingBack
<1>7. ASSUME NEW r \in Runs, FinishAnswered(r) PROVE ActiveInv'
    <2>1. \A q \in Runs : run'[q] \in Locked \ {"answered"} => run[q] \in Locked \ {"answered"}
        BY <1>7
           DEF FinishAnswered, setup, store, startup, Driven, EndRun, Runs, NotLast,
               NextOf, Forget, Nothing, TypeOK, Locked, Working, RollingBack
    <2>2. plan' = plan /\ latest' = latest
        BY <1>7 DEF FinishAnswered, setup
    <2> QED
        BY <2>1, <2>2, ActiveKept
<1>8. ASSUME NEW r \in Runs, EnterContext(r) PROVE ActiveInv'
    <2>1. \A q \in Runs : run'[q] \in Locked \ {"answered"} => run[q] \in Locked \ {"answered"}
        BY <1>8
           DEF EnterContext, setup, store, startup, ItemsIn, Driven, TypeOK, Locked,
               Working, RollingBack
    <2>2. plan' = plan /\ latest' = latest
        BY <1>8 DEF EnterContext, setup
    <2> QED
        BY <2>1, <2>2, ActiveKept
<1>9. ASSUME NEW r \in Runs, GatherErrors(r) PROVE ActiveInv'
    <2>1. \A q \in Runs : run'[q] \in Locked \ {"answered"} => run[q] \in Locked \ {"answered"}
        BY <1>9
           DEF GatherErrors, setup, store, startup, Fails, Processed, Returned,
               IsCognify, Going, Busy, TypeOK, Locked, Working, RollingBack
    <2>2. plan' = plan /\ latest' = latest
        BY <1>9 DEF GatherErrors, setup
    <2> QED
        BY <2>1, <2>2, ActiveKept
<1>10. ASSUME NEW r \in Runs, GatherResults(r) PROVE ActiveInv'
    <2>1. \A q \in Runs : run'[q] \in Locked \ {"answered"} => run[q] \in Locked \ {"answered"}
        BY <1>10
           DEF GatherResults, setup, store, startup, Returned, Going, Busy, TypeOK,
               Locked, Working, RollingBack
    <2>2. plan' = plan /\ latest' = latest
        BY <1>10 DEF GatherResults, setup
    <2> QED
        BY <2>1, <2>2, ActiveKept
<1>11. ASSUME NEW r \in Runs, Complete(r) PROVE ActiveInv'
    <2>1. run[r] = "flushing" /\ LogRow(r, "completed") /\ plan' = plan /\ "completed" \in Statuses
        BY <1>11 DEF Complete, Statuses, setup
    <2>2. r[2] <= Len(Request(r).sets)
        BY <2>1 DEF ValidInv
    <2>3. \A q \in Runs : Request(q)' = Request(q) /\ DatasetOf(q)' = DatasetOf(q)
        BY <2>1 DEF Request, DatasetOf
    <2>4. \A q \in Runs : q # r /\ run'[q] \in Locked \ {"answered"} => run[q] \in Locked \ {"answered"}
        BY <1>11 DEF Complete, EndRun, TypeOK, Locked, Working, RollingBack
    <2>5. \A q \in Runs : q # r /\ run[q] \in Locked => DatasetOf(q) # DatasetOf(r)
        BY <2>1 DEF LockInv, Locked, Working, RollingBack
    <2>6. run'[r] = "ended"
        BY <1>11 DEF Complete, EndRun, TypeOK
    <2>7. \A q \in Runs : run[q] \in Locked => Request(q).pipeline \in Pipelines /\ DatasetOf(q) \in Datasets
        BY RequestFacts DEF ValidInv, Locked, Working, RollingBack
    <2>8. \A q \in Runs : q # r /\ run'[q] \in Locked \ {"answered"} => LatestOf(q)' = LatestOf(q)
        <3>0. \A p \in Pipelines, d \in Datasets :
                  p # Request(r).pipeline \/ d # DatasetOf(r) => latest'[p][d] = latest[p][d]
            BY <2>1, <2>2, NewRow
        <3> SUFFICES ASSUME NEW q \in Runs, q # r, run'[q] \in Locked \ {"answered"}
                     PROVE  LatestOf(q)' = LatestOf(q)
            OBVIOUS
        <3>1. DatasetOf(q) # DatasetOf(r) /\ Request(q).pipeline \in Pipelines /\ DatasetOf(q) \in Datasets
            BY <2>4, <2>5, <2>7
        <3>2. latest'[Request(q).pipeline][DatasetOf(q)] = latest[Request(q).pipeline][DatasetOf(q)]
            BY <3>0, <3>1
        <3> QED
            BY <3>2, <2>3 DEF LatestOf
    <2> QED
        BY <2>4, <2>6, <2>8 DEF ActiveInv, Locked, Working, RollingBack
<1>12. ASSUME NEW r \in Runs, RollbackReads(r) PROVE ActiveInv'
    <2>1. \A q \in Runs : run'[q] \in Locked \ {"answered"} => run[q] \in Locked \ {"answered"}
        BY <1>12
           DEF RollbackReads, setup, store, startup, ReadArtifacts, OwnedBy, TypeOK,
               Locked, Working, RollingBack
    <2>2. plan' = plan /\ latest' = latest
        BY <1>12 DEF RollbackReads, setup
    <2> QED
        BY <2>1, <2>2, ActiveKept
<1>13. ASSUME NEW r \in Runs, RollbackDeletes(r) PROVE ActiveInv'
    <2>1. \A q \in Runs : run'[q] \in Locked \ {"answered"} => run[q] \in Locked \ {"answered"}
        BY <1>13
           DEF RollbackDeletes, setup, startup, DeleteArtifacts, OwnedBy, Disowned,
               TypeOK, Locked, Working, RollingBack
    <2>2. plan' = plan /\ latest' = latest
        BY <1>13 DEF RollbackDeletes, setup
    <2> QED
        BY <2>1, <2>2, ActiveKept
<1>14. ASSUME NEW r \in Runs, RollbackResets(r) PROVE ActiveInv'
    <2>1. \A q \in Runs : run'[q] \in Locked \ {"answered"} => run[q] \in Locked \ {"answered"}
        BY <1>14
           DEF RollbackResets, setup, startup, ResetMarkers, Disowned, TypeOK, Locked,
               Working, RollingBack
    <2>2. plan' = plan /\ latest' = latest
        BY <1>14 DEF RollbackResets, setup
    <2> QED
        BY <2>1, <2>2, ActiveKept
<1>15. ASSUME NEW r \in Runs, LogError(r) PROVE ActiveInv'
    <2>1. run[r] = "erring" /\ LogRow(r, "errored") /\ plan' = plan /\ "errored" \in Statuses
        BY <1>15 DEF LogError, Statuses, setup
    <2>2. r[2] <= Len(Request(r).sets)
        BY <2>1 DEF ValidInv
    <2>3. \A q \in Runs : Request(q)' = Request(q) /\ DatasetOf(q)' = DatasetOf(q)
        BY <2>1 DEF Request, DatasetOf
    <2>4. \A q \in Runs : q # r /\ run'[q] \in Locked \ {"answered"} => run[q] \in Locked \ {"answered"}
        BY <1>15 DEF LogError, EndRun, TypeOK, Locked, Working, RollingBack
    <2>5. \A q \in Runs : q # r /\ run[q] \in Locked => DatasetOf(q) # DatasetOf(r)
        BY <2>1 DEF LockInv, Locked, Working, RollingBack
    <2>6. run'[r] = "ended"
        BY <1>15 DEF LogError, EndRun, TypeOK
    <2>7. \A q \in Runs : run[q] \in Locked => Request(q).pipeline \in Pipelines /\ DatasetOf(q) \in Datasets
        BY RequestFacts DEF ValidInv, Locked, Working, RollingBack
    <2>8. \A q \in Runs : q # r /\ run'[q] \in Locked \ {"answered"} => LatestOf(q)' = LatestOf(q)
        <3>0. \A p \in Pipelines, d \in Datasets :
                  p # Request(r).pipeline \/ d # DatasetOf(r) => latest'[p][d] = latest[p][d]
            BY <2>1, <2>2, NewRow
        <3> SUFFICES ASSUME NEW q \in Runs, q # r, run'[q] \in Locked \ {"answered"}
                     PROVE  LatestOf(q)' = LatestOf(q)
            OBVIOUS
        <3>1. DatasetOf(q) # DatasetOf(r) /\ Request(q).pipeline \in Pipelines /\ DatasetOf(q) \in Datasets
            BY <2>4, <2>5, <2>7
        <3>2. latest'[Request(q).pipeline][DatasetOf(q)] = latest[Request(q).pipeline][DatasetOf(q)]
            BY <3>0, <3>1
        <3> QED
            BY <3>2, <2>3 DEF LatestOf
    <2> QED
        BY <2>4, <2>6, <2>8 DEF ActiveInv, Locked, Working, RollingBack
<1>16. ASSUME NEW r \in Runs, LogAndRaise(r) PROVE ActiveInv'
    <2>1. run[r] = "erring" /\ LogRow(r, "errored") /\ plan' = plan /\ "errored" \in Statuses
        BY <1>16 DEF LogAndRaise, Statuses, setup
    <2>2. r[2] <= Len(Request(r).sets)
        BY <2>1 DEF ValidInv
    <2>3. \A q \in Runs : Request(q)' = Request(q) /\ DatasetOf(q)' = DatasetOf(q)
        BY <2>1 DEF Request, DatasetOf
    <2>4. \A q \in Runs : q # r /\ run'[q] \in Locked \ {"answered"} => run[q] \in Locked \ {"answered"}
        BY <1>16 DEF LogAndRaise, RaiseRun, TypeOK, Locked, Working, RollingBack
    <2>5. \A q \in Runs : q # r /\ run[q] \in Locked => DatasetOf(q) # DatasetOf(r)
        BY <2>1 DEF LockInv, Locked, Working, RollingBack
    <2>6. run'[r] = "ended"
        BY <1>16 DEF LogAndRaise, RaiseRun, TypeOK
    <2>7. \A q \in Runs : run[q] \in Locked => Request(q).pipeline \in Pipelines /\ DatasetOf(q) \in Datasets
        BY RequestFacts DEF ValidInv, Locked, Working, RollingBack
    <2>8. \A q \in Runs : q # r /\ run'[q] \in Locked \ {"answered"} => LatestOf(q)' = LatestOf(q)
        <3>0. \A p \in Pipelines, d \in Datasets :
                  p # Request(r).pipeline \/ d # DatasetOf(r) => latest'[p][d] = latest[p][d]
            BY <2>1, <2>2, NewRow
        <3> SUFFICES ASSUME NEW q \in Runs, q # r, run'[q] \in Locked \ {"answered"}
                     PROVE  LatestOf(q)' = LatestOf(q)
            OBVIOUS
        <3>1. DatasetOf(q) # DatasetOf(r) /\ Request(q).pipeline \in Pipelines /\ DatasetOf(q) \in Datasets
            BY <2>4, <2>5, <2>7
        <3>2. latest'[Request(q).pipeline][DatasetOf(q)] = latest[Request(q).pipeline][DatasetOf(q)]
            BY <3>0, <3>1
        <3> QED
            BY <3>2, <2>3 DEF LatestOf
    <2> QED
        BY <2>4, <2>6, <2>8 DEF ActiveInv, Locked, Working, RollingBack
<1>17. ASSUME NEW r \in Runs, CloseGenerator(r) PROVE ActiveInv'
    <2>1. \A q \in Runs : run'[q] \in Locked \ {"answered"} => run[q] \in Locked \ {"answered"}
        BY <1>17
           DEF CloseGenerator, setup, store, startup, TypeOK, Locked, Working,
               RollingBack
    <2>2. plan' = plan /\ latest' = latest
        BY <1>17 DEF CloseGenerator, setup
    <2> QED
        BY <2>1, <2>2, ActiveKept
<1>18. ASSUME NEW r \in Runs, StartFails(r) PROVE ActiveInv'
    <2>1. \A q \in Runs : run'[q] \in Locked \ {"answered"} => run[q] \in Locked \ {"answered"}
        BY <1>18
           DEF StartFails, setup, store, startup, Fault, RaiseRun, Forget, Nothing,
               TypeOK, Locked, Working, RollingBack
    <2>2. plan' = plan /\ latest' = latest
        BY <1>18 DEF StartFails, setup
    <2> QED
        BY <2>1, <2>2, ActiveKept
<1>19. ASSUME NEW r \in Runs, EntryFails(r) PROVE ActiveInv'
    <2>1. \A q \in Runs : run'[q] \in Locked \ {"answered"} => run[q] \in Locked \ {"answered"}
        BY <1>19
           DEF EntryFails, setup, store, startup, Fault, Driven, RaiseRun, Forget,
               Nothing, TypeOK, Locked, Working, RollingBack
    <2>2. plan' = plan /\ latest' = latest
        BY <1>19 DEF EntryFails, setup
    <2> QED
        BY <2>1, <2>2, ActiveKept
<1>20. ASSUME NEW r \in Runs, FlushFails(r) PROVE ActiveInv'
    <2>1. \A q \in Runs : run'[q] \in Locked \ {"answered"} => run[q] \in Locked \ {"answered"}
        BY <1>20
           DEF FlushFails, setup, store, startup, Fault, Fails, Processed, IsCognify,
               TypeOK, Locked, Working, RollingBack
    <2>2. plan' = plan /\ latest' = latest
        BY <1>20 DEF FlushFails, setup
    <2> QED
        BY <2>1, <2>2, ActiveKept
<1>21. ASSUME NEW r \in Runs, CancelRun(r) PROVE ActiveInv'
    <2>1. \A q \in Runs : run'[q] \in Locked \ {"answered"} => run[q] \in Locked \ {"answered"}
        BY <1>21
           DEF CancelRun, setup, store, startup, Going, Fault, Fails, Busy, IsCognify,
               TypeOK, Locked, Working, RollingBack
    <2>2. plan' = plan /\ latest' = latest
        BY <1>21 DEF CancelRun, setup
    <2> QED
        BY <2>1, <2>2, ActiveKept
<1>22. ASSUME NEW r \in Runs, RollbackFails(r) PROVE ActiveInv'
    <2>1. \A q \in Runs : run'[q] \in Locked \ {"answered"} => run[q] \in Locked \ {"answered"}
        BY <1>22
           DEF RollbackFails, setup, store, startup, RollingBack, Fault, TypeOK, Locked,
               Working
    <2>2. plan' = plan /\ latest' = latest
        BY <1>22 DEF RollbackFails, setup
    <2> QED
        BY <2>1, <2>2, ActiveKept
<1>23. ASSUME NEW r \in Runs, CleanupFails(r) PROVE ActiveInv'
    <2>1. \A q \in Runs : run'[q] \in Locked \ {"answered"} => run[q] \in Locked \ {"answered"}
        BY <1>23
           DEF CleanupFails, setup, store, startup, RollingBack, Fault, RaiseRun,
               Forget, Nothing, TypeOK, Locked, Working
    <2>2. plan' = plan /\ latest' = latest
        BY <1>23 DEF CleanupFails, setup
    <2> QED
        BY <2>1, <2>2, ActiveKept
<1>24. ASSUME NEW r \in Runs, NEW i \in Items, ItemRaises(r, i) PROVE ActiveInv'
    <2>1. \A q \in Runs : run'[q] \in Locked \ {"answered"} => run[q] \in Locked \ {"answered"}
        BY <1>24
           DEF ItemRaises, setup, store, startup, Busy, Fault, Fails, TaskTo,
               IsCognify, TypeOK, Locked, Working, RollingBack
    <2>2. plan' = plan /\ latest' = latest
        BY <1>24 DEF ItemRaises, setup
    <2> QED
        BY <2>1, <2>2, ActiveKept
<1>25. ASSUME NEW d \in Datasets, RecoveryLogs(d) PROVE ActiveInv'
    <2>1. process # "up" /\ run' = run
        BY <1>25 DEF RecoveryLogs, StaleInv
    <2> QED
        BY <2>1 DEF ProcessInv, ActiveInv
<1>26. ASSUME NEW d \in Datasets, AddResets(d) PROVE ActiveInv'
    <2>1. UNCHANGED <<run, plan>>
        BY <1>26 DEF AddResets, setup
    <2>2. \A p \in Pipelines, e \in Datasets :
              latest'[p][e] = latest[p][e] \/ latest'[p][e].status = "initiated"
        BY <1>26 DEF AddResets, TypeOK, Pipelines
    <2>3. \A q \in Runs : run[q] \in Locked => Request(q).pipeline \in Pipelines /\ DatasetOf(q) \in Datasets
        BY RequestFacts DEF ValidInv, Locked, Working, RollingBack
    <2> QED
        BY <2>1, <2>2, <2>3 DEF ActiveInv, LatestOf, Request, DatasetOf
<1>27. ASSUME Crash PROVE ActiveInv'
    <2>1. \A q \in Runs : run'[q] \in Locked \ {"answered"} => run[q] \in Locked \ {"answered"}
        BY <1>27
           DEF Crash, Runs, setup, store, Locked, Going, Nothing, Fault, Working,
               RollingBack, Busy, TypeOK
    <2>2. plan' = plan /\ latest' = latest
        BY <1>27 DEF Crash, setup
    <2> QED
        BY <2>1, <2>2, ActiveKept
<1>28. CASE UNCHANGED <<plan, run, latest>>
    BY <1>28
       DEF ActiveInv, Runs, Locked, LatestOf, Working, RollingBack, Request, DatasetOf
<1>29. CASE UNCHANGED vars
    BY <1>29, <1>28 DEF vars, setup, store, startup
<1> QED
    BY <1>1, <1>2, <1>3, <1>4, <1>5, <1>6, <1>7, <1>8, <1>9, <1>10, <1>11, <1>12, <1>13,
       <1>14, <1>15, <1>16, <1>17, <1>18, <1>19, <1>20, <1>21, <1>22, <1>23, <1>24,
       <1>25, <1>26, <1>27, <1>29, <1>28 DEF Next, RunStep, RunFails, TaskStep,
       RecoveryStep

-----------------------------------------------------------------------------
LEMMA RollInvInit == Init => RollInv
BY RunsAssumption DEF Init, Nothing, RollInv, Runs, RollingBack, IsCognify, Request

LEMMA RollInvStep ==
    TypeOK /\ OrderInv /\ IdleInv /\ RollInv /\ [Next]_vars => RollInv'
<1> SUFFICES ASSUME TypeOK, OrderInv, IdleInv, RollInv, [Next]_vars
             PROVE  RollInv'
    OBVIOUS
<1> USE RunsAssumption
<1>1. ASSUME NEW d \in Datasets, RecoverySkips(d) \/ RecoveryReads(d) \/ RecoveryDeletes(d) \/
             RecoveryResets(d) \/ RecoveryLogs(d) \/ RecoveryFails(d) \/ AddResets(d)
      PROVE  UNCHANGED <<plan, run, task>>
    BY <1>1
       DEF RecoverySkips, RecoveryReads, RecoveryDeletes, RecoveryResets, RecoveryLogs,
           RecoveryFails, AddResets, setup
<1>2. ASSUME Restart \/ RecoveryEnds
      PROVE  UNCHANGED <<plan, run, task>>
    BY <1>2 DEF Restart, RecoveryEnds, setup
<1>3. ASSUME NEW c \in Calls, BeginCall(c) PROVE RollInv'
    BY <1>3 DEF BeginCall, setup, RollInv, Runs, RollingBack, IsCognify, Request
<1>4. ASSUME NEW r \in Runs, AnswerRun(r) PROVE RollInv'
    <2>1. run[r] = "waiting" /\ FirstAnswer(r, "answered") /\ plan' = plan
        BY <1>4 DEF AnswerRun, setup
    <2>2. "answered" \in RunPcs
        BY DEF RunPcs, Locked
    <2>3. UNCHANGED <<plan, task>>
        BY <1>4 DEF AnswerRun, setup
    <2>4. \A q \in Runs : run'[q] \in RollingBack => run[q] \in RollingBack
        BY <2>1, <2>2, FirstAnswerRuns DEF RollingBack
    <2> QED
        BY <2>3, <2>4 DEF RollInv, IsCognify, Request
<1>5. ASSUME NEW r \in Runs, StartRun(r) PROVE RollInv'
    <2>1. run[r] = "waiting" /\ FirstAnswer(r, "started") /\ plan' = plan
        BY <1>5 DEF StartRun, setup
    <2>2. "started" \in RunPcs
        BY DEF RunPcs, Locked
    <2>3. UNCHANGED <<plan, task>>
        BY <1>5 DEF StartRun, setup
    <2>4. \A q \in Runs : run'[q] \in RollingBack => run[q] \in RollingBack
        BY <2>1, <2>2, FirstAnswerRuns DEF RollingBack
    <2> QED
        BY <2>3, <2>4 DEF RollInv, IsCognify, Request
<1>6. ASSUME NEW r \in Runs, FinishAnswered(r) PROVE RollInv'
    BY <1>6
       DEF FinishAnswered, EndRun, NextOf, Runs, Request, NotLast, setup, RollInv,
           RollingBack, IsCognify
<1>7. ASSUME NEW r \in Runs, EnterContext(r) PROVE RollInv'
    BY <1>7
       DEF EnterContext, ItemsIn, DatasetOf, Request, setup, RollInv, Runs, RollingBack,
           IsCognify
<1>8. ASSUME NEW r \in Runs, GatherErrors(r) PROVE RollInv'
    BY <1>8
       DEF GatherErrors, Fails, IsCognify, Request, Returned, Going, Busy, setup,
           RollInv, Runs, RollingBack
<1>9. ASSUME NEW r \in Runs, GatherResults(r) PROVE RollInv'
    BY <1>9
       DEF GatherResults, Returned, Going, Busy, setup, RollInv, Runs, RollingBack,
           IsCognify, Request
<1>10. ASSUME NEW r \in Runs, Complete(r) PROVE RollInv'
    BY <1>10
       DEF Complete, EndRun, NextOf, Runs, Request, NotLast, setup, RollInv,
           RollingBack, IsCognify
<1>11. ASSUME NEW r \in Runs, RollbackReads(r) PROVE RollInv'
    BY <1>11 DEF RollbackReads, setup, RollInv, Runs, RollingBack, IsCognify, Request
<1>12. ASSUME NEW r \in Runs, RollbackDeletes(r) PROVE RollInv'
    BY <1>12
       DEF RollbackDeletes, DeleteArtifacts, setup, RollInv, Runs, RollingBack,
           IsCognify, Request
<1>13. ASSUME NEW r \in Runs, RollbackResets(r) PROVE RollInv'
    BY <1>13
       DEF RollbackResets, ResetMarkers, setup, RollInv, Runs, RollingBack, IsCognify,
           Request
<1>14. ASSUME NEW r \in Runs, LogError(r) PROVE RollInv'
    BY <1>14
       DEF LogError, EndRun, NextOf, Runs, Request, NotLast, setup, RollInv,
           RollingBack, IsCognify
<1>15. ASSUME NEW r \in Runs, LogAndRaise(r) PROVE RollInv'
    BY <1>15
       DEF LogAndRaise, RaiseRun, setup, RollInv, Runs, RollingBack, IsCognify, Request
<1>16. ASSUME NEW r \in Runs, CloseGenerator(r) PROVE RollInv'
    BY <1>16 DEF CloseGenerator, setup, RollInv, Runs, RollingBack, IsCognify, Request
<1>17. ASSUME NEW r \in Runs, StartFails(r) PROVE RollInv'
    BY <1>17
       DEF StartFails, RaiseRun, setup, RollInv, Runs, RollingBack, IsCognify, Request
<1>18. ASSUME NEW r \in Runs, EntryFails(r) PROVE RollInv'
    BY <1>18
       DEF EntryFails, RaiseRun, setup, RollInv, Runs, RollingBack, IsCognify, Request
<1>19. ASSUME NEW r \in Runs, FlushFails(r) PROVE RollInv'
    BY <1>19
       DEF FlushFails, Fails, IsCognify, Request, setup, RollInv, Runs, RollingBack
<1>20. ASSUME NEW r \in Runs, CancelRun(r) PROVE RollInv'
    BY <1>20
       DEF CancelRun, Fails, IsCognify, Request, Going, Busy, setup, RollInv, Runs,
           RollingBack
<1>21. ASSUME NEW r \in Runs, RollbackFails(r) PROVE RollInv'
    BY <1>21 DEF RollbackFails, RollingBack, setup, RollInv, Runs, IsCognify, Request
<1>22. ASSUME NEW r \in Runs, CleanupFails(r) PROVE RollInv'
    BY <1>22
       DEF CleanupFails, RaiseRun, RollingBack, setup, RollInv, Runs, IsCognify, Request
<1>23. ASSUME NEW r \in Runs, NEW i \in Items, BeginItem(r, i) PROVE RollInv'
    BY <1>23
       DEF BeginItem, TaskTo, setup, RollInv, Runs, RollingBack, IsCognify, Request
<1>24. ASSUME NEW r \in Runs, NEW i \in Items, LedgerItem(r, i) PROVE RollInv'
    BY <1>24
       DEF LedgerItem, TaskTo, setup, RollInv, Runs, RollingBack, IsCognify, Request
<1>25. ASSUME NEW r \in Runs, NEW i \in Items, StoreItem(r, i) PROVE RollInv'
    BY <1>25
       DEF StoreItem, TaskTo, setup, RollInv, Runs, RollingBack, IsCognify, Request
<1>26. ASSUME NEW r \in Runs, NEW i \in Items, MarkItem(r, i) PROVE RollInv'
    BY <1>26 DEF MarkItem, TaskTo, setup, RollInv, Runs, RollingBack, IsCognify, Request
<1>27. ASSUME NEW r \in Runs, NEW i \in Items, FlushItem(r, i) \/ FinishCustomItem(r, i)
      PROVE  RollInv'
    <2>1. CASE FlushItem(r, i)
        BY <2>1
           DEF FlushItem, TaskTo, setup, RollInv, Runs, RollingBack, IsCognify, Request
    <2>2. CASE FinishCustomItem(r, i)
        BY <2>2
           DEF FinishCustomItem, TaskTo, setup, RollInv, Runs, RollingBack, IsCognify,
               Request
    <2> QED
        BY <1>27, <2>1, <2>2
<1>28. ASSUME NEW r \in Runs, NEW i \in Items, ItemRaises(r, i) PROVE RollInv'
    BY <1>28
       DEF ItemRaises, Going, Fails, IsCognify, Request, TaskTo, Busy, setup, RollInv, Runs,
           RollingBack
<1>29. ASSUME NEW r \in Runs, NEW i \in Items, ItemErrs(r, i) PROVE RollInv'
    BY <1>29
       DEF ItemErrs, Going, TaskTo, Busy, setup, RollInv, Runs, RollingBack, IsCognify, Request
<1>30. ASSUME Crash PROVE RollInv'
    BY <1>30
       DEF Crash, Locked, Working, RollingBack, Runs, Going, Busy, setup, RollInv,
           IsCognify, Request
<1>31. CASE UNCHANGED <<plan, run, task>>
    BY <1>31 DEF RollInv, Runs, RollingBack, IsCognify, Request
<1>32. CASE UNCHANGED vars
    BY <1>32, <1>31 DEF vars, setup, store, startup
<1> QED
    BY <1>1, <1>2, <1>3, <1>4, <1>5, <1>6, <1>7, <1>8, <1>9, <1>10, <1>11, <1>12, <1>13,
       <1>14, <1>15, <1>16, <1>17, <1>18, <1>19, <1>20, <1>21, <1>22, <1>23, <1>24,
       <1>25, <1>26, <1>27, <1>28, <1>29, <1>30, <1>32, <1>31 DEF Next, RunStep,
       RunFails, TaskStep, RecoveryStep

-----------------------------------------------------------------------------
LEMMA ItemInvInit == Init => ItemInv
BY RunsAssumption DEF Init, Nothing, ItemInv, Runs, ItemsIn, DatasetOf, Request

LEMMA ItemInvStep ==
    TypeOK /\ RowInv /\ StaleInv /\ ItemInv /\ [Next]_vars => ItemInv'
<1> SUFFICES ASSUME TypeOK, RowInv, StaleInv, ItemInv, [Next]_vars
             PROVE  ItemInv'
    OBVIOUS
<1> USE RunsAssumption
<1>1. ASSUME NEW d \in Datasets, RecoverySkips(d) \/ AddResets(d)
      PROVE  UNCHANGED <<plan, run, task, undo, owner>>
    BY <1>1 DEF RecoverySkips, AddResets, setup, store
<1>2. ASSUME Restart \/ RecoveryEnds
      PROVE  UNCHANGED <<plan, run, task, undo, owner>>
    BY <1>2 DEF Restart, RecoveryEnds, setup, store
<1>3. ASSUME NEW c \in Calls, BeginCall(c) PROVE ItemInv'
    BY <1>3
       DEF BeginCall, setup, store, ItemInv, Runs, ItemsIn, DatasetOf, Request, TypeOK
<1>4. ASSUME NEW r \in Runs, AnswerRun(r) PROVE ItemInv'
    <2>1. run[r] = "waiting" /\ FirstAnswer(r, "answered") /\ plan' = plan
        BY <1>4 DEF AnswerRun, setup
    <2>2. "answered" \in RunPcs
        BY DEF RunPcs, Locked
    <2>3. UNCHANGED <<plan, task, owner, undo>>
        BY <1>4 DEF AnswerRun, setup, store
    <2>4. \A q \in Runs : run[q] # "none" => run'[q] # "none"
        BY <2>1, <2>2, FirstAnswerRuns
    <2> QED
        BY <2>3, <2>4 DEF ItemInv, ItemsIn, DatasetOf, Request
<1>5. ASSUME NEW r \in Runs, StartRun(r) PROVE ItemInv'
    <2>1. run[r] = "waiting" /\ FirstAnswer(r, "started") /\ plan' = plan
        BY <1>5 DEF StartRun, setup
    <2>2. "started" \in RunPcs
        BY DEF RunPcs, Locked
    <2>3. UNCHANGED <<plan, task, owner, undo>>
        BY <1>5 DEF StartRun, setup, store
    <2>4. \A q \in Runs : run[q] # "none" => run'[q] # "none"
        BY <2>1, <2>2, FirstAnswerRuns
    <2> QED
        BY <2>3, <2>4 DEF ItemInv, ItemsIn, DatasetOf, Request
<1>6. ASSUME NEW r \in Runs, FinishAnswered(r) PROVE ItemInv'
    BY <1>6
       DEF FinishAnswered, EndRun, NextOf, Runs, Request, NotLast, Forget, Nothing,
           setup, store, ItemInv, ItemsIn, DatasetOf, TypeOK
<1>7. ASSUME NEW r \in Runs, EnterContext(r) PROVE ItemInv'
    BY <1>7
       DEF EnterContext, ItemsIn, DatasetOf, Request, setup, store, ItemInv, Runs,
           TypeOK
<1>8. ASSUME NEW r \in Runs, GatherErrors(r) PROVE ItemInv'
    BY <1>8
       DEF GatherErrors, Fails, IsCognify, Request, Processed, setup, store, ItemInv, Runs,
           ItemsIn, DatasetOf, TypeOK
<1>9. ASSUME NEW r \in Runs, GatherResults(r) PROVE ItemInv'
    BY <1>9
       DEF GatherResults, Returned, Going, Busy, setup, store, ItemInv, Runs, ItemsIn,
           DatasetOf, Request, TypeOK
<1>10. ASSUME NEW r \in Runs, Complete(r) PROVE ItemInv'
    BY <1>10
       DEF Complete, EndRun, NextOf, Runs, Request, NotLast, Forget, Nothing, setup,
           store, ItemInv, ItemsIn, DatasetOf, TypeOK
<1>11. ASSUME NEW r \in Runs, RollbackReads(r) PROVE ItemInv'
    BY <1>11
       DEF RollbackReads, ReadArtifacts, OwnedBy, setup, store, ItemInv, Runs, ItemsIn,
           DatasetOf, Request, TypeOK
<1>12. ASSUME NEW r \in Runs, RollbackDeletes(r) PROVE ItemInv'
    BY <1>12
       DEF RollbackDeletes, DeleteArtifacts, Disowned, OwnedBy, setup, ItemInv, Runs,
           ItemsIn, DatasetOf, Request, TypeOK
<1>13. ASSUME NEW r \in Runs, RollbackResets(r) PROVE ItemInv'
    BY <1>13
       DEF RollbackResets, ResetMarkers, Disowned, setup, ItemInv, Runs, ItemsIn,
           DatasetOf, Request, TypeOK
<1>14. ASSUME NEW r \in Runs, LogError(r) PROVE ItemInv'
    BY <1>14
       DEF LogError, EndRun, NextOf, Runs, Request, NotLast, Forget, Nothing, setup,
           store, ItemInv, ItemsIn, DatasetOf, TypeOK
<1>15. ASSUME NEW r \in Runs, LogAndRaise(r) PROVE ItemInv'
    BY <1>15
       DEF LogAndRaise, RaiseRun, Forget, Nothing, setup, store, ItemInv, Runs, ItemsIn,
           DatasetOf, Request, TypeOK
<1>16. ASSUME NEW r \in Runs, CloseGenerator(r) PROVE ItemInv'
    BY <1>16
       DEF CloseGenerator, setup, store, ItemInv, Runs, ItemsIn, DatasetOf, Request,
           TypeOK
<1>17. ASSUME NEW r \in Runs, StartFails(r) PROVE ItemInv'
    BY <1>17
       DEF StartFails, RaiseRun, Forget, Nothing, setup, store, ItemInv, Runs, ItemsIn,
           DatasetOf, Request, TypeOK
<1>18. ASSUME NEW r \in Runs, EntryFails(r) PROVE ItemInv'
    BY <1>18
       DEF EntryFails, RaiseRun, Forget, Nothing, setup, store, ItemInv, Runs, ItemsIn,
           DatasetOf, Request, TypeOK
<1>19. ASSUME NEW r \in Runs, FlushFails(r) PROVE ItemInv'
    BY <1>19
       DEF FlushFails, Fails, IsCognify, Request, Processed, setup, store, ItemInv,
           Runs, ItemsIn, DatasetOf, TypeOK
<1>20. ASSUME NEW r \in Runs, CancelRun(r) PROVE ItemInv'
    BY <1>20
       DEF CancelRun, Fails, IsCognify, Request, Going, Busy, setup, store, ItemInv,
           Runs, ItemsIn, DatasetOf, TypeOK
<1>21. ASSUME NEW r \in Runs, RollbackFails(r) PROVE ItemInv'
    BY <1>21
       DEF RollbackFails, RollingBack, setup, store, ItemInv, Runs, ItemsIn, DatasetOf,
           Request, TypeOK
<1>22. ASSUME NEW r \in Runs, CleanupFails(r) PROVE ItemInv'
    BY <1>22
       DEF CleanupFails, RaiseRun, Forget, Nothing, RollingBack, setup, store, ItemInv,
           Runs, ItemsIn, DatasetOf, Request, TypeOK
<1>23. ASSUME NEW r \in Runs, NEW i \in Items, BeginItem(r, i) PROVE ItemInv'
    BY <1>23
       DEF BeginItem, TaskTo, setup, store, ItemInv, Runs, ItemsIn, DatasetOf, Request,
           TypeOK
<1>24. ASSUME NEW r \in Runs, NEW i \in Items, LedgerItem(r, i) PROVE ItemInv'
    BY <1>24
       DEF LedgerItem, TaskTo, Owns, Runs, setup, ItemInv, ItemsIn, DatasetOf, Request,
           TypeOK
<1>25. ASSUME NEW r \in Runs, NEW i \in Items, StoreItem(r, i) PROVE ItemInv'
    BY <1>25
       DEF StoreItem, TaskTo, Owns, Runs, setup, ItemInv, ItemsIn, DatasetOf, Request,
           TypeOK
<1>26. ASSUME NEW r \in Runs, NEW i \in Items, MarkItem(r, i) PROVE ItemInv'
    BY <1>26
       DEF MarkItem, TaskTo, setup, ItemInv, Runs, ItemsIn, DatasetOf, Request, TypeOK
<1>27. ASSUME NEW r \in Runs, NEW i \in Items, FlushItem(r, i) \/ FinishCustomItem(r, i)
      PROVE  ItemInv'
    <2>1. CASE FlushItem(r, i)
        BY <2>1
           DEF FlushItem, TaskTo, setup, store, ItemInv, Runs, ItemsIn, DatasetOf,
               Request, TypeOK
    <2>2. CASE FinishCustomItem(r, i)
        BY <2>2
           DEF FinishCustomItem, TaskTo, setup, store, ItemInv, Runs, ItemsIn,
               DatasetOf, Request, TypeOK
    <2> QED
        BY <1>27, <2>1, <2>2
<1>28. ASSUME NEW r \in Runs, NEW i \in Items, ItemRaises(r, i) PROVE ItemInv'
    BY <1>28
       DEF ItemRaises, Going, Fails, IsCognify, Request, TaskTo, Busy, setup, store, ItemInv,
           Runs, ItemsIn, DatasetOf, TypeOK
<1>29. ASSUME NEW r \in Runs, NEW i \in Items, ItemErrs(r, i) PROVE ItemInv'
    BY <1>29
       DEF ItemErrs, Going, TaskTo, Busy, setup, store, ItemInv, Runs, ItemsIn, DatasetOf,
           Request, TypeOK
<1>30. ASSUME NEW d \in Datasets, RecoveryReads(d) PROVE ItemInv'
    BY <1>30
       DEF RecoveryReads, ReadArtifacts, OwnedBy, setup, store, ItemInv, Runs, ItemsIn,
           DatasetOf, Request, TypeOK
<1>31. ASSUME NEW d \in Datasets, RecoveryDeletes(d) PROVE ItemInv'
    BY <1>31
       DEF RecoveryDeletes, DeleteArtifacts, Disowned, OwnedBy, setup, ItemInv, Runs,
           ItemsIn, DatasetOf, Request, TypeOK
<1>32. ASSUME NEW d \in Datasets, RecoveryResets(d) PROVE ItemInv'
    BY <1>32
       DEF RecoveryResets, ResetMarkers, Disowned, setup, ItemInv, Runs, ItemsIn,
           DatasetOf, Request, TypeOK
<1>33. ASSUME NEW d \in Datasets, RecoveryLogs(d) PROVE ItemInv'
    BY <1>33
       DEF RecoveryLogs, Nothing, StaleRun, setup, store, ItemInv, Runs, ItemsIn,
           DatasetOf, Request, TypeOK
<1>34. ASSUME NEW d \in Datasets, RecoveryFails(d) PROVE ItemInv'
    BY <1>34
       DEF RecoveryFails, Nothing, StaleRun, setup, store, ItemInv, Runs, ItemsIn,
           DatasetOf, Request, TypeOK
<1>35. ASSUME Crash PROVE ItemInv'
    BY <1>35
       DEF Crash, Locked, Working, RollingBack, Runs, Going, Busy, Nothing, setup,
           store, ItemInv, ItemsIn, DatasetOf, Request, TypeOK
<1>36. CASE UNCHANGED <<plan, run, task, undo, owner>>
    BY <1>36 DEF ItemInv, Runs, ItemsIn, DatasetOf, Request
<1>37. CASE UNCHANGED vars
    BY <1>37, <1>36 DEF vars, setup, store, startup
<1> QED
    BY <1>1, <1>2, <1>3, <1>4, <1>5, <1>6, <1>7, <1>8, <1>9, <1>10, <1>11, <1>12, <1>13,
       <1>14, <1>15, <1>16, <1>17, <1>18, <1>19, <1>20, <1>21, <1>22, <1>23, <1>24,
       <1>25, <1>26, <1>27, <1>28, <1>29, <1>30, <1>31, <1>32, <1>33, <1>34, <1>35,
       <1>37, <1>36 DEF Next, RunStep, RunFails, TaskStep, RecoveryStep

-----------------------------------------------------------------------------
LEMMA DoneInvInit == Init => DoneInv
BY RunsAssumption DEF Init, Nothing, DoneInv, Runs, DoneOf, IsCognify, ItemsIn, Request, DatasetOf

LEMMA DoneInvStep ==
    TypeOK /\ ValidInv /\ ItemInv /\ LockInv /\ ProcessInv /\ StaleInv /\ DoneInv /\ [Next]_vars => DoneInv'
<1> SUFFICES ASSUME TypeOK, ValidInv, ItemInv, LockInv, ProcessInv, StaleInv, DoneInv, [Next]_vars
             PROVE  DoneInv'
    OBVIOUS
<1> USE RunsAssumption
<1>1. ASSUME NEW d \in Datasets, RecoverySkips(d) \/ RecoveryReads(d) \/ RecoveryDeletes(d) \/
             RecoveryLogs(d) \/ RecoveryFails(d) \/ AddResets(d)
      PROVE  UNCHANGED <<plan, run, task, marker>>
    BY <1>1
       DEF RecoverySkips, RecoveryReads, RecoveryDeletes, RecoveryLogs, RecoveryFails,
           AddResets, DeleteArtifacts, setup, store
<1>2. ASSUME Restart \/ RecoveryEnds
      PROVE  UNCHANGED <<plan, run, task, marker>>
    BY <1>2 DEF Restart, RecoveryEnds, setup, store
<1>3. ASSUME NEW c \in Calls, BeginCall(c) PROVE DoneInv'
    <2>1. plan' = plan /\ marker' = marker
        BY <1>3 DEF BeginCall, setup, store, startup
    <2>2. \A q \in Runs : run'[q] \in Working => run'[q] = run[q] /\ task'[q] = task[q]
        BY <1>3 DEF BeginCall, setup, store, startup, TypeOK, Working, Locked
    <2> QED
        BY <2>1, <2>2, DoneKept DEF DoneInv
<1>4. ASSUME NEW r \in Runs, AnswerRun(r) PROVE DoneInv'
    <2>1. plan' = plan /\ marker' = marker
        BY <1>4
           DEF AnswerRun, setup, store, startup, FirstAnswer, Runs, NotLast, NextOf,
               Locked, Working, RollingBack
    <2>2. \A q \in Runs : run'[q] \in Working => run'[q] = run[q] /\ task'[q] = task[q]
        BY <1>4
           DEF AnswerRun, setup, store, startup, FirstAnswer, Runs, NotLast, NextOf,
               Locked, Working, RollingBack, TypeOK
    <2> QED
        BY <2>1, <2>2, DoneKept DEF DoneInv
<1>5. ASSUME NEW r \in Runs, StartRun(r) PROVE DoneInv'
    <2>1. plan' = plan /\ marker' = marker
        BY <1>5
           DEF StartRun, setup, store, startup, LogRow, FirstAnswer, Runs, NotLast,
               NextOf, Locked, Working, RollingBack
    <2>2. \A q \in Runs : run'[q] \in Working => run'[q] = run[q] /\ task'[q] = task[q]
        BY <1>5
           DEF StartRun, setup, store, startup, LogRow, FirstAnswer, Runs, NotLast,
               NextOf, Locked, Working, RollingBack, TypeOK
    <2> QED
        BY <2>1, <2>2, DoneKept DEF DoneInv
<1>6. ASSUME NEW r \in Runs, FinishAnswered(r) PROVE DoneInv'
    <2>1. plan' = plan /\ marker' = marker
        BY <1>6
           DEF FinishAnswered, setup, store, startup, Driven, EndRun, Runs, NotLast,
               NextOf, Forget, Nothing
    <2>2. \A q \in Runs : run'[q] \in Working => run'[q] = run[q] /\ task'[q] = task[q]
        BY <1>6
           DEF FinishAnswered, setup, store, startup, Driven, EndRun, Runs, NotLast,
               NextOf, Forget, Nothing, TypeOK, Working, Locked
    <2> QED
        BY <2>1, <2>2, DoneKept DEF DoneInv
<1>7. ASSUME NEW r \in Runs, EnterContext(r) PROVE DoneInv'
    <2>1. plan' = plan /\ marker' = marker
        BY <1>7 DEF EnterContext, setup, store, startup, Driven
    <2>2. \A q \in Runs : q # r => run'[q] = run[q] /\ task'[q] = task[q]
        BY <1>7 DEF EnterContext, setup, store, startup, Driven, TypeOK
    <2>3. \A q \in Runs : q # r => DoneOf(q)'
        BY <2>1, <2>2, DoneKept
    <2>4. DoneOf(r) /\ ItemsIn(r)' = ItemsIn(r) /\ IsCognify(r)' = IsCognify(r)
        BY <2>1 DEF DoneInv, ItemsIn, DatasetOf, IsCognify, Request
    <2>5. run'[r] = "working" /\ \A i \in ItemsIn(r) : i \in Items => task'[r][i] = "ready"
        BY <1>7 DEF EnterContext, TypeOK
    <2>6. ItemsIn(r) \subseteq Items
        BY <1>7, RequestFacts, RunsAssumption DEF EnterContext, ValidInv, ItemsIn
    <2>9. DoneOf(r)'
        BY <2>4, <2>5, <2>6 DEF DoneOf
    <2> QED
        BY <2>3, <2>9 DEF DoneInv
<1>8. ASSUME NEW r \in Runs, GatherErrors(r) PROVE DoneInv'
    <2>1. plan' = plan /\ marker' = marker
        BY <1>8 DEF GatherErrors, setup, store, startup, Fails, Going, Busy
    <2>2. \A q \in Runs : run'[q] \in Working => run'[q] = run[q] /\ task'[q] = task[q]
        BY <1>8
           DEF GatherErrors, setup, store, startup, Fails, Going, Busy, TypeOK, Working,
               Locked
    <2> QED
        BY <2>1, <2>2, DoneKept DEF DoneInv
<1>9. ASSUME NEW r \in Runs, GatherResults(r) PROVE DoneInv'
    <2>1. plan' = plan /\ marker' = marker
        BY <1>9 DEF GatherResults, setup, store, startup, Going, Busy
    <2>2. \A q \in Runs : q # r => run'[q] = run[q] /\ task'[q] = task[q]
        BY <1>9 DEF GatherResults, setup, store, startup, Going, Busy, TypeOK
    <2>3. \A q \in Runs : q # r => DoneOf(q)'
        BY <2>1, <2>2, DoneKept
    <2>4. DoneOf(r) /\ ItemsIn(r)' = ItemsIn(r) /\ IsCognify(r)' = IsCognify(r)
        BY <2>1 DEF DoneInv, ItemsIn, DatasetOf, IsCognify, Request
    <2>5. run[r] = "working" /\ run'[r] = "flushing"
        BY <1>9 DEF GatherResults, TypeOK
    <2>6. ItemsIn(r) \subseteq Items
        BY <2>5, RequestFacts, RunsAssumption DEF ValidInv, ItemsIn
    <2>7. task' = task /\ \A i \in Items : task[r][i] \in {"none", "gone", "skipped", "ok"}
        BY <1>9 DEF GatherResults, Returned, TypeOK, TaskPcs
    <2>9. DoneOf(r)'
        BY <2>1, <2>4, <2>5, <2>6, <2>7 DEF DoneOf, Going, Busy
    <2> QED
        BY <2>3, <2>9 DEF DoneInv
<1>10. ASSUME NEW r \in Runs, Complete(r) PROVE DoneInv'
    <2>1. plan' = plan /\ marker' = marker
        BY <1>10
           DEF Complete, setup, store, startup, LogRow, EndRun, Runs, NotLast, NextOf,
               Forget, Nothing
    <2>2. \A q \in Runs : run'[q] \in Working => run'[q] = run[q] /\ task'[q] = task[q]
        BY <1>10
           DEF Complete, setup, store, startup, LogRow, EndRun, Runs, NotLast, NextOf,
               Forget, Nothing, TypeOK, Working, Locked
    <2> QED
        BY <2>1, <2>2, DoneKept DEF DoneInv
<1>11. ASSUME NEW r \in Runs, RollbackReads(r) PROVE DoneInv'
    <2>1. plan' = plan /\ marker' = marker
        BY <1>11 DEF RollbackReads, setup, store, startup, ReadArtifacts, OwnedBy
    <2>2. \A q \in Runs : run'[q] \in Working => run'[q] = run[q] /\ task'[q] = task[q]
        BY <1>11
           DEF RollbackReads, setup, store, startup, ReadArtifacts, OwnedBy, TypeOK,
               Working, Locked
    <2> QED
        BY <2>1, <2>2, DoneKept DEF DoneInv
<1>12. ASSUME NEW r \in Runs, RollbackDeletes(r) PROVE DoneInv'
    <2>1. plan' = plan /\ marker' = marker
        BY <1>12 DEF RollbackDeletes, setup, startup, DeleteArtifacts, OwnedBy, Disowned
    <2>2. \A q \in Runs : run'[q] \in Working => run'[q] = run[q] /\ task'[q] = task[q]
        BY <1>12
           DEF RollbackDeletes, setup, startup, DeleteArtifacts, OwnedBy, Disowned,
               TypeOK, Working, Locked
    <2> QED
        BY <2>1, <2>2, DoneKept DEF DoneInv
<1>13. ASSUME NEW r \in Runs, RollbackResets(r) PROVE DoneInv'
    <2>1. plan' = plan /\ task' = task /\ run[r] = "resetting" /\ run'[r] = "erring"
        BY <1>13 DEF RollbackResets, setup, TypeOK
    <2>2. \A q \in Runs : q # r => run'[q] = run[q]
        BY <1>13 DEF RollbackResets, TypeOK
    <2>3. \A i \in Items \ ItemsIn(r) : marker'[i] = marker[i]
        BY <1>13 DEF RollbackResets, ResetMarkers, ItemInv
    <2>4. \A q \in Runs : q # r /\ run[q] \in Working => ItemsIn(q) \subseteq Items /\ ItemsIn(q) \cap ItemsIn(r) = {}
        <3>1. \A q \in Runs : run[q] # "none" => DatasetOf(q) \in Datasets
            BY RequestFacts DEF ValidInv
        <3>2. \A q \in Runs : q # r /\ run[q] \in Working => DatasetOf(q) # DatasetOf(r)
            BY <2>1 DEF LockInv, Locked, Working, RollingBack
        <3> QED
            BY <2>1, <3>1, <3>2, RunsAssumption DEF ItemsIn, Working
    <2>5. \A q \in Runs : DoneOf(q)'
        BY <2>1, <2>2, <2>3, <2>4, DoneKept DEF Working
    <2> QED
        BY <2>5 DEF DoneInv
<1>14. ASSUME NEW r \in Runs, LogError(r) PROVE DoneInv'
    <2>1. plan' = plan /\ marker' = marker
        BY <1>14
           DEF LogError, setup, store, startup, LogRow, EndRun, Runs, NotLast, NextOf,
               Forget, Nothing
    <2>2. \A q \in Runs : run'[q] \in Working => run'[q] = run[q] /\ task'[q] = task[q]
        BY <1>14
           DEF LogError, setup, store, startup, LogRow, EndRun, Runs, NotLast, NextOf,
               Forget, Nothing, TypeOK, Working, Locked
    <2> QED
        BY <2>1, <2>2, DoneKept DEF DoneInv
<1>15. ASSUME NEW r \in Runs, LogAndRaise(r) PROVE DoneInv'
    <2>1. plan' = plan /\ marker' = marker
        BY <1>15
           DEF LogAndRaise, setup, store, startup, LogRow, RaiseRun, Forget, Nothing
    <2>2. \A q \in Runs : run'[q] \in Working => run'[q] = run[q] /\ task'[q] = task[q]
        BY <1>15
           DEF LogAndRaise, setup, store, startup, LogRow, RaiseRun, Forget, Nothing,
               TypeOK, Working, Locked
    <2> QED
        BY <2>1, <2>2, DoneKept DEF DoneInv
<1>16. ASSUME NEW r \in Runs, CloseGenerator(r) PROVE DoneInv'
    <2>1. plan' = plan /\ marker' = marker
        BY <1>16 DEF CloseGenerator, setup, store, startup
    <2>2. \A q \in Runs : run'[q] \in Working => run'[q] = run[q] /\ task'[q] = task[q]
        BY <1>16 DEF CloseGenerator, setup, store, startup, TypeOK, Working, Locked
    <2> QED
        BY <2>1, <2>2, DoneKept DEF DoneInv
<1>17. ASSUME NEW r \in Runs, StartFails(r) PROVE DoneInv'
    <2>1. plan' = plan /\ marker' = marker
        BY <1>17 DEF StartFails, setup, store, startup, Fault, RaiseRun, Forget, Nothing
    <2>2. \A q \in Runs : run'[q] \in Working => run'[q] = run[q] /\ task'[q] = task[q]
        BY <1>17
           DEF StartFails, setup, store, startup, Fault, RaiseRun, Forget, Nothing,
               TypeOK, Working, Locked
    <2> QED
        BY <2>1, <2>2, DoneKept DEF DoneInv
<1>18. ASSUME NEW r \in Runs, EntryFails(r) PROVE DoneInv'
    <2>1. plan' = plan /\ marker' = marker
        BY <1>18
           DEF EntryFails, setup, store, startup, Fault, Driven, RaiseRun, Forget,
               Nothing
    <2>2. \A q \in Runs : run'[q] \in Working => run'[q] = run[q] /\ task'[q] = task[q]
        BY <1>18
           DEF EntryFails, setup, store, startup, Fault, Driven, RaiseRun, Forget,
               Nothing, TypeOK, Working, Locked
    <2> QED
        BY <2>1, <2>2, DoneKept DEF DoneInv
<1>19. ASSUME NEW r \in Runs, FlushFails(r) PROVE DoneInv'
    <2>1. plan' = plan /\ marker' = marker
        BY <1>19 DEF FlushFails, setup, store, startup, Fault, Fails
    <2>2. \A q \in Runs : run'[q] \in Working => run'[q] = run[q] /\ task'[q] = task[q]
        BY <1>19
           DEF FlushFails, setup, store, startup, Fault, Fails, TypeOK, Working, Locked
    <2> QED
        BY <2>1, <2>2, DoneKept DEF DoneInv
<1>20. ASSUME NEW r \in Runs, CancelRun(r) PROVE DoneInv'
    <2>1. plan' = plan /\ marker' = marker
        BY <1>20 DEF CancelRun, setup, store, startup, Going, Fault, Fails, Busy
    <2>2. \A q \in Runs : run'[q] \in Working => run'[q] = run[q] /\ task'[q] = task[q]
        BY <1>20
           DEF CancelRun, setup, store, startup, Going, Fault, Fails, Busy, TypeOK,
               Working, Locked
    <2> QED
        BY <2>1, <2>2, DoneKept DEF DoneInv
<1>21. ASSUME NEW r \in Runs, RollbackFails(r) PROVE DoneInv'
    <2>1. plan' = plan /\ marker' = marker
        BY <1>21 DEF RollbackFails, setup, store, startup, RollingBack, Fault
    <2>2. \A q \in Runs : run'[q] \in Working => run'[q] = run[q] /\ task'[q] = task[q]
        BY <1>21
           DEF RollbackFails, setup, store, startup, RollingBack, Fault, TypeOK,
               Working, Locked
    <2> QED
        BY <2>1, <2>2, DoneKept DEF DoneInv
<1>22. ASSUME NEW r \in Runs, CleanupFails(r) PROVE DoneInv'
    <2>1. plan' = plan /\ marker' = marker
        BY <1>22
           DEF CleanupFails, setup, store, startup, RollingBack, Fault, RaiseRun,
               Forget, Nothing
    <2>2. \A q \in Runs : run'[q] \in Working => run'[q] = run[q] /\ task'[q] = task[q]
        BY <1>22
           DEF CleanupFails, setup, store, startup, RollingBack, Fault, RaiseRun,
               Forget, Nothing, TypeOK, Working, Locked
    <2> QED
        BY <2>1, <2>2, DoneKept DEF DoneInv
<1>23. ASSUME NEW r \in Runs, NEW i \in Items, BeginItem(r, i) PROVE DoneInv'
    <2>1. plan' = plan /\ marker' = marker
        BY <1>23 DEF BeginItem, setup, store, startup, TaskTo
    <2>2. \A q \in Runs : q # r => run'[q] = run[q] /\ task'[q] = task[q]
        BY <1>23 DEF BeginItem, setup, store, startup, TaskTo, TypeOK
    <2>3. \A q \in Runs : q # r => DoneOf(q)'
        BY <2>1, <2>2, DoneKept
    <2>4. DoneOf(r) /\ ItemsIn(r)' = ItemsIn(r) /\ IsCognify(r)' = IsCognify(r)
        BY <2>1 DEF DoneInv, ItemsIn, DatasetOf, IsCognify, Request
    <2>5. run'[r] = run[r] /\ task[r][i] \in Going
          /\ \A j \in Items : j # i => task'[r][j] = task[r][j]
        BY <1>23 DEF BeginItem, setup, store, startup, TaskTo, TypeOK, Going, Busy
    <2>6. ItemsIn(r) \subseteq Items \/ run[r] = "none"
        BY RequestFacts, RunsAssumption DEF ValidInv, ItemsIn
    <2>7. task'[r][i] = "working" \/ (task'[r][i] = "skipped" /\ marker[i] # NoRun)
        BY <1>23 DEF BeginItem, TaskTo, TypeOK
    <2>9. DoneOf(r)'
        BY <2>1, <2>4, <2>5, <2>6, <2>7 DEF DoneOf, Going, Busy
    <2> QED
        BY <2>3, <2>9 DEF DoneInv
<1>24. ASSUME NEW r \in Runs, NEW i \in Items, LedgerItem(r, i) PROVE DoneInv'
    <2>1. plan' = plan /\ marker' = marker
        BY <1>24 DEF LedgerItem, setup, startup, TaskTo, Runs
    <2>2. \A q \in Runs : q # r => run'[q] = run[q] /\ task'[q] = task[q]
        BY <1>24 DEF LedgerItem, setup, startup, TaskTo, Runs, TypeOK
    <2>3. \A q \in Runs : q # r => DoneOf(q)'
        BY <2>1, <2>2, DoneKept
    <2>4. DoneOf(r) /\ ItemsIn(r)' = ItemsIn(r) /\ IsCognify(r)' = IsCognify(r)
        BY <2>1 DEF DoneInv, ItemsIn, DatasetOf, IsCognify, Request
    <2>5. run'[r] = run[r] /\ task[r][i] \in Going
          /\ \A j \in Items : j # i => task'[r][j] = task[r][j]
        BY <1>24 DEF LedgerItem, setup, startup, TaskTo, Runs, TypeOK, Going, Busy
    <2>6. ItemsIn(r) \subseteq Items \/ run[r] = "none"
        BY RequestFacts, RunsAssumption DEF ValidInv, ItemsIn
    <2>7. task'[r][i] = "owned"
        BY <1>24 DEF LedgerItem, TaskTo, TypeOK
    <2>9. DoneOf(r)'
        BY <2>1, <2>4, <2>5, <2>6, <2>7 DEF DoneOf, Going, Busy
    <2> QED
        BY <2>3, <2>9 DEF DoneInv
<1>25. ASSUME NEW r \in Runs, NEW i \in Items, StoreItem(r, i) PROVE DoneInv'
    <2>1. plan' = plan /\ marker' = marker
        BY <1>25 DEF StoreItem, setup, startup, TaskTo, NoteLate, Runs
    <2>2. \A q \in Runs : q # r => run'[q] = run[q] /\ task'[q] = task[q]
        BY <1>25 DEF StoreItem, setup, startup, TaskTo, NoteLate, Runs, TypeOK
    <2>3. \A q \in Runs : q # r => DoneOf(q)'
        BY <2>1, <2>2, DoneKept
    <2>4. DoneOf(r) /\ ItemsIn(r)' = ItemsIn(r) /\ IsCognify(r)' = IsCognify(r)
        BY <2>1 DEF DoneInv, ItemsIn, DatasetOf, IsCognify, Request
    <2>5. run'[r] = run[r] /\ task[r][i] \in Going
          /\ \A j \in Items : j # i => task'[r][j] = task[r][j]
        BY <1>25
           DEF StoreItem, setup, startup, TaskTo, NoteLate, Runs, TypeOK, Going, Busy
    <2>6. ItemsIn(r) \subseteq Items \/ run[r] = "none"
        BY RequestFacts, RunsAssumption DEF ValidInv, ItemsIn
    <2>7. task'[r][i] = "stored"
        BY <1>25 DEF StoreItem, TaskTo, TypeOK
    <2>9. DoneOf(r)'
        BY <2>1, <2>4, <2>5, <2>6, <2>7 DEF DoneOf, Going, Busy
    <2> QED
        BY <2>3, <2>9 DEF DoneInv
<1>26. ASSUME NEW r \in Runs, NEW i \in Items, MarkItem(r, i) PROVE DoneInv'
    <2>1. plan' = plan /\ \A j \in Items : marker[j] # NoRun => marker'[j] # NoRun
        BY <1>26 DEF TypeOK, MarkItem, setup, startup, TaskTo, NoteLate
    <2>2. \A q \in Runs : q # r => run'[q] = run[q] /\ task'[q] = task[q]
        BY <1>26 DEF TypeOK, MarkItem, setup, startup, TaskTo, NoteLate, TypeOK
    <2>0. \A q \in Runs : run[q] = "none" \/ ItemsIn(q) \subseteq Items
        BY RequestFacts, RunsAssumption DEF ValidInv, ItemsIn
    <2>3. \A q \in Runs : q # r => DoneOf(q)'
        BY <2>0, <2>1, <2>2, DoneKept DEF Working
    <2>4. DoneOf(r) /\ ItemsIn(r)' = ItemsIn(r) /\ IsCognify(r)' = IsCognify(r)
        BY <2>1 DEF DoneInv, ItemsIn, DatasetOf, IsCognify, Request
    <2>5. run'[r] = run[r] /\ task[r][i] \in Going
          /\ \A j \in Items : j # i => task'[r][j] = task[r][j]
        BY <1>26
           DEF TypeOK, MarkItem, setup, startup, TaskTo, NoteLate, TypeOK, Going, Busy
    <2>6. ItemsIn(r) \subseteq Items \/ run[r] = "none"
        BY RequestFacts, RunsAssumption DEF ValidInv, ItemsIn
    <2>7. task'[r][i] = "marked" /\ marker'[i] = r /\ r # NoRun
        BY <1>26 DEF TypeOK, MarkItem, TaskTo, TypeOK
    <2>9. DoneOf(r)'
        BY <2>1, <2>4, <2>5, <2>6, <2>7 DEF DoneOf, Going, Busy
    <2> QED
        BY <2>3, <2>9 DEF DoneInv
<1>27. ASSUME NEW r \in Runs, NEW i \in Items, FlushItem(r, i) \/ FinishCustomItem(r, i) PROVE DoneInv'
    <2>1. plan' = plan /\ marker' = marker
        BY <1>27 DEF FlushItem, FinishCustomItem, setup, store, startup, TaskTo
    <2>2. \A q \in Runs : q # r => run'[q] = run[q] /\ task'[q] = task[q]
        BY <1>27 DEF FlushItem, FinishCustomItem, setup, store, startup, TaskTo, TypeOK
    <2>3. \A q \in Runs : q # r => DoneOf(q)'
        BY <2>1, <2>2, DoneKept
    <2>4. DoneOf(r) /\ ItemsIn(r)' = ItemsIn(r) /\ IsCognify(r)' = IsCognify(r)
        BY <2>1 DEF DoneInv, ItemsIn, DatasetOf, IsCognify, Request
    <2>5. run'[r] = run[r] /\ task[r][i] \in Going
          /\ \A j \in Items : j # i => task'[r][j] = task[r][j]
        BY <1>27
           DEF FlushItem, FinishCustomItem, setup, store, startup, TaskTo, TypeOK, Going, Busy
    <2>6. ItemsIn(r) \subseteq Items \/ run[r] = "none"
        BY RequestFacts, RunsAssumption DEF ValidInv, ItemsIn
    <2>7. task'[r][i] = "ok" /\ (IsCognify(r) => task[r][i] = "marked")
        BY <1>27 DEF FlushItem, FinishCustomItem, TaskTo, TypeOK
    <2>9. DoneOf(r)'
        BY <2>1, <2>4, <2>5, <2>6, <2>7 DEF DoneOf, Going, Busy
    <2> QED
        BY <2>3, <2>9 DEF DoneInv
<1>28. ASSUME NEW r \in Runs, NEW i \in Items, ItemRaises(r, i) PROVE DoneInv'
    <2>1. plan' = plan /\ marker' = marker
        BY <1>28
           DEF ItemRaises, setup, store, startup, Busy, Fault, Fails, TaskTo
    <2>2. \A q \in Runs : q # r => run'[q] = run[q] /\ task'[q] = task[q]
        BY <1>28
           DEF ItemRaises, setup, store, startup, Busy, Fault, Fails, TaskTo,
               TypeOK
    <2>3. \A q \in Runs : q # r => DoneOf(q)'
        BY <2>1, <2>2, DoneKept
    <2>4. run'[r] \notin Working
        BY <1>28 DEF ItemRaises, Fails, Working, TypeOK
    <2>9. DoneOf(r)'
        BY <2>1, <2>4, DoneKept
    <2> QED
        BY <2>3, <2>9 DEF DoneInv
<1>29. ASSUME NEW r \in Runs, NEW i \in Items, ItemErrs(r, i) PROVE DoneInv'
    <2>1. plan' = plan /\ marker' = marker
        BY <1>29 DEF ItemErrs, setup, store, startup, Busy, Fault, TaskTo
    <2>2. \A q \in Runs : q # r => run'[q] = run[q] /\ task'[q] = task[q]
        BY <1>29
           DEF ItemErrs, setup, store, startup, Busy, Fault, TaskTo, TypeOK
    <2>3. \A q \in Runs : q # r => DoneOf(q)'
        BY <2>1, <2>2, DoneKept
    <2>4. DoneOf(r) /\ ItemsIn(r)' = ItemsIn(r) /\ IsCognify(r)' = IsCognify(r)
        BY <2>1 DEF DoneInv, ItemsIn, DatasetOf, IsCognify, Request
    <2>5. run'[r] = run[r] /\ task[r][i] \in Going
          /\ \A j \in Items : j # i => task'[r][j] = task[r][j]
        BY <1>29
           DEF ItemErrs, setup, store, startup, Busy, Fault, TaskTo, TypeOK,
               Going
    <2>6. ItemsIn(r) \subseteq Items \/ run[r] = "none"
        BY RequestFacts, RunsAssumption DEF ValidInv, ItemsIn
    <2>7. task'[r][i] = "failed"
        BY <1>29 DEF ItemErrs, TaskTo, TypeOK
    <2>9. DoneOf(r)'
        BY <2>1, <2>4, <2>5, <2>6, <2>7 DEF DoneOf, Going, Busy
    <2> QED
        BY <2>3, <2>9 DEF DoneInv
<1>30. ASSUME NEW d \in Datasets, RecoveryResets(d) PROVE DoneInv'
    <2>1. process # "up" /\ run' = run /\ plan' = plan
        BY <1>30 DEF RecoveryResets, StaleInv, setup
    <2>2. \A q \in Runs : run'[q] \notin Working
        BY <2>1 DEF ProcessInv, Locked, Working
    <2> QED
        BY <2>1, <2>2, DoneKept DEF DoneInv
<1>31. ASSUME Crash PROVE DoneInv'
    <2>1. plan' = plan /\ marker' = marker
        BY <1>31
           DEF Crash, Runs, setup, store, Locked, Going, Nothing, Fault, Working,
               RollingBack, Busy
    <2>2. \A q \in Runs : run'[q] \in Working => run'[q] = run[q] /\ task'[q] = task[q]
        BY <1>31
           DEF Crash, Runs, setup, store, Locked, Going, Nothing, Fault, Working,
               RollingBack, Busy, TypeOK
    <2> QED
        BY <2>1, <2>2, DoneKept DEF DoneInv
<1>32. CASE UNCHANGED <<plan, run, task, marker>>
    BY <1>32 DEF DoneInv, Runs, DoneOf, IsCognify, ItemsIn, Request, DatasetOf
<1>33. CASE UNCHANGED vars
    BY <1>33, <1>32 DEF vars, setup, store, startup
<1> QED
    BY <1>1, <1>2, <1>3, <1>4, <1>5, <1>6, <1>7, <1>8, <1>9, <1>10, <1>11, <1>12, <1>13,
       <1>14, <1>15, <1>16, <1>17, <1>18, <1>19, <1>20, <1>21, <1>22, <1>23, <1>24,
       <1>25, <1>26, <1>27, <1>28, <1>29, <1>30, <1>31, <1>33, <1>32 DEF Next, RunStep,
       RunFails, TaskStep, RecoveryStep

-----------------------------------------------------------------------------
LEMMA FreshInvInit == Init => FreshInv
BY RunsAssumption DEF Init, Nothing, FreshInv, Runs

LEMMA FreshInvStep ==
    TypeOK /\ IdleInv /\ OrderInv /\ RowInv /\ StaleInv /\ FreshInv /\ [Next]_vars => FreshInv'
<1> SUFFICES ASSUME TypeOK, IdleInv, OrderInv, RowInv, StaleInv, FreshInv, [Next]_vars
             PROVE  FreshInv'
    OBVIOUS
<1> USE RunsAssumption
<1>1. ASSUME NEW d \in Datasets, RecoverySkips(d) \/ AddResets(d)
      PROVE  UNCHANGED <<run, task, undo, owner>>
    BY <1>1 DEF RecoverySkips, AddResets, store
<1>2. ASSUME Restart \/ RecoveryEnds
      PROVE  UNCHANGED <<run, task, undo, owner>>
    BY <1>2 DEF Restart, RecoveryEnds, store
<1>3. ASSUME NEW c \in Calls, BeginCall(c) PROVE FreshInv'
    <2>1. \A q \in Runs : run'[q] = run[q] \/ run[q] = "none"
        BY <1>3 DEF BeginCall, TypeOK, IdleInv
    <2>2. UNCHANGED <<task, owner, undo>>
        BY <1>3 DEF BeginCall, store
    <2> QED
        BY <2>1, <2>2 DEF FreshInv
<1>4. ASSUME NEW r \in Runs, AnswerRun(r) PROVE FreshInv'
    <2>1. run[r] = "waiting" /\ FirstAnswer(r, "answered") /\ plan' = plan
        BY <1>4 DEF AnswerRun, setup
    <2>2. "answered" \in RunPcs
        BY DEF RunPcs, Locked
    <2>3. \A q \in Runs : q # r => run'[q] = run[q] \/ run[q] = "none"
        BY <2>1, <2>2, FirstAnswerRuns DEF OrderInv, Open, Runs
    <2>4. task' = task /\ owner' = owner
        BY <1>4 DEF AnswerRun, store
    <2>5. \A q \in Runs : undo'[q].target \subseteq undo[q].target
        BY <1>4 DEF AnswerRun, FirstAnswer, TypeOK
    <2>6. run'[r] = "ended" \/ run[r] \in {"none", "waiting", "answered", "started"}
        BY <1>4, <2>1
    <2> QED
        BY <2>3, <2>4, <2>5, <2>6 DEF FreshInv
<1>5. ASSUME NEW r \in Runs, StartRun(r) PROVE FreshInv'
    <2>1. run[r] = "waiting" /\ FirstAnswer(r, "started") /\ plan' = plan
        BY <1>5 DEF StartRun, setup
    <2>2. "started" \in RunPcs
        BY DEF RunPcs, Locked
    <2>3. \A q \in Runs : q # r => run'[q] = run[q] \/ run[q] = "none"
        BY <2>1, <2>2, FirstAnswerRuns DEF OrderInv, Open, Runs
    <2>4. task' = task /\ owner' = owner
        BY <1>5 DEF StartRun, store
    <2>5. \A q \in Runs : undo'[q].target \subseteq undo[q].target
        BY <1>5 DEF StartRun, FirstAnswer, TypeOK
    <2>6. run'[r] = "ended" \/ run[r] \in {"none", "waiting", "answered", "started"}
        BY <1>5, <2>1
    <2> QED
        BY <2>3, <2>4, <2>5, <2>6 DEF FreshInv
<1>6. ASSUME NEW r \in Runs, FinishAnswered(r) PROVE FreshInv'
    <2>1. run[r] = "answered" /\ EndRun(r) /\ plan' = plan
        BY <1>6 DEF FinishAnswered, setup
    <2>3. \A q \in Runs : q # r => run'[q] = run[q] \/ run[q] = "none"
        BY <2>1, EndRunRuns DEF OrderInv, Open, Runs
    <2>4. task' = task /\ owner' = owner
        BY <1>6 DEF FinishAnswered, store
    <2>5. \A q \in Runs : undo'[q].target \subseteq undo[q].target
        BY <1>6 DEF FinishAnswered, EndRun, Forget, Nothing, TypeOK
    <2>6. run'[r] = "ended" \/ run[r] \in {"none", "waiting", "answered", "started"}
        BY <1>6, <2>1, EndRunRuns
    <2> QED
        BY <2>3, <2>4, <2>5, <2>6 DEF FreshInv
<1>7. ASSUME NEW r \in Runs, EnterContext(r) PROVE FreshInv'
    BY <1>7 DEF EnterContext, ItemsIn, DatasetOf, Request, store, FreshInv, Runs, TypeOK
<1>8. ASSUME NEW r \in Runs, GatherErrors(r) PROVE FreshInv'
    BY <1>8
       DEF GatherErrors, Fails, IsCognify, Request, Processed, Returned, Going, Busy,
           store, FreshInv, Runs, TypeOK
<1>9. ASSUME NEW r \in Runs, GatherResults(r) PROVE FreshInv'
    BY <1>9 DEF GatherResults, Returned, Going, Busy, store, FreshInv, Runs, TypeOK
<1>10. ASSUME NEW r \in Runs, Complete(r) PROVE FreshInv'
    <2>1. run[r] = "flushing" /\ EndRun(r) /\ plan' = plan
        BY <1>10 DEF Complete, setup
    <2>3. \A q \in Runs : q # r => run'[q] = run[q] \/ run[q] = "none"
        BY <2>1, EndRunRuns DEF OrderInv, Open, Runs
    <2>4. task' = task /\ owner' = owner
        BY <1>10 DEF Complete, store
    <2>5. \A q \in Runs : undo'[q].target \subseteq undo[q].target
        BY <1>10 DEF Complete, EndRun, Forget, Nothing, TypeOK
    <2>6. run'[r] = "ended" \/ run[r] \in {"none", "waiting", "answered", "started"}
        BY <1>10, <2>1, EndRunRuns
    <2> QED
        BY <2>3, <2>4, <2>5, <2>6 DEF FreshInv
<1>11. ASSUME NEW r \in Runs, RollbackReads(r) PROVE FreshInv'
    BY <1>11 DEF RollbackReads, ReadArtifacts, OwnedBy, store, FreshInv, Runs, TypeOK
<1>12. ASSUME NEW r \in Runs, RollbackDeletes(r) PROVE FreshInv'
    BY <1>12
       DEF RollbackDeletes, DeleteArtifacts, Disowned, OwnedBy, FreshInv, Runs, TypeOK
<1>13. ASSUME NEW r \in Runs, RollbackResets(r) PROVE FreshInv'
    BY <1>13 DEF RollbackResets, ResetMarkers, Disowned, FreshInv, Runs, TypeOK
<1>14. ASSUME NEW r \in Runs, LogError(r) PROVE FreshInv'
    <2>1. run[r] = "erring" /\ EndRun(r) /\ plan' = plan
        BY <1>14 DEF LogError, setup
    <2>3. \A q \in Runs : q # r => run'[q] = run[q] \/ run[q] = "none"
        BY <2>1, EndRunRuns DEF OrderInv, Open, Runs
    <2>4. task' = task /\ owner' = owner
        BY <1>14 DEF LogError, store
    <2>5. \A q \in Runs : undo'[q].target \subseteq undo[q].target
        BY <1>14 DEF LogError, EndRun, Forget, Nothing, TypeOK
    <2>6. run'[r] = "ended" \/ run[r] \in {"none", "waiting", "answered", "started"}
        BY <1>14, <2>1, EndRunRuns
    <2> QED
        BY <2>3, <2>4, <2>5, <2>6 DEF FreshInv
<1>15. ASSUME NEW r \in Runs, LogAndRaise(r) PROVE FreshInv'
    BY <1>15 DEF LogAndRaise, RaiseRun, Forget, Nothing, store, FreshInv, Runs, TypeOK
<1>16. ASSUME NEW r \in Runs, CloseGenerator(r) PROVE FreshInv'
    BY <1>16 DEF CloseGenerator, store, FreshInv, Runs, TypeOK
<1>17. ASSUME NEW r \in Runs, StartFails(r) PROVE FreshInv'
    BY <1>17 DEF StartFails, RaiseRun, Forget, Nothing, store, FreshInv, Runs, TypeOK
<1>18. ASSUME NEW r \in Runs, EntryFails(r) PROVE FreshInv'
    BY <1>18 DEF EntryFails, RaiseRun, Forget, Nothing, store, FreshInv, Runs, TypeOK
<1>19. ASSUME NEW r \in Runs, FlushFails(r) PROVE FreshInv'
    BY <1>19
       DEF FlushFails, Fails, IsCognify, Request, Processed, store, FreshInv, Runs,
           TypeOK
<1>20. ASSUME NEW r \in Runs, CancelRun(r) PROVE FreshInv'
    BY <1>20
       DEF CancelRun, Fails, IsCognify, Request, Going, Busy, store, FreshInv, Runs,
           TypeOK
<1>21. ASSUME NEW r \in Runs, RollbackFails(r) PROVE FreshInv'
    BY <1>21 DEF RollbackFails, RollingBack, store, FreshInv, Runs, TypeOK
<1>22. ASSUME NEW r \in Runs, CleanupFails(r) PROVE FreshInv'
    BY <1>22
       DEF CleanupFails, RaiseRun, Forget, Nothing, RollingBack, store, FreshInv, Runs,
           TypeOK
<1>23. ASSUME NEW r \in Runs, NEW i \in Items, BeginItem(r, i) PROVE FreshInv'
    BY <1>23 DEF BeginItem, TaskTo, store, FreshInv, Runs, TypeOK
<1>24. ASSUME NEW r \in Runs, NEW i \in Items, LedgerItem(r, i) PROVE FreshInv'
    BY <1>24 DEF LedgerItem, TaskTo, Owns, Runs, FreshInv, TypeOK
<1>25. ASSUME NEW r \in Runs, NEW i \in Items, StoreItem(r, i) PROVE FreshInv'
    BY <1>25 DEF StoreItem, TaskTo, Owns, Runs, FreshInv, TypeOK
<1>26. ASSUME NEW r \in Runs, NEW i \in Items, MarkItem(r, i) PROVE FreshInv'
    BY <1>26 DEF MarkItem, TaskTo, FreshInv, Runs, TypeOK
<1>27. ASSUME NEW r \in Runs, NEW i \in Items, FlushItem(r, i) \/ FinishCustomItem(r, i)
      PROVE  FreshInv'
    <2>1. CASE FlushItem(r, i)
        BY <2>1 DEF FlushItem, TaskTo, store, FreshInv, Runs, TypeOK
    <2>2. CASE FinishCustomItem(r, i)
        BY <2>2 DEF FinishCustomItem, TaskTo, store, FreshInv, Runs, TypeOK
    <2> QED
        BY <1>27, <2>1, <2>2
<1>28. ASSUME NEW r \in Runs, NEW i \in Items, ItemRaises(r, i) PROVE FreshInv'
    BY <1>28
       DEF ItemRaises, Going, Fails, IsCognify, Request, TaskTo, Busy, store, FreshInv, Runs,
           TypeOK
<1>29. ASSUME NEW r \in Runs, NEW i \in Items, ItemErrs(r, i) PROVE FreshInv'
    BY <1>29 DEF ItemErrs, Going, TaskTo, Busy, store, FreshInv, Runs, TypeOK
<1>30. ASSUME NEW d \in Datasets, RecoveryReads(d) PROVE FreshInv'
    BY <1>30 DEF RecoveryReads, ReadArtifacts, OwnedBy, store, FreshInv, Runs, TypeOK
<1>31. ASSUME NEW d \in Datasets, RecoveryDeletes(d) PROVE FreshInv'
    BY <1>31
       DEF RecoveryDeletes, DeleteArtifacts, Disowned, OwnedBy, FreshInv, Runs, TypeOK
<1>32. ASSUME NEW d \in Datasets, RecoveryResets(d) PROVE FreshInv'
    BY <1>32 DEF RecoveryResets, ResetMarkers, Disowned, FreshInv, Runs, TypeOK
<1>33. ASSUME NEW d \in Datasets, RecoveryLogs(d) PROVE FreshInv'
    BY <1>33 DEF RecoveryLogs, Nothing, StaleRun, store, FreshInv, Runs, TypeOK
<1>34. ASSUME NEW d \in Datasets, RecoveryFails(d) PROVE FreshInv'
    BY <1>34 DEF RecoveryFails, Nothing, StaleRun, store, FreshInv, Runs, TypeOK
<1>35. ASSUME Crash PROVE FreshInv'
    BY <1>35
       DEF Crash, Locked, Working, RollingBack, Runs, Going, Busy, Nothing, store,
           FreshInv, TypeOK
<1>36. CASE UNCHANGED <<run, task, undo, owner>>
    BY <1>36 DEF FreshInv, Runs
<1>37. CASE UNCHANGED vars
    BY <1>37, <1>36 DEF vars, setup, store, startup
<1> QED
    BY <1>1, <1>2, <1>3, <1>4, <1>5, <1>6, <1>7, <1>8, <1>9, <1>10, <1>11, <1>12, <1>13,
       <1>14, <1>15, <1>16, <1>17, <1>18, <1>19, <1>20, <1>21, <1>22, <1>23, <1>24,
       <1>25, <1>26, <1>27, <1>28, <1>29, <1>30, <1>31, <1>32, <1>33, <1>34, <1>35,
       <1>37, <1>36 DEF Next, RunStep, RunFails, TaskStep, RecoveryStep

-----------------------------------------------------------------------------
LEMMA ReadInvInit == Init => ReadInv
BY RunsAssumption DEF Init, Nothing, ReadInv, Runs

LEMMA ReadInvStep ==
    TypeOK /\ RowInv /\ StaleInv /\ ReadInv /\ [Next]_vars => ReadInv'
<1> SUFFICES ASSUME TypeOK, RowInv, StaleInv, ReadInv, [Next]_vars
             PROVE  ReadInv'
    OBVIOUS
<1> USE RunsAssumption
<1>1. ASSUME NEW c \in Calls, BeginCall(c)
      PROVE  UNCHANGED <<undo>>
    BY <1>1 DEF BeginCall
<1>2. ASSUME NEW r \in Runs, AnswerRun(r) \/ StartRun(r) \/ EnterContext(r) \/ GatherResults(r) \/
             RollbackDeletes(r) \/ RollbackResets(r) \/ CloseGenerator(r) \/ RollbackFails(r)
      PROVE  UNCHANGED <<undo>>
    BY <1>2
       DEF AnswerRun, StartRun, EnterContext, GatherResults, RollbackDeletes,
           RollbackResets, CloseGenerator, RollbackFails
<1>3. ASSUME NEW r \in Runs, NEW i \in Items, BeginItem(r, i) \/ LedgerItem(r, i) \/ StoreItem(r, i) \/
             MarkItem(r, i) \/ FlushItem(r, i) \/ FinishCustomItem(r, i) \/ ItemErrs(r, i)
      PROVE  UNCHANGED <<undo>>
    BY <1>3 DEF BeginItem, LedgerItem, StoreItem, MarkItem, FlushItem, FinishCustomItem, ItemErrs
<1>4. ASSUME NEW d \in Datasets, RecoverySkips(d) \/ RecoveryDeletes(d) \/ RecoveryResets(d) \/
             AddResets(d)
      PROVE  UNCHANGED <<undo>>
    BY <1>4 DEF RecoverySkips, RecoveryDeletes, RecoveryResets, AddResets
<1>5. ASSUME Restart \/ RecoveryEnds
      PROVE  UNCHANGED <<undo>>
    BY <1>5 DEF Restart, RecoveryEnds
<1>6. ASSUME NEW r \in Runs, FinishAnswered(r) PROVE ReadInv'
    BY <1>6
       DEF FinishAnswered, EndRun, Forget, Request, NotLast, Nothing, ReadInv, Runs,
           TypeOK
<1>7. ASSUME NEW r \in Runs, GatherErrors(r) PROVE ReadInv'
    BY <1>7
       DEF GatherErrors, Fails, Processed, Returned, Going, Busy, ReadInv, Runs, TypeOK
<1>8. ASSUME NEW r \in Runs, Complete(r) PROVE ReadInv'
    BY <1>8
       DEF Complete, EndRun, Forget, Request, NotLast, Nothing, ReadInv, Runs, TypeOK
<1>9. ASSUME NEW r \in Runs, RollbackReads(r) PROVE ReadInv'
    BY <1>9 DEF RollbackReads, ReadArtifacts, OwnedBy, ReadInv, Runs, TypeOK
<1>10. ASSUME NEW r \in Runs, LogError(r) PROVE ReadInv'
    BY <1>10
       DEF LogError, EndRun, Forget, Request, NotLast, Nothing, ReadInv, Runs, TypeOK
<1>11. ASSUME NEW r \in Runs, LogAndRaise(r) PROVE ReadInv'
    BY <1>11 DEF LogAndRaise, RaiseRun, Forget, Nothing, ReadInv, Runs, TypeOK
<1>12. ASSUME NEW r \in Runs, StartFails(r) PROVE ReadInv'
    BY <1>12 DEF StartFails, RaiseRun, Forget, Nothing, ReadInv, Runs, TypeOK
<1>13. ASSUME NEW r \in Runs, EntryFails(r) PROVE ReadInv'
    BY <1>13 DEF EntryFails, RaiseRun, Forget, Nothing, ReadInv, Runs, TypeOK
<1>14. ASSUME NEW r \in Runs, FlushFails(r) PROVE ReadInv'
    BY <1>14 DEF FlushFails, Fails, Processed, ReadInv, Runs, TypeOK
<1>15. ASSUME NEW r \in Runs, CancelRun(r) PROVE ReadInv'
    BY <1>15 DEF CancelRun, Fails, ReadInv, Runs, TypeOK
<1>16. ASSUME NEW r \in Runs, CleanupFails(r) PROVE ReadInv'
    BY <1>16
       DEF CleanupFails, RaiseRun, Forget, Nothing, RollingBack, ReadInv, Runs, TypeOK
<1>17. ASSUME NEW r \in Runs, NEW i \in Items, ItemRaises(r, i) PROVE ReadInv'
    BY <1>17 DEF ItemRaises, Going, Fails, Busy, ReadInv, Runs, TypeOK
<1>18. ASSUME NEW d \in Datasets, RecoveryReads(d) PROVE ReadInv'
    BY <1>18 DEF RecoveryReads, ReadArtifacts, OwnedBy, ReadInv, Runs, TypeOK
<1>19. ASSUME NEW d \in Datasets, RecoveryLogs(d) PROVE ReadInv'
    BY <1>19 DEF RecoveryLogs, Nothing, StaleRun, ReadInv, Runs, TypeOK
<1>20. ASSUME NEW d \in Datasets, RecoveryFails(d) PROVE ReadInv'
    BY <1>20 DEF RecoveryFails, Nothing, StaleRun, ReadInv, Runs, TypeOK
<1>21. ASSUME Crash PROVE ReadInv'
    BY <1>21 DEF Crash, Nothing, Runs, Locked, ReadInv, TypeOK
<1>22. CASE UNCHANGED <<undo>>
    BY <1>22 DEF ReadInv, Runs
<1>23. CASE UNCHANGED vars
    BY <1>23, <1>22 DEF vars, setup, store, startup
<1> QED
    BY <1>1, <1>2, <1>3, <1>4, <1>5, <1>6, <1>7, <1>8, <1>9, <1>10, <1>11, <1>12, <1>13,
       <1>14, <1>15, <1>16, <1>17, <1>18, <1>19, <1>20, <1>21, <1>23, <1>22 DEF Next,
       RunStep, RunFails, TaskStep, RecoveryStep

-----------------------------------------------------------------------------
LEMMA StoredInvInit == Init => StoredInv
BY RunsAssumption DEF Init, Nothing, StoredInv, Runs

LEMMA StoredInvStep ==
    TypeOK /\ ValidInv /\ IdleInv /\ OrderInv /\ LockInv /\ ProcessInv /\ StaleInv /\ ItemInv /\ StoredInv /\ [Next]_vars => StoredInv'
<1> SUFFICES ASSUME TypeOK, ValidInv, IdleInv, OrderInv, LockInv, ProcessInv, StaleInv, ItemInv, StoredInv, [Next]_vars
             PROVE  StoredInv'
    OBVIOUS
<1> USE RunsAssumption
<1>1. ASSUME NEW d \in Datasets, RecoverySkips(d) \/ RecoveryReads(d) \/ RecoveryLogs(d) \/
             RecoveryFails(d) \/ AddResets(d)
      PROVE  UNCHANGED <<run, task, graph, torn, late>>
    BY <1>1
       DEF RecoverySkips, RecoveryReads, RecoveryLogs, RecoveryFails, AddResets, store
<1>2. ASSUME Restart \/ RecoveryEnds
      PROVE  UNCHANGED <<run, task, graph, torn, late>>
    BY <1>2 DEF Restart, RecoveryEnds, store
<1>3. ASSUME NEW c \in Calls, BeginCall(c) PROVE StoredInv'
    BY <1>3 DEF BeginCall, store, StoredInv, Runs, TypeOK
<1>4. ASSUME NEW r \in Runs, AnswerRun(r) PROVE StoredInv'
    <2>1. run[r] = "waiting" /\ FirstAnswer(r, "answered") /\ plan' = plan
        BY <1>4 DEF AnswerRun, setup
    <2>2. "answered" \in RunPcs
        BY DEF RunPcs, Locked
    <2>3. UNCHANGED <<task, graph, torn, late>>
        BY <1>4 DEF AnswerRun, store
    <2>4. \A q \in Runs : run'[q] = "working" => run[q] = "working"
        BY <2>1, <2>2, FirstAnswerRuns
    <2> QED
        BY <2>3, <2>4 DEF StoredInv
<1>5. ASSUME NEW r \in Runs, StartRun(r) PROVE StoredInv'
    <2>1. run[r] = "waiting" /\ FirstAnswer(r, "started") /\ plan' = plan
        BY <1>5 DEF StartRun, setup
    <2>2. "started" \in RunPcs
        BY DEF RunPcs, Locked
    <2>3. UNCHANGED <<task, graph, torn, late>>
        BY <1>5 DEF StartRun, store
    <2>4. \A q \in Runs : run'[q] = "working" => run[q] = "working"
        BY <2>1, <2>2, FirstAnswerRuns
    <2> QED
        BY <2>3, <2>4 DEF StoredInv
<1>6. ASSUME NEW r \in Runs, FinishAnswered(r) PROVE StoredInv'
    BY <1>6
       DEF FinishAnswered, EndRun, NextOf, Runs, Request, NotLast, store, StoredInv,
           TypeOK
<1>7. ASSUME NEW r \in Runs, EnterContext(r) PROVE StoredInv'
    BY <1>7
       DEF EnterContext, ItemsIn, DatasetOf, Request, store, StoredInv, Runs, TypeOK
<1>8. ASSUME NEW r \in Runs, GatherErrors(r) PROVE StoredInv'
    BY <1>8
       DEF GatherErrors, Fails, IsCognify, Request, Returned, Going, Busy, store,
           StoredInv, Runs, TypeOK
<1>9. ASSUME NEW r \in Runs, GatherResults(r) PROVE StoredInv'
    BY <1>9 DEF GatherResults, Returned, Going, Busy, store, StoredInv, Runs, TypeOK
<1>10. ASSUME NEW r \in Runs, Complete(r) PROVE StoredInv'
    BY <1>10
       DEF Complete, EndRun, NextOf, Runs, Request, NotLast, store, StoredInv, TypeOK
<1>11. ASSUME NEW r \in Runs, RollbackReads(r) PROVE StoredInv'
    BY <1>11 DEF RollbackReads, store, StoredInv, Runs, TypeOK
<1>12. ASSUME NEW r \in Runs, RollbackDeletes(r) PROVE StoredInv'
    BY <1>12 DEF RollbackDeletes, DeleteArtifacts, OwnedBy, StoredInv, Runs, TypeOK
<1>13. ASSUME NEW r \in Runs, RollbackResets(r) PROVE StoredInv'
    <2>1. UNCHANGED <<task, graph, late>> /\ torn' = torn \ undo[r].read
        BY <1>13 DEF RollbackResets, ResetMarkers
    <2>2. run[r] = "resetting" /\ run'[r] = "erring" /\ \A q \in Runs : q # r => run'[q] = run[q]
        BY <1>13 DEF RollbackResets, TypeOK
    <2>3. \A q \in Runs, i \in Items :
              q # r /\ run[q] = "working" /\ task[q][i] = "stored" => i \notin undo[r].read
        BY <2>2, ItemsApart DEF ItemInv, Locked, Working, RollingBack
    <2> QED
        BY <2>1, <2>2, <2>3 DEF StoredInv
<1>14. ASSUME NEW r \in Runs, LogError(r) PROVE StoredInv'
    BY <1>14
       DEF LogError, EndRun, NextOf, Runs, Request, NotLast, store, StoredInv, TypeOK
<1>15. ASSUME NEW r \in Runs, LogAndRaise(r) PROVE StoredInv'
    BY <1>15 DEF LogAndRaise, RaiseRun, store, StoredInv, Runs, TypeOK
<1>16. ASSUME NEW r \in Runs, CloseGenerator(r) PROVE StoredInv'
    BY <1>16 DEF CloseGenerator, store, StoredInv, Runs, TypeOK
<1>17. ASSUME NEW r \in Runs, StartFails(r) PROVE StoredInv'
    BY <1>17 DEF StartFails, RaiseRun, store, StoredInv, Runs, TypeOK
<1>18. ASSUME NEW r \in Runs, EntryFails(r) PROVE StoredInv'
    BY <1>18 DEF EntryFails, RaiseRun, store, StoredInv, Runs, TypeOK
<1>19. ASSUME NEW r \in Runs, FlushFails(r) PROVE StoredInv'
    BY <1>19 DEF FlushFails, Fails, IsCognify, Request, store, StoredInv, Runs, TypeOK
<1>20. ASSUME NEW r \in Runs, CancelRun(r) PROVE StoredInv'
    BY <1>20
       DEF CancelRun, Fails, IsCognify, Request, Going, Busy, store, StoredInv, Runs,
           TypeOK
<1>21. ASSUME NEW r \in Runs, RollbackFails(r) PROVE StoredInv'
    BY <1>21 DEF RollbackFails, RollingBack, store, StoredInv, Runs, TypeOK
<1>22. ASSUME NEW r \in Runs, CleanupFails(r) PROVE StoredInv'
    BY <1>22 DEF CleanupFails, RaiseRun, RollingBack, store, StoredInv, Runs, TypeOK
<1>23. ASSUME NEW r \in Runs, NEW i \in Items, BeginItem(r, i) PROVE StoredInv'
    BY <1>23 DEF BeginItem, TaskTo, store, StoredInv, Runs, TypeOK
<1>24. ASSUME NEW r \in Runs, NEW i \in Items, LedgerItem(r, i) PROVE StoredInv'
    BY <1>24 DEF LedgerItem, TaskTo, StoredInv, Runs, TypeOK
<1>25. ASSUME NEW r \in Runs, NEW i \in Items, StoreItem(r, i) PROVE StoredInv'
    BY <1>25 DEF StoreItem, TaskTo, NoteLate, StoredInv, Runs, TypeOK
<1>26. ASSUME NEW r \in Runs, NEW i \in Items, MarkItem(r, i) PROVE StoredInv'
    BY <1>26 DEF MarkItem, TaskTo, NoteLate, StoredInv, Runs, TypeOK
<1>27. ASSUME NEW r \in Runs, NEW i \in Items, FlushItem(r, i) \/ FinishCustomItem(r, i) PROVE StoredInv'
    BY <1>27 DEF FlushItem, FinishCustomItem, TaskTo, store, StoredInv, Runs, TypeOK
<1>28. ASSUME NEW r \in Runs, NEW i \in Items, ItemRaises(r, i) PROVE StoredInv'
    BY <1>28
       DEF ItemRaises, Going, Fails, IsCognify, Request, TaskTo, Busy, store, StoredInv, Runs,
           TypeOK
<1>29. ASSUME NEW r \in Runs, NEW i \in Items, ItemErrs(r, i) PROVE StoredInv'
    BY <1>29 DEF ItemErrs, Going, TaskTo, Busy, store, StoredInv, Runs, TypeOK
<1>30. ASSUME NEW d \in Datasets, RecoveryDeletes(d) PROVE StoredInv'
    BY <1>30 DEF RecoveryDeletes, DeleteArtifacts, OwnedBy, StoredInv, Runs, TypeOK
<1>31. ASSUME NEW d \in Datasets, RecoveryResets(d) PROVE StoredInv'
    <2>1. process # "up" /\ run' = run
        BY <1>31 DEF RecoveryResets, StaleInv
    <2> QED
        BY <2>1 DEF ProcessInv, StoredInv, Locked, Working
<1>32. ASSUME Crash PROVE StoredInv'
    BY <1>32
       DEF Crash, Locked, Working, RollingBack, Runs, Going, Busy, store, StoredInv,
           TypeOK
<1>33. CASE UNCHANGED <<run, task, graph, torn, late>>
    BY <1>33 DEF StoredInv, Runs
<1>34. CASE UNCHANGED vars
    BY <1>34, <1>33 DEF vars, setup, store, startup
<1> QED
    BY <1>1, <1>2, <1>3, <1>4, <1>5, <1>6, <1>7, <1>8, <1>9, <1>10, <1>11, <1>12, <1>13,
       <1>14, <1>15, <1>16, <1>17, <1>18, <1>19, <1>20, <1>21, <1>22, <1>23, <1>24,
       <1>25, <1>26, <1>27, <1>28, <1>29, <1>30, <1>31, <1>32, <1>34, <1>33 DEF Next,
       RunStep, RunFails, TaskStep, RecoveryStep

-----------------------------------------------------------------------------
LEMMA SweepInvInit == Init => SweepInv
BY RunsAssumption DEF Init, Nothing, SweepInv, Runs, Deleting, Resetting, Owned, StaleRun

LEMMA SweepInvStep ==
    TypeOK /\ ValidInv /\ LockInv /\ ProcessInv /\ RowInv /\ StaleInv /\ ItemInv /\ SweepInv /\ ArtifactsAreOwned /\ TornIsInLedger /\ [Next]_vars => SweepInv'
<1> SUFFICES ASSUME TypeOK, ValidInv, LockInv, ProcessInv, RowInv, StaleInv, ItemInv, SweepInv, ArtifactsAreOwned, TornIsInLedger, [Next]_vars
             PROVE  SweepInv'
    OBVIOUS
<1> USE RunsAssumption
<1>1. ASSUME NEW d \in Datasets, RecoverySkips(d)
      PROVE  UNCHANGED <<inGraph, run, task, undo, graph, owner, latest, recovery, torn, late>>
    BY <1>1 DEF RecoverySkips, setup, store, startup
<1>2. ASSUME Restart \/ RecoveryEnds
      PROVE  UNCHANGED <<inGraph, run, task, undo, graph, owner, latest, recovery, torn, late>>
    BY <1>2 DEF Restart, RecoveryEnds, setup, store, startup
<1>3. ASSUME NEW c \in Calls, BeginCall(c) PROVE SweepInv'
    <2>1. recovery' = <<"pick">> \/ UNCHANGED <<recovery, latest>>
        BY <1>3, UpFacts DEF BeginCall, startup
    <2>2. UNCHANGED <<inGraph, graph, owner, torn>> /\ late \subseteq late'
        BY <1>3 DEF BeginCall, setup, store
    <2>3. \A q \in Runs : run'[q] \in {"deleting", "resetting"} => run'[q] = run[q]
        BY <1>3 DEF BeginCall, setup, store, startup, TypeOK, RollingBack
    <2>4. \A q \in Runs : \/ undo'[q] = undo[q]
                          \/ run'[q] \notin {"deleting", "resetting"} /\ recovery' = <<"pick">>
        BY <1>3, <2>1 DEF BeginCall, setup, store, startup, TypeOK, RollingBack
    <2>5. \A q \in Runs, j \in Items : run'[q] = "working" /\ task'[q][j] = "owned"
                                     => run[q] = "working" /\ task[q][j] = "owned"
        BY <1>3 DEF BeginCall, setup, store, startup, TypeOK, Going, Busy
    <2> QED
        BY <2>1, <2>2, <2>3, <2>4, <2>5, SweepKept
<1>4. ASSUME NEW r \in Runs, AnswerRun(r) PROVE SweepInv'
    <2>1. process = "up" /\ recovery = <<"pick">> /\ recovery' = recovery
        BY <1>4, UpFacts
           DEF AnswerRun, startup, Locked, Working, RollingBack, Going, Busy
    <2>2. UNCHANGED <<inGraph, graph, owner, torn>> /\ late \subseteq late'
        BY <1>4 DEF AnswerRun, setup, store
    <2>3. \A q \in Runs : run'[q] \in {"deleting", "resetting"} => run'[q] = run[q]
        BY <1>4
           DEF AnswerRun, setup, store, startup, FirstAnswer, Runs, NotLast, NextOf,
               Locked, Working, RollingBack, TypeOK
    <2>4. \A q \in Runs : \/ undo'[q] = undo[q]
                          \/ run'[q] \notin {"deleting", "resetting"} /\ recovery' = <<"pick">>
        BY <1>4, <2>1
           DEF AnswerRun, setup, store, startup, FirstAnswer, Runs, NotLast, NextOf,
               Locked, Working, RollingBack, TypeOK
    <2>5. \A q \in Runs, j \in Items : run'[q] = "working" /\ task'[q][j] = "owned"
                                     => run[q] = "working" /\ task[q][j] = "owned"
        BY <1>4
           DEF AnswerRun, setup, store, startup, FirstAnswer, Runs, NotLast, NextOf,
               Locked, Working, RollingBack, TypeOK, Going, Busy
    <2> QED
        BY <2>1, <2>2, <2>3, <2>4, <2>5, SweepKept
<1>5. ASSUME NEW r \in Runs, StartRun(r) PROVE SweepInv'
    <2>1. process = "up" /\ recovery = <<"pick">> /\ recovery' = recovery
        BY <1>5, UpFacts
           DEF StartRun, startup, Locked, Working, RollingBack, Going, Busy
    <2>2. UNCHANGED <<inGraph, graph, owner, torn>> /\ late \subseteq late'
        BY <1>5 DEF StartRun, setup, store
    <2>3. \A q \in Runs : run'[q] \in {"deleting", "resetting"} => run'[q] = run[q]
        BY <1>5
           DEF StartRun, setup, store, startup, FirstAnswer, Runs, NotLast, NextOf,
               Locked, Working, RollingBack, TypeOK
    <2>4. \A q \in Runs : \/ undo'[q] = undo[q]
                          \/ run'[q] \notin {"deleting", "resetting"} /\ recovery' = <<"pick">>
        BY <1>5, <2>1
           DEF StartRun, setup, store, startup, FirstAnswer, Runs, NotLast, NextOf,
               Locked, Working, RollingBack, TypeOK
    <2>5. \A q \in Runs, j \in Items : run'[q] = "working" /\ task'[q][j] = "owned"
                                     => run[q] = "working" /\ task[q][j] = "owned"
        BY <1>5
           DEF StartRun, setup, store, startup, FirstAnswer, Runs, NotLast, NextOf,
               Locked, Working, RollingBack, TypeOK, Going, Busy
    <2> QED
        BY <2>1, <2>2, <2>3, <2>4, <2>5, SweepKept
<1>6. ASSUME NEW r \in Runs, FinishAnswered(r) PROVE SweepInv'
    <2>1. process = "up" /\ recovery = <<"pick">> /\ recovery' = recovery
        BY <1>6, UpFacts
           DEF FinishAnswered, startup, Locked, Working, RollingBack, Going, Busy
    <2>2. UNCHANGED <<inGraph, graph, owner, torn>> /\ late \subseteq late'
        BY <1>6 DEF FinishAnswered, setup, store
    <2>3. \A q \in Runs : run'[q] \in {"deleting", "resetting"} => run'[q] = run[q]
        BY <1>6
           DEF FinishAnswered, setup, store, startup, Driven, EndRun, Runs, NotLast,
               NextOf, Forget, Nothing, TypeOK, RollingBack
    <2>4. \A q \in Runs : \/ undo'[q] = undo[q]
                          \/ run'[q] \notin {"deleting", "resetting"} /\ recovery' = <<"pick">>
        BY <1>6, <2>1
           DEF FinishAnswered, setup, store, startup, Driven, EndRun, Runs, NotLast,
               NextOf, Forget, Nothing, TypeOK, RollingBack
    <2>5. \A q \in Runs, j \in Items : run'[q] = "working" /\ task'[q][j] = "owned"
                                     => run[q] = "working" /\ task[q][j] = "owned"
        BY <1>6
           DEF FinishAnswered, setup, store, startup, Driven, EndRun, Runs, NotLast,
               NextOf, Forget, Nothing, TypeOK, Going, Busy
    <2> QED
        BY <2>1, <2>2, <2>3, <2>4, <2>5, SweepKept
<1>7. ASSUME NEW r \in Runs, EnterContext(r) PROVE SweepInv'
    <2>1. process = "up" /\ recovery = <<"pick">> /\ recovery' = recovery
        BY <1>7, UpFacts
           DEF EnterContext, startup, Locked, Working, RollingBack, Going, Busy
    <2>2. UNCHANGED <<inGraph, graph, owner, torn>> /\ late \subseteq late'
        BY <1>7 DEF EnterContext, setup, store
    <2>3. \A q \in Runs : run'[q] \in {"deleting", "resetting"} => run'[q] = run[q]
        BY <1>7 DEF EnterContext, setup, store, startup, Driven, TypeOK, RollingBack
    <2>4. \A q \in Runs : \/ undo'[q] = undo[q]
                          \/ run'[q] \notin {"deleting", "resetting"} /\ recovery' = <<"pick">>
        BY <1>7, <2>1
           DEF EnterContext, setup, store, startup, Driven, TypeOK, RollingBack
    <2>5. \A q \in Runs, j \in Items : run'[q] = "working" /\ task'[q][j] = "owned"
                                     => run[q] = "working" /\ task[q][j] = "owned"
        BY <1>7 DEF EnterContext, setup, store, startup, Driven, TypeOK, Going, Busy
    <2> QED
        BY <2>1, <2>2, <2>3, <2>4, <2>5, SweepKept
<1>8. ASSUME NEW r \in Runs, GatherErrors(r) PROVE SweepInv'
    <2>1. process = "up" /\ recovery = <<"pick">> /\ recovery' = recovery
        BY <1>8, UpFacts
           DEF GatherErrors, startup, Locked, Working, RollingBack, Going, Busy
    <2>2. UNCHANGED <<inGraph, graph, owner, torn>> /\ late \subseteq late'
        BY <1>8 DEF GatherErrors, setup, store
    <2>3. \A q \in Runs : run'[q] \in {"deleting", "resetting"} => run'[q] = run[q]
        BY <1>8
           DEF GatherErrors, setup, store, startup, Fails, Going, Busy, TypeOK,
               RollingBack
    <2>4. \A q \in Runs : \/ undo'[q] = undo[q]
                          \/ run'[q] \notin {"deleting", "resetting"} /\ recovery' = <<"pick">>
        BY <1>8, <2>1
           DEF GatherErrors, setup, store, startup, Fails, Going, Busy, TypeOK,
               RollingBack
    <2>5. \A q \in Runs, j \in Items : run'[q] = "working" /\ task'[q][j] = "owned"
                                     => run[q] = "working" /\ task[q][j] = "owned"
        BY <1>8 DEF GatherErrors, setup, store, startup, Fails, Going, Busy, TypeOK
    <2> QED
        BY <2>1, <2>2, <2>3, <2>4, <2>5, SweepKept
<1>9. ASSUME NEW r \in Runs, GatherResults(r) PROVE SweepInv'
    <2>1. process = "up" /\ recovery = <<"pick">> /\ recovery' = recovery
        BY <1>9, UpFacts
           DEF GatherResults, startup, Locked, Working, RollingBack, Going, Busy
    <2>2. UNCHANGED <<inGraph, graph, owner, torn>> /\ late \subseteq late'
        BY <1>9 DEF GatherResults, setup, store
    <2>3. \A q \in Runs : run'[q] \in {"deleting", "resetting"} => run'[q] = run[q]
        BY <1>9
           DEF GatherResults, setup, store, startup, Going, Busy, TypeOK, RollingBack
    <2>4. \A q \in Runs : \/ undo'[q] = undo[q]
                          \/ run'[q] \notin {"deleting", "resetting"} /\ recovery' = <<"pick">>
        BY <1>9, <2>1
           DEF GatherResults, setup, store, startup, Going, Busy, TypeOK, RollingBack
    <2>5. \A q \in Runs, j \in Items : run'[q] = "working" /\ task'[q][j] = "owned"
                                     => run[q] = "working" /\ task[q][j] = "owned"
        BY <1>9 DEF GatherResults, setup, store, startup, Going, Busy, TypeOK
    <2> QED
        BY <2>1, <2>2, <2>3, <2>4, <2>5, SweepKept
<1>10. ASSUME NEW r \in Runs, Complete(r) PROVE SweepInv'
    <2>1. process = "up" /\ recovery = <<"pick">> /\ recovery' = recovery
        BY <1>10, UpFacts
           DEF Complete, startup, Locked, Working, RollingBack, Going, Busy
    <2>2. UNCHANGED <<inGraph, graph, owner, torn>> /\ late \subseteq late'
        BY <1>10 DEF Complete, setup, store
    <2>3. \A q \in Runs : run'[q] \in {"deleting", "resetting"} => run'[q] = run[q]
        BY <1>10
           DEF Complete, setup, store, startup, EndRun, Runs, NotLast, NextOf, Forget,
               Nothing, TypeOK, RollingBack
    <2>4. \A q \in Runs : \/ undo'[q] = undo[q]
                          \/ run'[q] \notin {"deleting", "resetting"} /\ recovery' = <<"pick">>
        BY <1>10, <2>1
           DEF Complete, setup, store, startup, EndRun, Runs, NotLast, NextOf, Forget,
               Nothing, TypeOK, RollingBack
    <2>5. \A q \in Runs, j \in Items : run'[q] = "working" /\ task'[q][j] = "owned"
                                     => run[q] = "working" /\ task[q][j] = "owned"
        BY <1>10
           DEF Complete, setup, store, startup, EndRun, Runs, NotLast, NextOf, Forget,
               Nothing, TypeOK, Going, Busy
    <2> QED
        BY <2>1, <2>2, <2>3, <2>4, <2>5, SweepKept
<1>11. ASSUME NEW r \in Runs, RollbackReads(r) PROVE SweepInv'
    <2>1. UNCHANGED <<inGraph, graph, owner, torn, task, late, recovery, latest>>
        BY <1>11 DEF RollbackReads, setup, store, startup
    <2>2. undo'[r].read = OwnedBy(r) /\ \A q \in Runs : q # r => undo'[q] = undo[q]
        BY <1>11 DEF RollbackReads, ReadArtifacts, TypeOK
    <2>3. run'[r] = "deleting" /\ \A q \in Runs : q # r => run'[q] = run[q]
        BY <1>11 DEF RollbackReads, TypeOK
    <2>4. recovery = <<"pick">>
        BY <1>11, UpFacts DEF RollbackReads, Locked, RollingBack
    <2>5. \A q \in Runs : q # r => (Deleting(q)' => Deleting(q)) /\ (Resetting(q)' => Resetting(q))
        BY <2>1, <2>3 DEF Deleting, Resetting, StaleRun
    <2>6. ~Resetting(r)'
        BY <2>1, <2>3, <2>4 DEF Resetting
    <2>7. \A j \in Items : Owned(j)' = Owned(j)
        BY <2>1 DEF Owned
    <2> QED
        BY <2>1, <2>2, <2>3, <2>5, <2>6, <2>7 DEF SweepInv, OwnedBy
<1>12. ASSUME NEW r \in Runs, RollbackDeletes(r) PROVE SweepInv'
    <2>1. UNCHANGED <<inGraph, undo, task, late, recovery, latest>>
        BY <1>12 DEF RollbackDeletes, setup, startup
    <2>2. run[r] = "deleting" /\ run'[r] = "resetting" /\ \A q \in Runs : q # r => run'[q] = run[q]
        BY <1>12 DEF RollbackDeletes, TypeOK
    <2>3. ~inGraph => /\ graph' = graph \ undo[r].read
                      /\ torn' = torn \cup undo[r].read
                      /\ owner' = owner
        BY <1>12 DEF RollbackDeletes, DeleteArtifacts
    <2>4. /\ \A q \in Runs : (Deleting(q) <=> run[q] = "deleting") /\ (Resetting(q) <=> run[q] = "resetting")
          /\ recovery = <<"pick">>
        BY <2>2, UpFacts DEF Locked, RollingBack
    <2>5. \A q \in Runs : (Deleting(q)' <=> run'[q] = "deleting") /\ (Resetting(q)' <=> run'[q] = "resetting")
        BY <2>1, <2>4 DEF Deleting, Resetting
    <2>6. \A q \in Runs, j \in Items :
              q # r /\ run[q] \in Locked /\ <<q, j>> \in owner => j \notin undo[r].read
        BY <2>2, ItemsApart DEF ItemInv, Locked, RollingBack
    <2>7. ~inGraph => \A j \in Items : Owned(j)' = Owned(j)
        BY <2>3 DEF Owned
    <2>8. ~inGraph => \A j \in Items : <<r, j>> \in owner /\ j \in (graph \cup torn) \ late => j \in undo[r].read
        BY <2>2, <2>4 DEF SweepInv
    <2>9. ASSUME ~inGraph, NEW q \in Runs, NEW j \in Items
          PROVE  /\ run'[q] = "working" /\ task'[q][j] = "owned" => Owned(j)'
                 /\ (Deleting(q)' \/ Resetting(q)') /\ <<q, j>> \in owner' /\ j \in (graph' \cup torn') \ late'
                       => j \in undo'[q].read
                 /\ Deleting(q)' /\ j \in undo'[q].read => <<q, j>> \in owner'
                 /\ Resetting(q)' /\ <<q, j>> \in owner' /\ j \in graph' => j \in late'
        <3>1. CASE q = r
            BY <2>1, <2>2, <2>3, <2>5, <2>8, <2>9, <3>1
        <3>2. CASE q # r
            <4>1. run'[q] \in {"deleting", "resetting"} => run[q] \in Locked
                BY <2>2, <3>2 DEF Locked, RollingBack
            <4>2. (run'[q] \in {"deleting", "resetting"} /\ <<q, j>> \in owner) => j \notin undo[r].read
                BY <2>6, <3>2, <4>1
            <4>3. run'[q] = run[q]
                BY <2>2, <3>2
            <4> QED
                BY <2>1, <2>3, <2>4, <2>5, <2>7, <2>9, <4>2, <4>3 DEF SweepInv
        <3> QED
            BY <3>1, <3>2
    <2> QED
        BY <2>1, <2>9 DEF SweepInv
<1>13. ASSUME NEW r \in Runs, RollbackResets(r) PROVE SweepInv'
    <2>1. UNCHANGED <<inGraph, undo, task, late, recovery, latest, graph>>
        BY <1>13 DEF RollbackResets, ResetMarkers, setup, startup
    <2>2. run[r] = "resetting" /\ run'[r] = "erring" /\ \A q \in Runs : q # r => run'[q] = run[q]
        BY <1>13 DEF RollbackResets, TypeOK
    <2>3. ~inGraph => torn' \subseteq torn /\ owner' = {pair \in owner : pair[1] # r}
        BY <1>13 DEF RollbackResets, ResetMarkers, Disowned
    <2>4. /\ \A q \in Runs : (Deleting(q) <=> run[q] = "deleting") /\ (Resetting(q) <=> run[q] = "resetting")
          /\ recovery = <<"pick">>
        BY <2>2, UpFacts DEF Locked, RollingBack
    <2>5. \A q \in Runs : (Deleting(q)' <=> run'[q] = "deleting") /\ (Resetting(q)' <=> run'[q] = "resetting")
        BY <2>1, <2>4 DEF Deleting, Resetting
    <2>6. \A q \in Runs, j \in Items :
              run[q] = "working" /\ task[q][j] = "owned" => <<r, j>> \notin owner
        BY <2>2, ItemsApart DEF ItemInv, Locked, Working, RollingBack
    <2>7. ~inGraph => \A j \in Items : Owned(j) /\ <<r, j>> \notin owner => Owned(j)'
        BY <2>3 DEF Owned
    <2>8. ~inGraph => \A q \in Runs, j \in Items : q # r => (<<q, j>> \in owner' <=> <<q, j>> \in owner)
        BY <2>3
    <2> QED
        BY <2>1, <2>2, <2>3, <2>4, <2>5, <2>6, <2>7, <2>8 DEF SweepInv
<1>14. ASSUME NEW r \in Runs, LogError(r) PROVE SweepInv'
    <2>1. process = "up" /\ recovery = <<"pick">> /\ recovery' = recovery
        BY <1>14, UpFacts
           DEF LogError, startup, Locked, Working, RollingBack, Going, Busy
    <2>2. UNCHANGED <<inGraph, graph, owner, torn>> /\ late \subseteq late'
        BY <1>14 DEF LogError, setup, store
    <2>3. \A q \in Runs : run'[q] \in {"deleting", "resetting"} => run'[q] = run[q]
        BY <1>14
           DEF LogError, setup, store, startup, EndRun, Runs, NotLast, NextOf, Forget,
               Nothing, TypeOK, RollingBack
    <2>4. \A q \in Runs : \/ undo'[q] = undo[q]
                          \/ run'[q] \notin {"deleting", "resetting"} /\ recovery' = <<"pick">>
        BY <1>14, <2>1
           DEF LogError, setup, store, startup, EndRun, Runs, NotLast, NextOf, Forget,
               Nothing, TypeOK, RollingBack
    <2>5. \A q \in Runs, j \in Items : run'[q] = "working" /\ task'[q][j] = "owned"
                                     => run[q] = "working" /\ task[q][j] = "owned"
        BY <1>14
           DEF LogError, setup, store, startup, EndRun, Runs, NotLast, NextOf, Forget,
               Nothing, TypeOK, Going, Busy
    <2> QED
        BY <2>1, <2>2, <2>3, <2>4, <2>5, SweepKept
<1>15. ASSUME NEW r \in Runs, LogAndRaise(r) PROVE SweepInv'
    <2>1. process = "up" /\ recovery = <<"pick">> /\ recovery' = recovery
        BY <1>15, UpFacts
           DEF LogAndRaise, startup, Locked, Working, RollingBack, Going, Busy
    <2>2. UNCHANGED <<inGraph, graph, owner, torn>> /\ late \subseteq late'
        BY <1>15 DEF LogAndRaise, setup, store
    <2>3. \A q \in Runs : run'[q] \in {"deleting", "resetting"} => run'[q] = run[q]
        BY <1>15
           DEF LogAndRaise, setup, store, startup, RaiseRun, Forget, Nothing, TypeOK,
               RollingBack
    <2>4. \A q \in Runs : \/ undo'[q] = undo[q]
                          \/ run'[q] \notin {"deleting", "resetting"} /\ recovery' = <<"pick">>
        BY <1>15, <2>1
           DEF LogAndRaise, setup, store, startup, RaiseRun, Forget, Nothing, TypeOK,
               RollingBack
    <2>5. \A q \in Runs, j \in Items : run'[q] = "working" /\ task'[q][j] = "owned"
                                     => run[q] = "working" /\ task[q][j] = "owned"
        BY <1>15
           DEF LogAndRaise, setup, store, startup, RaiseRun, Forget, Nothing, TypeOK,
               Going, Busy
    <2> QED
        BY <2>1, <2>2, <2>3, <2>4, <2>5, SweepKept
<1>16. ASSUME NEW r \in Runs, CloseGenerator(r) PROVE SweepInv'
    <2>1. process = "up" /\ recovery = <<"pick">> /\ recovery' = recovery
        BY <1>16, UpFacts DEF CloseGenerator, startup, Locked, Going, Busy
    <2>2. UNCHANGED <<inGraph, graph, owner, torn>> /\ late \subseteq late'
        BY <1>16 DEF CloseGenerator, setup, store
    <2>3. \A q \in Runs : run'[q] \in {"deleting", "resetting"} => run'[q] = run[q]
        BY <1>16 DEF CloseGenerator, setup, store, startup, TypeOK, RollingBack
    <2>4. \A q \in Runs : \/ undo'[q] = undo[q]
                          \/ run'[q] \notin {"deleting", "resetting"} /\ recovery' = <<"pick">>
        BY <1>16, <2>1 DEF CloseGenerator, setup, store, startup, TypeOK, RollingBack
    <2>5. \A q \in Runs, j \in Items : run'[q] = "working" /\ task'[q][j] = "owned"
                                     => run[q] = "working" /\ task[q][j] = "owned"
        BY <1>16 DEF CloseGenerator, setup, store, startup, TypeOK, Going, Busy
    <2> QED
        BY <2>1, <2>2, <2>3, <2>4, <2>5, SweepKept
<1>17. ASSUME NEW r \in Runs, StartFails(r) PROVE SweepInv'
    <2>1. process = "up" /\ recovery = <<"pick">> /\ recovery' = recovery
        BY <1>17, UpFacts
           DEF StartFails, startup, Locked, Working, RollingBack, Going, Busy
    <2>2. UNCHANGED <<inGraph, graph, owner, torn>> /\ late \subseteq late'
        BY <1>17 DEF StartFails, setup, store
    <2>3. \A q \in Runs : run'[q] \in {"deleting", "resetting"} => run'[q] = run[q]
        BY <1>17
           DEF StartFails, setup, store, startup, Fault, RaiseRun, Forget, Nothing,
               TypeOK, RollingBack
    <2>4. \A q \in Runs : \/ undo'[q] = undo[q]
                          \/ run'[q] \notin {"deleting", "resetting"} /\ recovery' = <<"pick">>
        BY <1>17, <2>1
           DEF StartFails, setup, store, startup, Fault, RaiseRun, Forget, Nothing,
               TypeOK, RollingBack
    <2>5. \A q \in Runs, j \in Items : run'[q] = "working" /\ task'[q][j] = "owned"
                                     => run[q] = "working" /\ task[q][j] = "owned"
        BY <1>17
           DEF StartFails, setup, store, startup, Fault, RaiseRun, Forget, Nothing,
               TypeOK, Going, Busy
    <2> QED
        BY <2>1, <2>2, <2>3, <2>4, <2>5, SweepKept
<1>18. ASSUME NEW r \in Runs, EntryFails(r) PROVE SweepInv'
    <2>1. process = "up" /\ recovery = <<"pick">> /\ recovery' = recovery
        BY <1>18, UpFacts
           DEF EntryFails, startup, Locked, Working, RollingBack, Going, Busy
    <2>2. UNCHANGED <<inGraph, graph, owner, torn>> /\ late \subseteq late'
        BY <1>18 DEF EntryFails, setup, store
    <2>3. \A q \in Runs : run'[q] \in {"deleting", "resetting"} => run'[q] = run[q]
        BY <1>18
           DEF EntryFails, setup, store, startup, Fault, Driven, RaiseRun, Forget,
               Nothing, TypeOK, RollingBack
    <2>4. \A q \in Runs : \/ undo'[q] = undo[q]
                          \/ run'[q] \notin {"deleting", "resetting"} /\ recovery' = <<"pick">>
        BY <1>18, <2>1
           DEF EntryFails, setup, store, startup, Fault, Driven, RaiseRun, Forget,
               Nothing, TypeOK, RollingBack
    <2>5. \A q \in Runs, j \in Items : run'[q] = "working" /\ task'[q][j] = "owned"
                                     => run[q] = "working" /\ task[q][j] = "owned"
        BY <1>18
           DEF EntryFails, setup, store, startup, Fault, Driven, RaiseRun, Forget,
               Nothing, TypeOK, Going, Busy
    <2> QED
        BY <2>1, <2>2, <2>3, <2>4, <2>5, SweepKept
<1>19. ASSUME NEW r \in Runs, FlushFails(r) PROVE SweepInv'
    <2>1. process = "up" /\ recovery = <<"pick">> /\ recovery' = recovery
        BY <1>19, UpFacts
           DEF FlushFails, startup, Locked, Working, RollingBack, Going, Busy
    <2>2. UNCHANGED <<inGraph, graph, owner, torn>> /\ late \subseteq late'
        BY <1>19 DEF FlushFails, setup, store
    <2>3. \A q \in Runs : run'[q] \in {"deleting", "resetting"} => run'[q] = run[q]
        BY <1>19
           DEF FlushFails, setup, store, startup, Fault, Fails, TypeOK, RollingBack
    <2>4. \A q \in Runs : \/ undo'[q] = undo[q]
                          \/ run'[q] \notin {"deleting", "resetting"} /\ recovery' = <<"pick">>
        BY <1>19, <2>1
           DEF FlushFails, setup, store, startup, Fault, Fails, TypeOK, RollingBack
    <2>5. \A q \in Runs, j \in Items : run'[q] = "working" /\ task'[q][j] = "owned"
                                     => run[q] = "working" /\ task[q][j] = "owned"
        BY <1>19
           DEF FlushFails, setup, store, startup, Fault, Fails, TypeOK, Going, Busy
    <2> QED
        BY <2>1, <2>2, <2>3, <2>4, <2>5, SweepKept
<1>20. ASSUME NEW r \in Runs, CancelRun(r) PROVE SweepInv'
    <2>1. process = "up" /\ recovery = <<"pick">> /\ recovery' = recovery
        BY <1>20, UpFacts
           DEF CancelRun, startup, Locked, Working, RollingBack, Going, Busy
    <2>2. UNCHANGED <<inGraph, graph, owner, torn>> /\ late \subseteq late'
        BY <1>20 DEF CancelRun, setup, store
    <2>3. \A q \in Runs : run'[q] \in {"deleting", "resetting"} => run'[q] = run[q]
        BY <1>20
           DEF CancelRun, setup, store, startup, Going, Fault, Fails, Busy, TypeOK,
               RollingBack
    <2>4. \A q \in Runs : \/ undo'[q] = undo[q]
                          \/ run'[q] \notin {"deleting", "resetting"} /\ recovery' = <<"pick">>
        BY <1>20, <2>1
           DEF CancelRun, setup, store, startup, Going, Fault, Fails, Busy, TypeOK,
               RollingBack
    <2>5. \A q \in Runs, j \in Items : run'[q] = "working" /\ task'[q][j] = "owned"
                                     => run[q] = "working" /\ task[q][j] = "owned"
        BY <1>20 DEF CancelRun, setup, store, startup, Going, Fault, Fails, Busy, TypeOK
    <2> QED
        BY <2>1, <2>2, <2>3, <2>4, <2>5, SweepKept
<1>21. ASSUME NEW r \in Runs, RollbackFails(r) PROVE SweepInv'
    <2>1. process = "up" /\ recovery = <<"pick">> /\ recovery' = recovery
        BY <1>21, UpFacts
           DEF RollbackFails, startup, Locked, Working, RollingBack, Going, Busy
    <2>2. UNCHANGED <<inGraph, graph, owner, torn>> /\ late \subseteq late'
        BY <1>21 DEF RollbackFails, setup, store
    <2>3. \A q \in Runs : run'[q] \in {"deleting", "resetting"} => run'[q] = run[q]
        BY <1>21 DEF RollbackFails, setup, store, startup, RollingBack, Fault, TypeOK
    <2>4. \A q \in Runs : \/ undo'[q] = undo[q]
                          \/ run'[q] \notin {"deleting", "resetting"} /\ recovery' = <<"pick">>
        BY <1>21, <2>1
           DEF RollbackFails, setup, store, startup, RollingBack, Fault, TypeOK
    <2>5. \A q \in Runs, j \in Items : run'[q] = "working" /\ task'[q][j] = "owned"
                                     => run[q] = "working" /\ task[q][j] = "owned"
        BY <1>21
           DEF RollbackFails, setup, store, startup, RollingBack, Fault, TypeOK, Going,
               Busy
    <2> QED
        BY <2>1, <2>2, <2>3, <2>4, <2>5, SweepKept
<1>22. ASSUME NEW r \in Runs, CleanupFails(r) PROVE SweepInv'
    <2>1. process = "up" /\ recovery = <<"pick">> /\ recovery' = recovery
        BY <1>22, UpFacts
           DEF CleanupFails, startup, Locked, Working, RollingBack, Going, Busy
    <2>2. UNCHANGED <<inGraph, graph, owner, torn>> /\ late \subseteq late'
        BY <1>22 DEF CleanupFails, setup, store
    <2>3. \A q \in Runs : run'[q] \in {"deleting", "resetting"} => run'[q] = run[q]
        BY <1>22
           DEF CleanupFails, setup, store, startup, RollingBack, Fault, RaiseRun,
               Forget, Nothing, TypeOK
    <2>4. \A q \in Runs : \/ undo'[q] = undo[q]
                          \/ run'[q] \notin {"deleting", "resetting"} /\ recovery' = <<"pick">>
        BY <1>22, <2>1
           DEF CleanupFails, setup, store, startup, RollingBack, Fault, RaiseRun,
               Forget, Nothing, TypeOK
    <2>5. \A q \in Runs, j \in Items : run'[q] = "working" /\ task'[q][j] = "owned"
                                     => run[q] = "working" /\ task[q][j] = "owned"
        BY <1>22
           DEF CleanupFails, setup, store, startup, RollingBack, Fault, RaiseRun,
               Forget, Nothing, TypeOK, Going, Busy
    <2> QED
        BY <2>1, <2>2, <2>3, <2>4, <2>5, SweepKept
<1>23. ASSUME NEW r \in Runs, NEW i \in Items, BeginItem(r, i) PROVE SweepInv'
    <2>1. process = "up" /\ recovery = <<"pick">> /\ recovery' = recovery
        BY <1>23, UpFacts
           DEF BeginItem, startup, Locked, Working, RollingBack, Going, Busy
    <2>2. UNCHANGED <<inGraph, graph, owner, torn>> /\ late \subseteq late'
        BY <1>23 DEF BeginItem, setup, store
    <2>3. \A q \in Runs : run'[q] \in {"deleting", "resetting"} => run'[q] = run[q]
        BY <1>23 DEF BeginItem, setup, store, startup, TaskTo, TypeOK, RollingBack
    <2>4. \A q \in Runs : \/ undo'[q] = undo[q]
                          \/ run'[q] \notin {"deleting", "resetting"} /\ recovery' = <<"pick">>
        BY <1>23, <2>1 DEF BeginItem, setup, store, startup, TaskTo, TypeOK, RollingBack
    <2>5. \A q \in Runs, j \in Items : run'[q] = "working" /\ task'[q][j] = "owned"
                                     => run[q] = "working" /\ task[q][j] = "owned"
        BY <1>23 DEF BeginItem, setup, store, startup, TaskTo, TypeOK, Going, Busy
    <2> QED
        BY <2>1, <2>2, <2>3, <2>4, <2>5, SweepKept
<1>24. ASSUME NEW r \in Runs, NEW i \in Items, LedgerItem(r, i) PROVE SweepInv'
    <2>1. UNCHANGED <<inGraph, run, undo, graph, torn, late, recovery, latest>>
        BY <1>24 DEF LedgerItem, setup, startup
    <2>2. owner' = owner \cup {pair \in {<<r, i>>} : ~Owned(i)}
        BY <1>24 DEF LedgerItem, Owns, Owned
    <2>3. Owned(i)' /\ \A j \in Items : Owned(j) => Owned(j)'
        BY <2>2 DEF Owned
    <2>4. \A q \in Runs, j \in Items : task'[q][j] = task[q][j] \/ j = i
        BY <1>24 DEF LedgerItem, TaskTo, TypeOK
    <2>5. \A q \in Runs, j \in Items : <<q, j>> \in owner' =>
              <<q, j>> \in owner \/ (j = i /\ ~Owned(i))
        BY <2>2
    <2>6. ~inGraph /\ ~Owned(i) => i \notin (graph \cup torn) \ late
        BY DEF ArtifactsAreOwned, TornIsInLedger, Owned
    <2>7. \A q \in Runs : Deleting(q)' = Deleting(q) /\ Resetting(q)' = Resetting(q)
        BY <2>1 DEF Deleting, Resetting, StaleRun
    <2> QED
        BY <2>1, <2>2, <2>3, <2>4, <2>5, <2>6, <2>7 DEF SweepInv
<1>25. ASSUME NEW r \in Runs, NEW i \in Items, StoreItem(r, i) PROVE SweepInv'
    <2>1. UNCHANGED <<inGraph, run, undo, recovery, latest>> /\ late \subseteq late'
          /\ graph' = graph \cup {i} /\ torn' = torn \ {i} /\ (~inGraph => owner' = owner)
        BY <1>25 DEF StoreItem, NoteLate, setup, startup
    <2>2. \A q \in Runs, j \in Items : task'[q][j] = "owned" => task[q][j] = "owned"
        BY <1>25 DEF StoreItem, TaskTo, TypeOK
    <2>3. \A q \in Runs : Deleting(q)' = Deleting(q) /\ Resetting(q)' = Resetting(q)
        BY <2>1 DEF Deleting, Resetting, StaleRun
    <2>4. ASSUME NEW q \in Runs, Deleting(q) \/ Resetting(q), <<q, i>> \in owner
          PROVE  i \in late'
        <3>1. task[r][i] \in Going
            BY <1>25 DEF StoreItem, Going, Busy
        <3>2. run[q] \in {"deleting", "resetting"}
            BY <2>4, <3>1, UpFacts
        <3>3. i \in ItemsIn(r) /\ i \in ItemsIn(q)
            BY <2>4, <3>1 DEF ItemInv, Going, Busy
        <3>4. run[r] # "working"
            BY <3>2, <3>3, ItemsApart DEF Locked, Working, RollingBack
        <3> QED
            BY <1>25, <3>4 DEF StoreItem, NoteLate
    <2>5. ~inGraph => \A j \in Items : Owned(j)' = Owned(j)
        BY <2>1 DEF Owned
    <2> QED
        BY <2>1, <2>2, <2>3, <2>4, <2>5 DEF SweepInv
<1>26. ASSUME NEW r \in Runs, NEW i \in Items, MarkItem(r, i) PROVE SweepInv'
    <2>1. process = "up" /\ recovery = <<"pick">> /\ recovery' = recovery
        BY <1>26, UpFacts
           DEF MarkItem, startup, Locked, Working, RollingBack, Going, Busy
    <2>2. UNCHANGED <<inGraph, graph, owner, torn>> /\ late \subseteq late'
        BY <1>26 DEF MarkItem, setup, store, NoteLate
    <2>3. \A q \in Runs : run'[q] \in {"deleting", "resetting"} => run'[q] = run[q]
        BY <1>26 DEF MarkItem, setup, startup, TaskTo, NoteLate, TypeOK, RollingBack
    <2>4. \A q \in Runs : \/ undo'[q] = undo[q]
                          \/ run'[q] \notin {"deleting", "resetting"} /\ recovery' = <<"pick">>
        BY <1>26, <2>1
           DEF MarkItem, setup, startup, TaskTo, NoteLate, TypeOK, RollingBack
    <2>5. \A q \in Runs, j \in Items : run'[q] = "working" /\ task'[q][j] = "owned"
                                     => run[q] = "working" /\ task[q][j] = "owned"
        BY <1>26 DEF MarkItem, setup, startup, TaskTo, NoteLate, TypeOK, Going, Busy
    <2> QED
        BY <2>1, <2>2, <2>3, <2>4, <2>5, SweepKept
<1>27. ASSUME NEW r \in Runs, NEW i \in Items, FlushItem(r, i) \/ FinishCustomItem(r, i) PROVE SweepInv'
    <2>1. process = "up" /\ recovery = <<"pick">> /\ recovery' = recovery
        BY <1>27, UpFacts
           DEF FlushItem, FinishCustomItem, startup, Locked, Working, RollingBack, Going, Busy
    <2>2. UNCHANGED <<inGraph, graph, owner, torn>> /\ late \subseteq late'
        BY <1>27 DEF FlushItem, FinishCustomItem, setup, store
    <2>3. \A q \in Runs : run'[q] \in {"deleting", "resetting"} => run'[q] = run[q]
        BY <1>27
           DEF FlushItem, FinishCustomItem, setup, store, startup, TaskTo, TypeOK, RollingBack
    <2>4. \A q \in Runs : \/ undo'[q] = undo[q]
                          \/ run'[q] \notin {"deleting", "resetting"} /\ recovery' = <<"pick">>
        BY <1>27, <2>1
           DEF FlushItem, FinishCustomItem, setup, store, startup, TaskTo, TypeOK, RollingBack
    <2>5. \A q \in Runs, j \in Items : run'[q] = "working" /\ task'[q][j] = "owned"
                                     => run[q] = "working" /\ task[q][j] = "owned"
        <3>1. TaskTo(r, i, "ok") /\ run' = run
            BY <1>27 DEF FlushItem, FinishCustomItem
        <3> QED
            BY <3>1 DEF TaskTo, TypeOK
    <2> QED
        BY <2>1, <2>2, <2>3, <2>4, <2>5, SweepKept
<1>28. ASSUME NEW r \in Runs, NEW i \in Items, ItemRaises(r, i) PROVE SweepInv'
    <2>1. process = "up" /\ recovery = <<"pick">> /\ recovery' = recovery
        BY <1>28, UpFacts
           DEF ItemRaises, startup, Locked, Working, RollingBack, Going, Busy
    <2>2. UNCHANGED <<inGraph, graph, owner, torn>> /\ late \subseteq late'
        BY <1>28 DEF ItemRaises, setup, store
    <2>3. \A q \in Runs : run'[q] \in {"deleting", "resetting"} => run'[q] = run[q]
        BY <1>28
           DEF ItemRaises, setup, store, startup, Busy, Fault, Fails, TaskTo,
               TypeOK, RollingBack
    <2>4. \A q \in Runs : \/ undo'[q] = undo[q]
                          \/ run'[q] \notin {"deleting", "resetting"} /\ recovery' = <<"pick">>
        BY <1>28, <2>1
           DEF ItemRaises, setup, store, startup, Busy, Fault, Fails, TaskTo,
               TypeOK, RollingBack
    <2>5. \A q \in Runs, j \in Items : run'[q] = "working" /\ task'[q][j] = "owned"
                                     => run[q] = "working" /\ task[q][j] = "owned"
        BY <1>28
           DEF ItemRaises, setup, store, startup, Busy, Fault, Fails, TaskTo,
               TypeOK, Going
    <2> QED
        BY <2>1, <2>2, <2>3, <2>4, <2>5, SweepKept
<1>29. ASSUME NEW r \in Runs, NEW i \in Items, ItemErrs(r, i) PROVE SweepInv'
    <2>1. process = "up" /\ recovery = <<"pick">> /\ recovery' = recovery
        BY <1>29, UpFacts
           DEF ItemErrs, startup, Locked, Working, RollingBack, Going, Busy
    <2>2. UNCHANGED <<inGraph, graph, owner, torn>> /\ late \subseteq late'
        BY <1>29 DEF ItemErrs, setup, store
    <2>3. \A q \in Runs : run'[q] \in {"deleting", "resetting"} => run'[q] = run[q]
        BY <1>29
           DEF ItemErrs, setup, store, startup, Busy, Fault, TaskTo, TypeOK,
               RollingBack
    <2>4. \A q \in Runs : \/ undo'[q] = undo[q]
                          \/ run'[q] \notin {"deleting", "resetting"} /\ recovery' = <<"pick">>
        BY <1>29, <2>1
           DEF ItemErrs, setup, store, startup, Busy, Fault, TaskTo, TypeOK,
               RollingBack
    <2>5. \A q \in Runs, j \in Items : run'[q] = "working" /\ task'[q][j] = "owned"
                                     => run[q] = "working" /\ task[q][j] = "owned"
        BY <1>29
           DEF ItemErrs, setup, store, startup, Busy, Fault, TaskTo, TypeOK,
               Going
    <2> QED
        BY <2>1, <2>2, <2>3, <2>4, <2>5, SweepKept
<1>30. ASSUME NEW d \in Datasets, RecoveryReads(d) PROVE SweepInv'
    <2>1. /\ StaleRun(d) \in Runs
          /\ \A q \in Runs : run[q] \notin Locked
        BY <1>30, RecoveryFacts DEF RecoveryReads
    <2>2. UNCHANGED <<inGraph, graph, owner, torn, task, late, run, latest>> /\ recovery' = <<"delete", d>>
        BY <1>30 DEF RecoveryReads, setup, store
    <2>3. undo'[StaleRun(d)].read = OwnedBy(StaleRun(d))
        BY <1>30, <2>1 DEF RecoveryReads, ReadArtifacts, TypeOK
    <2>4. \A q \in Runs : (Deleting(q)' => q = StaleRun(d)) /\ ~Resetting(q)' /\ run'[q] # "working"
        BY <2>1, <2>2 DEF Deleting, Resetting, StaleRun, Locked, Working, RollingBack
    <2> QED
        BY <2>1, <2>2, <2>3, <2>4 DEF SweepInv, OwnedBy
<1>31. ASSUME NEW d \in Datasets, RecoveryDeletes(d) PROVE SweepInv'
    <2>1. /\ StaleRun(d) \in Runs
          /\ \A q \in Runs : run[q] \notin Locked
        BY <1>31, RecoveryFacts DEF RecoveryDeletes
    <2>2. UNCHANGED <<inGraph, undo, task, late, run, latest>> /\ recovery' = <<"reset", d>>
        BY <1>31 DEF RecoveryDeletes, setup
    <2>3. ~inGraph => /\ graph' = graph \ undo[StaleRun(d)].read
                      /\ torn' = torn \cup undo[StaleRun(d)].read
                      /\ owner' = owner
        BY <1>31 DEF RecoveryDeletes, DeleteArtifacts
    <2>4. \A q \in Runs : (Resetting(q)' => q = StaleRun(d)) /\ ~Deleting(q)' /\ run'[q] # "working"
        BY <2>1, <2>2 DEF Deleting, Resetting, StaleRun, Locked, Working, RollingBack
    <2>5. Deleting(StaleRun(d))
        BY <1>31 DEF RecoveryDeletes, Deleting
    <2>6. ~inGraph => \A j \in Items : <<StaleRun(d), j>> \in owner /\ j \in (graph \cup torn) \ late
                                      => j \in undo[StaleRun(d)].read
        BY <2>1, <2>5 DEF SweepInv
    <2> QED
        BY <2>1, <2>2, <2>3, <2>4, <2>6 DEF SweepInv
<1>32. ASSUME NEW d \in Datasets, RecoveryResets(d) PROVE SweepInv'
    <2>1. /\ StaleRun(d) \in Runs
          /\ \A q \in Runs : run[q] \notin Locked
        BY <1>32, RecoveryFacts DEF RecoveryResets
    <2>2. UNCHANGED <<run, latest>> /\ recovery' = <<"log", d>>
        BY <1>32 DEF RecoveryResets
    <2>3. \A q \in Runs : ~Resetting(q)' /\ ~Deleting(q)' /\ run'[q] # "working"
        BY <2>1, <2>2 DEF Deleting, Resetting, Locked, Working, RollingBack
    <2> QED
        BY <2>3 DEF SweepInv
<1>33. ASSUME NEW d \in Datasets, RecoveryLogs(d) PROVE SweepInv'
    <2>1. recovery' = <<"pick">> \/ UNCHANGED <<recovery, latest>>
        BY <1>33 DEF RecoveryLogs, startup
    <2>2. UNCHANGED <<inGraph, graph, owner, torn>> /\ late \subseteq late'
        BY <1>33 DEF RecoveryLogs, setup, store
    <2>3. \A q \in Runs : run'[q] \in {"deleting", "resetting"} => run'[q] = run[q]
        BY <1>33 DEF RecoveryLogs, setup, store, Nothing, TypeOK, RollingBack
    <2>4. \A q \in Runs : \/ undo'[q] = undo[q]
                          \/ run'[q] \notin {"deleting", "resetting"} /\ recovery' = <<"pick">>
        <3>1. run' = run /\ recovery' = <<"pick">>
            BY <1>33 DEF RecoveryLogs
        <3>2. \A q \in Runs : run[q] \notin Locked
            BY <1>33, RecoveryFacts DEF RecoveryLogs
        <3> QED
            BY <3>1, <3>2 DEF Locked, RollingBack
    <2>5. \A q \in Runs, j \in Items : run'[q] = "working" /\ task'[q][j] = "owned"
                                     => run[q] = "working" /\ task[q][j] = "owned"
        BY <1>33 DEF RecoveryLogs, setup, store, Nothing, TypeOK, Going, Busy
    <2> QED
        BY <2>1, <2>2, <2>3, <2>4, <2>5, SweepKept
<1>34. ASSUME NEW d \in Datasets, RecoveryFails(d) PROVE SweepInv'
    <2>1. recovery' = <<"pick">> \/ UNCHANGED <<recovery, latest>>
        BY <1>34 DEF RecoveryFails, startup
    <2>2. UNCHANGED <<inGraph, graph, owner, torn>> /\ late \subseteq late'
        BY <1>34 DEF RecoveryFails, setup, store
    <2>3. \A q \in Runs : run'[q] \in {"deleting", "resetting"} => run'[q] = run[q]
        BY <1>34 DEF RecoveryFails, setup, store, Nothing, Fault, TypeOK, RollingBack
    <2>4. \A q \in Runs : \/ undo'[q] = undo[q]
                          \/ run'[q] \notin {"deleting", "resetting"} /\ recovery' = <<"pick">>
        <3>1. run' = run /\ recovery' = <<"pick">>
            BY <1>34 DEF RecoveryFails
        <3>2. \A q \in Runs : run[q] \notin Locked
            BY <1>34, RecoveryFacts DEF RecoveryFails
        <3> QED
            BY <3>1, <3>2 DEF Locked, RollingBack
    <2>5. \A q \in Runs, j \in Items : run'[q] = "working" /\ task'[q][j] = "owned"
                                     => run[q] = "working" /\ task[q][j] = "owned"
        BY <1>34 DEF RecoveryFails, setup, store, Nothing, Fault, TypeOK, Going, Busy
    <2> QED
        BY <2>1, <2>2, <2>3, <2>4, <2>5, SweepKept
<1>35. ASSUME NEW d \in Datasets, AddResets(d) PROVE SweepInv'
    <2>1. recovery' = <<"pick">> \/ UNCHANGED <<recovery, latest>>
        BY <1>35, UpFacts DEF AddResets, startup
    <2>2. UNCHANGED <<inGraph, graph, owner, torn>> /\ late \subseteq late'
        BY <1>35 DEF AddResets, setup, store
    <2>3. \A q \in Runs : run'[q] \in {"deleting", "resetting"} => run'[q] = run[q]
        BY <1>35 DEF AddResets, setup, store, startup, TypeOK, RollingBack
    <2>4. \A q \in Runs : \/ undo'[q] = undo[q]
                          \/ run'[q] \notin {"deleting", "resetting"} /\ recovery' = <<"pick">>
        BY <1>35, <2>1 DEF AddResets, setup, store, startup, TypeOK, RollingBack
    <2>5. \A q \in Runs, j \in Items : run'[q] = "working" /\ task'[q][j] = "owned"
                                     => run[q] = "working" /\ task[q][j] = "owned"
        BY <1>35 DEF AddResets, setup, store, startup, TypeOK, Going, Busy
    <2> QED
        BY <2>1, <2>2, <2>3, <2>4, <2>5, SweepKept
<1>36. ASSUME Crash PROVE SweepInv'
    <2>1. recovery' = <<"pick">> \/ UNCHANGED <<recovery, latest>>
        BY <1>36 DEF Crash, startup
    <2>2. UNCHANGED <<inGraph, graph, owner, torn>> /\ late \subseteq late'
        BY <1>36 DEF Crash, setup, store
    <2>3. \A q \in Runs : run'[q] \in {"deleting", "resetting"} => run'[q] = run[q]
        BY <1>36
           DEF Crash, Runs, setup, store, Locked, Going, Nothing, Fault, Working,
               RollingBack, Busy, TypeOK
    <2>4. \A q \in Runs : \/ undo'[q] = undo[q]
                          \/ run'[q] \notin {"deleting", "resetting"} /\ recovery' = <<"pick">>
        BY <1>36, <2>1
           DEF Crash, Runs, setup, store, Locked, Going, Nothing, Fault, Working,
               RollingBack, Busy, TypeOK
    <2>5. \A q \in Runs, j \in Items : run'[q] = "working" /\ task'[q][j] = "owned"
                                     => run[q] = "working" /\ task[q][j] = "owned"
        BY <1>36
           DEF Crash, Runs, setup, store, Locked, Going, Nothing, Fault, Working,
               RollingBack, Busy, TypeOK
    <2> QED
        BY <2>1, <2>2, <2>3, <2>4, <2>5, SweepKept
<1>37. CASE UNCHANGED <<inGraph, run, task, undo, graph, owner, latest, recovery, torn, late>>
    BY <1>37 DEF SweepInv, Runs, Deleting, Resetting, Owned, StaleRun
<1>38. CASE UNCHANGED vars
    BY <1>38, <1>37 DEF vars, setup, store, startup
<1> QED
    BY <1>1, <1>2, <1>3, <1>4, <1>5, <1>6, <1>7, <1>8, <1>9, <1>10, <1>11, <1>12, <1>13,
       <1>14, <1>15, <1>16, <1>17, <1>18, <1>19, <1>20, <1>21, <1>22, <1>23, <1>24,
       <1>25, <1>26, <1>27, <1>28, <1>29, <1>30, <1>31, <1>32, <1>33, <1>34, <1>35,
       <1>36, <1>38, <1>37 DEF Next, RunStep, RunFails, TaskStep, RecoveryStep

-----------------------------------------------------------------------------
LEMMA ArtifactsAreOwnedInit == Init => ArtifactsAreOwned
BY RunsAssumption DEF Init, Nothing, ArtifactsAreOwned, Runs

LEMMA ArtifactsAreOwnedStep ==
    TypeOK /\ ValidInv /\ LockInv /\ ProcessInv /\ RowInv /\ StaleInv /\ ItemInv /\ SweepInv /\ ArtifactsAreOwned /\ TornIsInLedger /\ [Next]_vars => ArtifactsAreOwned'
<1> SUFFICES ASSUME TypeOK, ValidInv, LockInv, ProcessInv, RowInv, StaleInv, ItemInv, SweepInv, ArtifactsAreOwned, TornIsInLedger, [Next]_vars
             PROVE  ArtifactsAreOwned'
    OBVIOUS
<1> USE RunsAssumption
<1>1. ASSUME NEW c \in Calls, BeginCall(c)
      PROVE  UNCHANGED <<graph, owner, late>>
    BY <1>1 DEF BeginCall, store
<1>2. ASSUME NEW r \in Runs, AnswerRun(r) \/ StartRun(r) \/ FinishAnswered(r) \/ EnterContext(r) \/
             GatherErrors(r) \/ GatherResults(r) \/ Complete(r) \/ RollbackReads(r) \/ LogError(r) \/
             LogAndRaise(r) \/ CloseGenerator(r) \/ StartFails(r) \/ EntryFails(r) \/ FlushFails(r) \/
             CancelRun(r) \/ RollbackFails(r) \/ CleanupFails(r)
      PROVE  UNCHANGED <<graph, owner, late>>
    BY <1>2
       DEF AnswerRun, StartRun, FinishAnswered, EnterContext, GatherErrors,
           GatherResults, Complete, RollbackReads, LogError, LogAndRaise,
           CloseGenerator, StartFails, EntryFails, FlushFails, CancelRun, RollbackFails,
           CleanupFails, store
<1>3. ASSUME NEW r \in Runs, NEW i \in Items, BeginItem(r, i) \/ FlushItem(r, i) \/ FinishCustomItem(r, i) \/
             ItemRaises(r, i) \/ ItemErrs(r, i)
      PROVE  UNCHANGED <<graph, owner, late>>
    BY <1>3 DEF BeginItem, FlushItem, FinishCustomItem, ItemRaises, ItemErrs, store
<1>4. ASSUME NEW d \in Datasets, RecoverySkips(d) \/ RecoveryReads(d) \/ RecoveryLogs(d) \/
             RecoveryFails(d) \/ AddResets(d)
      PROVE  UNCHANGED <<graph, owner, late>>
    BY <1>4
       DEF RecoverySkips, RecoveryReads, RecoveryLogs, RecoveryFails, AddResets, store
<1>5. ASSUME Crash \/ Restart \/ RecoveryEnds
      PROVE  UNCHANGED <<graph, owner, late>>
    BY <1>5 DEF Crash, Restart, RecoveryEnds, store
<1>6. ASSUME NEW r \in Runs, RollbackDeletes(r) PROVE ArtifactsAreOwned'
    <2>1. r \in Runs
        OBVIOUS
    <2>2. inGraph => /\ graph' = graph \ OwnedBy(r) /\ late' = late
                     /\ owner' = {pair \in owner : pair[1] # r}
        BY <1>6 DEF RollbackDeletes, DeleteArtifacts, Disowned
    <2>3. ~inGraph => /\ graph' = graph \ undo[r].read /\ UNCHANGED <<owner, late>>
                      /\ torn' = torn \cup undo[r].read
        BY <1>6 DEF RollbackDeletes, DeleteArtifacts
    <2>4. Deleting(r) /\ inGraph' = inGraph
        BY <1>6 DEF RollbackDeletes, Deleting, setup
    <2>5. ~inGraph => \A j \in Items : j \in undo[r].read => <<r, j>> \in owner
        BY <2>1, <2>4 DEF SweepInv
    <2> QED
        BY <2>1, <2>2, <2>3, <2>4, <2>5 DEF ArtifactsAreOwned, TypeOK, OwnedBy
<1>7. ASSUME NEW r \in Runs, RollbackResets(r) PROVE ArtifactsAreOwned'
    <2>1. r \in Runs
        OBVIOUS
    <2>2. inGraph => UNCHANGED <<graph, owner, late>>
        BY <1>7 DEF RollbackResets, ResetMarkers
    <2>3. ~inGraph => /\ UNCHANGED <<graph, late>> /\ torn' = torn \ undo[r].read
                      /\ owner' = {pair \in owner : pair[1] # r}
        BY <1>7 DEF RollbackResets, ResetMarkers, Disowned
    <2>4. Resetting(r) /\ inGraph' = inGraph
        BY <1>7 DEF RollbackResets, Resetting, setup
    <2>5. ~inGraph => \A j \in Items : <<r, j>> \in owner =>
              /\ j \in graph => j \in late
              /\ j \in torn \ late => j \in undo[r].read
        BY <2>1, <2>4 DEF SweepInv
    <2> QED
        BY <2>1, <2>2, <2>3, <2>4, <2>5 DEF ArtifactsAreOwned, TypeOK
<1>8. ASSUME NEW r \in Runs, NEW i \in Items, LedgerItem(r, i) PROVE ArtifactsAreOwned'
    <2>1. graph' = graph /\ owner \subseteq owner' /\ late' = late
        BY <1>8 DEF LedgerItem, Owns
    <2> QED
        BY <2>1 DEF ArtifactsAreOwned
<1>9. ASSUME NEW r \in Runs, NEW i \in Items, StoreItem(r, i) PROVE ArtifactsAreOwned'
    <2>1. graph' = graph \cup {i} /\ owner \subseteq owner' /\ late \subseteq late'
        BY <1>9 DEF StoreItem, NoteLate, Owns
    <2>2. i \in late' \/ \E q \in Runs : <<q, i>> \in owner'
        <3>1. CASE inGraph
            BY <1>9, <3>1 DEF StoreItem, Owns
        <3>2. CASE ~inGraph /\ run[r] = "working"
            BY <1>9, <3>2, <2>1 DEF StoreItem, SweepInv, Owned
        <3>3. CASE run[r] # "working"
            BY <1>9, <3>3 DEF StoreItem, NoteLate
        <3> QED
            BY <3>1, <3>2, <3>3
    <2> QED
        BY <2>1, <2>2 DEF ArtifactsAreOwned
<1>10. ASSUME NEW r \in Runs, NEW i \in Items, MarkItem(r, i) PROVE ArtifactsAreOwned'
    BY <1>10 DEF MarkItem, NoteLate, ArtifactsAreOwned, Runs
<1>11. ASSUME NEW d \in Datasets, RecoveryDeletes(d) PROVE ArtifactsAreOwned'
    <2>1. StaleRun(d) \in Runs
        BY <1>11, RecoveryFacts DEF RecoveryDeletes
    <2>2. inGraph => /\ graph' = graph \ OwnedBy(StaleRun(d)) /\ late' = late
                     /\ owner' = {pair \in owner : pair[1] # StaleRun(d)}
        BY <1>11 DEF RecoveryDeletes, DeleteArtifacts, Disowned
    <2>3. ~inGraph => /\ graph' = graph \ undo[StaleRun(d)].read /\ UNCHANGED <<owner, late>>
                      /\ torn' = torn \cup undo[StaleRun(d)].read
        BY <1>11 DEF RecoveryDeletes, DeleteArtifacts
    <2>4. Deleting(StaleRun(d)) /\ inGraph' = inGraph
        BY <1>11 DEF RecoveryDeletes, Deleting, setup
    <2>5. ~inGraph => \A j \in Items : j \in undo[StaleRun(d)].read => <<StaleRun(d), j>> \in owner
        BY <2>1, <2>4 DEF SweepInv
    <2> QED
        BY <2>1, <2>2, <2>3, <2>4, <2>5 DEF ArtifactsAreOwned, TypeOK, OwnedBy
<1>12. ASSUME NEW d \in Datasets, RecoveryResets(d) PROVE ArtifactsAreOwned'
    <2>1. StaleRun(d) \in Runs
        BY <1>12, RecoveryFacts DEF RecoveryResets
    <2>2. inGraph => UNCHANGED <<graph, owner, late>>
        BY <1>12 DEF RecoveryResets, ResetMarkers
    <2>3. ~inGraph => /\ UNCHANGED <<graph, late>> /\ torn' = torn \ undo[StaleRun(d)].read
                      /\ owner' = {pair \in owner : pair[1] # StaleRun(d)}
        BY <1>12 DEF RecoveryResets, ResetMarkers, Disowned
    <2>4. Resetting(StaleRun(d)) /\ inGraph' = inGraph
        BY <1>12 DEF RecoveryResets, Resetting, setup
    <2>5. ~inGraph => \A j \in Items : <<StaleRun(d), j>> \in owner =>
              /\ j \in graph => j \in late
              /\ j \in torn \ late => j \in undo[StaleRun(d)].read
        BY <2>1, <2>4 DEF SweepInv
    <2> QED
        BY <2>1, <2>2, <2>3, <2>4, <2>5 DEF ArtifactsAreOwned, TypeOK
<1>13. CASE UNCHANGED <<graph, owner, late>>
    BY <1>13 DEF ArtifactsAreOwned, Runs
<1>14. CASE UNCHANGED vars
    BY <1>14, <1>13 DEF vars, setup, store, startup
<1> QED
    BY <1>1, <1>2, <1>3, <1>4, <1>5, <1>6, <1>7, <1>8, <1>9, <1>10, <1>11, <1>12, <1>14,
       <1>13 DEF Next, RunStep, RunFails, TaskStep, RecoveryStep

-----------------------------------------------------------------------------
LEMMA TornIsInLedgerInit == Init => TornIsInLedger
BY RunsAssumption DEF Init, Nothing, TornIsInLedger, Runs

LEMMA TornIsInLedgerStep ==
    TypeOK /\ ValidInv /\ LockInv /\ ProcessInv /\ RowInv /\ StaleInv /\ ItemInv /\ SweepInv /\ ArtifactsAreOwned /\ TornIsInLedger /\ [Next]_vars => TornIsInLedger'
<1> SUFFICES ASSUME TypeOK, ValidInv, LockInv, ProcessInv, RowInv, StaleInv, ItemInv, SweepInv, ArtifactsAreOwned, TornIsInLedger, [Next]_vars
             PROVE  TornIsInLedger'
    OBVIOUS
<1> USE RunsAssumption
<1>1. ASSUME NEW c \in Calls, BeginCall(c)
      PROVE  UNCHANGED <<inGraph, owner, torn, late>>
    BY <1>1 DEF BeginCall, setup, store
<1>2. ASSUME NEW r \in Runs, AnswerRun(r) \/ StartRun(r) \/ FinishAnswered(r) \/ EnterContext(r) \/
             GatherErrors(r) \/ GatherResults(r) \/ Complete(r) \/ RollbackReads(r) \/ LogError(r) \/
             LogAndRaise(r) \/ CloseGenerator(r) \/ StartFails(r) \/ EntryFails(r) \/ FlushFails(r) \/
             CancelRun(r) \/ RollbackFails(r) \/ CleanupFails(r)
      PROVE  UNCHANGED <<inGraph, owner, torn, late>>
    BY <1>2
       DEF AnswerRun, StartRun, FinishAnswered, EnterContext, GatherErrors,
           GatherResults, Complete, RollbackReads, LogError, LogAndRaise,
           CloseGenerator, StartFails, EntryFails, FlushFails, CancelRun, RollbackFails,
           CleanupFails, setup, store
<1>3. ASSUME NEW r \in Runs, NEW i \in Items, BeginItem(r, i) \/ FlushItem(r, i) \/ FinishCustomItem(r, i) \/
             ItemRaises(r, i) \/ ItemErrs(r, i)
      PROVE  UNCHANGED <<inGraph, owner, torn, late>>
    BY <1>3 DEF BeginItem, FlushItem, FinishCustomItem, ItemRaises, ItemErrs, setup, store
<1>4. ASSUME NEW d \in Datasets, RecoverySkips(d) \/ RecoveryReads(d) \/ RecoveryLogs(d) \/
             RecoveryFails(d) \/ AddResets(d)
      PROVE  UNCHANGED <<inGraph, owner, torn, late>>
    BY <1>4
       DEF RecoverySkips, RecoveryReads, RecoveryLogs, RecoveryFails, AddResets, setup,
           store
<1>5. ASSUME Crash \/ Restart \/ RecoveryEnds
      PROVE  UNCHANGED <<inGraph, owner, torn, late>>
    BY <1>5 DEF Crash, Restart, RecoveryEnds, setup, store
<1>6. ASSUME NEW r \in Runs, RollbackDeletes(r) PROVE TornIsInLedger'
    <2>1. r \in Runs
        OBVIOUS
    <2>2. inGraph => /\ graph' = graph \ OwnedBy(r) /\ late' = late
                     /\ owner' = {pair \in owner : pair[1] # r}
        BY <1>6 DEF RollbackDeletes, DeleteArtifacts, Disowned
    <2>3. ~inGraph => /\ graph' = graph \ undo[r].read /\ UNCHANGED <<owner, late>>
                      /\ torn' = torn \cup undo[r].read
        BY <1>6 DEF RollbackDeletes, DeleteArtifacts
    <2>4. Deleting(r) /\ inGraph' = inGraph
        BY <1>6 DEF RollbackDeletes, Deleting, setup
    <2>5. ~inGraph => \A j \in Items : j \in undo[r].read => <<r, j>> \in owner
        BY <2>1, <2>4 DEF SweepInv
    <2> QED
        BY <2>1, <2>2, <2>3, <2>4, <2>5 DEF TornIsInLedger, TypeOK, OwnedBy
<1>7. ASSUME NEW r \in Runs, RollbackResets(r) PROVE TornIsInLedger'
    <2>1. r \in Runs
        OBVIOUS
    <2>2. inGraph => UNCHANGED <<graph, owner, late>>
        BY <1>7 DEF RollbackResets, ResetMarkers
    <2>3. ~inGraph => /\ UNCHANGED <<graph, late>> /\ torn' = torn \ undo[r].read
                      /\ owner' = {pair \in owner : pair[1] # r}
        BY <1>7 DEF RollbackResets, ResetMarkers, Disowned
    <2>4. Resetting(r) /\ inGraph' = inGraph
        BY <1>7 DEF RollbackResets, Resetting, setup
    <2>5. ~inGraph => \A j \in Items : <<r, j>> \in owner =>
              /\ j \in graph => j \in late
              /\ j \in torn \ late => j \in undo[r].read
        BY <2>1, <2>4 DEF SweepInv
    <2> QED
        BY <2>1, <2>2, <2>3, <2>4, <2>5 DEF TornIsInLedger, TypeOK
<1>8. ASSUME NEW r \in Runs, NEW i \in Items, LedgerItem(r, i) PROVE TornIsInLedger'
    <2>1. torn' = torn /\ owner \subseteq owner' /\ late' = late /\ inGraph' = inGraph
        BY <1>8 DEF LedgerItem, Owns, setup
    <2> QED
        BY <2>1 DEF TornIsInLedger
<1>9. ASSUME NEW r \in Runs, NEW i \in Items, StoreItem(r, i) PROVE TornIsInLedger'
    <2>1. torn' \subseteq torn /\ owner \subseteq owner' /\ late \subseteq late' /\ inGraph' = inGraph
        BY <1>9 DEF StoreItem, NoteLate, Owns, setup
    <2> QED
        BY <2>1 DEF TornIsInLedger
<1>10. ASSUME NEW r \in Runs, NEW i \in Items, MarkItem(r, i) PROVE TornIsInLedger'
    BY <1>10 DEF MarkItem, NoteLate, setup, TornIsInLedger, Runs
<1>11. ASSUME NEW d \in Datasets, RecoveryDeletes(d) PROVE TornIsInLedger'
    <2>1. StaleRun(d) \in Runs
        BY <1>11, RecoveryFacts DEF RecoveryDeletes
    <2>2. inGraph => /\ graph' = graph \ OwnedBy(StaleRun(d)) /\ late' = late
                     /\ owner' = {pair \in owner : pair[1] # StaleRun(d)}
        BY <1>11 DEF RecoveryDeletes, DeleteArtifacts, Disowned
    <2>3. ~inGraph => /\ graph' = graph \ undo[StaleRun(d)].read /\ UNCHANGED <<owner, late>>
                      /\ torn' = torn \cup undo[StaleRun(d)].read
        BY <1>11 DEF RecoveryDeletes, DeleteArtifacts
    <2>4. Deleting(StaleRun(d)) /\ inGraph' = inGraph
        BY <1>11 DEF RecoveryDeletes, Deleting, setup
    <2>5. ~inGraph => \A j \in Items : j \in undo[StaleRun(d)].read => <<StaleRun(d), j>> \in owner
        BY <2>1, <2>4 DEF SweepInv
    <2> QED
        BY <2>1, <2>2, <2>3, <2>4, <2>5 DEF TornIsInLedger, TypeOK, OwnedBy
<1>12. ASSUME NEW d \in Datasets, RecoveryResets(d) PROVE TornIsInLedger'
    <2>1. StaleRun(d) \in Runs
        BY <1>12, RecoveryFacts DEF RecoveryResets
    <2>2. inGraph => UNCHANGED <<graph, owner, late>>
        BY <1>12 DEF RecoveryResets, ResetMarkers
    <2>3. ~inGraph => /\ UNCHANGED <<graph, late>> /\ torn' = torn \ undo[StaleRun(d)].read
                      /\ owner' = {pair \in owner : pair[1] # StaleRun(d)}
        BY <1>12 DEF RecoveryResets, ResetMarkers, Disowned
    <2>4. Resetting(StaleRun(d)) /\ inGraph' = inGraph
        BY <1>12 DEF RecoveryResets, Resetting, setup
    <2>5. ~inGraph => \A j \in Items : <<StaleRun(d), j>> \in owner =>
              /\ j \in graph => j \in late
              /\ j \in torn \ late => j \in undo[StaleRun(d)].read
        BY <2>1, <2>4 DEF SweepInv
    <2> QED
        BY <2>1, <2>2, <2>3, <2>4, <2>5 DEF TornIsInLedger, TypeOK
<1>13. CASE UNCHANGED <<inGraph, owner, torn, late>>
    BY <1>13 DEF TornIsInLedger, Runs
<1>14. CASE UNCHANGED vars
    BY <1>14, <1>13 DEF vars, setup, store, startup
<1> QED
    BY <1>1, <1>2, <1>3, <1>4, <1>5, <1>6, <1>7, <1>8, <1>9, <1>10, <1>11, <1>12, <1>14,
       <1>13 DEF Next, RunStep, RunFails, TaskStep, RecoveryStep

-----------------------------------------------------------------------------
LEMMA KeepInvInit == Init => KeepInv
BY RunsAssumption DEF Init, Nothing, KeepInv, Runs, IsCognify, Active, Touched, Request, Locked, LatestOf, Busy, Working, RollingBack, DatasetOf

LEMMA KeepInvStep ==
    TypeOK /\ ValidInv /\ LockInv /\ ProcessInv /\ RowInv /\ StaleInv /\ ItemInv /\ DoneInv /\ ActiveInv /\ RollInv
    /\ FreshInv /\ KeepInv /\ [Next]_vars => KeepInv'
<1> SUFFICES ASSUME TypeOK, ValidInv, LockInv, ProcessInv, RowInv, StaleInv, ItemInv,
                    DoneInv, ActiveInv, RollInv, FreshInv, KeepInv, [Next]_vars
             PROVE  KeepInv'
    OBVIOUS
<1> USE RunsAssumption
<1>1. ASSUME NEW d \in Datasets, RecoverySkips(d)
      PROVE  UNCHANGED <<plan, run, task, undo, owner, marker, latest, late>>
    BY <1>1 DEF RecoverySkips, setup, store
<1>2. ASSUME Restart \/ RecoveryEnds
      PROVE  UNCHANGED <<plan, run, task, undo, owner, marker, latest, late>>
    BY <1>2 DEF Restart, RecoveryEnds, setup, store
<1>3. ASSUME NEW c \in Calls, BeginCall(c) PROVE KeepInv'
    <2>1. \A q \in Runs, j \in Items : Touched(q, j)' => Touched(q, j)
        BY <1>3 DEF BeginCall, setup, store, startup, TypeOK, Touched, Working
    <2>2. \A q \in Runs : run[q] \notin Unbegun /\ Active(q)' => Active(q)
        <3>1. \A q \in Runs : run[q] \notin Unbegun /\ run'[q] \in Locked \ {"answered"} => run[q] \in Locked \ {"answered"}
            BY <1>3
               DEF BeginCall, setup, store, startup, TypeOK, Unbegun, Locked, Working,
                   RollingBack
        <3>2. UNCHANGED <<latest, plan>>
            BY <1>3 DEF BeginCall, setup
        <3> QED
            BY <3>1, <3>2 DEF Active, LatestOf, Request, DatasetOf
    <2>3. plan' = plan /\ late \subseteq late' /\ \A j \in Items : marker'[j] \in {marker[j], NoRun}
        BY <1>3 DEF BeginCall, setup, store
    <2> QED
        BY <2>1, <2>2, <2>3, KeepKept
<1>4. ASSUME NEW r \in Runs, AnswerRun(r) PROVE KeepInv'
    <2>1. \A q \in Runs, j \in Items : Touched(q, j)' => Touched(q, j)
        BY <1>4
           DEF AnswerRun, setup, store, startup, FirstAnswer, Runs, NotLast, NextOf,
               Locked, Working, RollingBack, TypeOK, Touched
    <2>2. \A q \in Runs : run[q] \notin Unbegun /\ Active(q)' => Active(q)
        <3>1. \A q \in Runs : run[q] \notin Unbegun /\ run'[q] \in Locked \ {"answered"} => run[q] \in Locked \ {"answered"}
            BY <1>4
               DEF AnswerRun, setup, store, startup, FirstAnswer, Runs, NotLast, NextOf,
                   Locked, Working, RollingBack, TypeOK, Unbegun
        <3>2. UNCHANGED <<latest, plan>>
            BY <1>4 DEF AnswerRun, setup
        <3> QED
            BY <3>1, <3>2 DEF Active, LatestOf, Request, DatasetOf
    <2>3. plan' = plan /\ late \subseteq late' /\ \A j \in Items : marker'[j] \in {marker[j], NoRun}
        BY <1>4 DEF AnswerRun, setup, store
    <2> QED
        BY <2>1, <2>2, <2>3, KeepKept
<1>5. ASSUME NEW r \in Runs, StartRun(r) PROVE KeepInv'
    <2>1. \A q \in Runs, j \in Items : Touched(q, j)' => Touched(q, j)
        BY <1>5
           DEF StartRun, setup, store, startup, FirstAnswer, Runs, NotLast, NextOf,
               Locked, Working, RollingBack, TypeOK, Touched
    <2>2. \A q \in Runs : run[q] \notin Unbegun /\ Active(q)' => Active(q)
        <3>1. \A q \in Runs : run[q] \notin Unbegun /\ run'[q] \in Locked \ {"answered"} => run[q] \in Locked \ {"answered"}
            BY <1>5
               DEF StartRun, setup, store, startup, FirstAnswer, Runs, NotLast, NextOf,
                   Locked, Working, RollingBack, TypeOK, Unbegun
        <3>2. r[2] <= Len(Request(r).sets) /\ LogRow(r, "started") /\ plan' = plan /\ "started" \in Statuses
            BY <1>5 DEF StartRun, ValidInv, Statuses, setup
        <3>3. \A p \in Pipelines, d \in Datasets :
                  latest'[p][d] = latest[p][d] \/ latest'[p][d] = [run |-> r, status |-> "started"]
            BY <3>2, NewRow
        <3>4. \A q \in Runs : run[q] \notin Unbegun =>
                  q # r \/ "started" # "started"
            BY <1>5 DEF StartRun, Unbegun
        <3>5. \A q \in Runs : run[q] \notin Unbegun => Request(q).pipeline \in Pipelines /\ DatasetOf(q) \in Datasets
            BY RequestFacts DEF ValidInv, Unbegun
        <3>6. \A q \in Runs : run[q] \notin Unbegun /\ LatestOf(q)' = [run |-> q, status |-> "started"] => LatestOf(q)' = LatestOf(q)
            BY <3>2, <3>3, <3>4, <3>5 DEF LatestOf, Request, DatasetOf
        <3> QED
            BY <3>1, <3>6 DEF Active
    <2>3. plan' = plan /\ late \subseteq late' /\ \A j \in Items : marker'[j] \in {marker[j], NoRun}
        BY <1>5 DEF StartRun, setup, store
    <2> QED
        BY <2>1, <2>2, <2>3, KeepKept
<1>6. ASSUME NEW r \in Runs, FinishAnswered(r) PROVE KeepInv'
    <2>1. \A q \in Runs, j \in Items : Touched(q, j)' => Touched(q, j)
        BY <1>6
           DEF FinishAnswered, setup, store, startup, Driven, EndRun, Runs, NotLast,
               NextOf, Forget, Nothing, TypeOK, Touched, Working
    <2>2. \A q \in Runs : run[q] \notin Unbegun /\ Active(q)' => Active(q)
        <3>1. \A q \in Runs : run[q] \notin Unbegun /\ run'[q] \in Locked \ {"answered"} => run[q] \in Locked \ {"answered"}
            BY <1>6
               DEF FinishAnswered, setup, store, startup, Driven, EndRun, Runs, NotLast,
                   NextOf, Forget, Nothing, TypeOK, Unbegun, Locked, Working,
                   RollingBack
        <3>2. UNCHANGED <<latest, plan>>
            BY <1>6 DEF FinishAnswered, setup
        <3> QED
            BY <3>1, <3>2 DEF Active, LatestOf, Request, DatasetOf
    <2>3. plan' = plan /\ late \subseteq late' /\ \A j \in Items : marker'[j] \in {marker[j], NoRun}
        BY <1>6 DEF FinishAnswered, setup, store
    <2> QED
        BY <2>1, <2>2, <2>3, KeepKept
<1>7. ASSUME NEW r \in Runs, EnterContext(r) PROVE KeepInv'
    <2>1. \A q \in Runs, j \in Items : Touched(q, j)' => Touched(q, j)
        BY <1>7
           DEF EnterContext, setup, store, startup, Driven, TypeOK, Touched, Going, Busy
    <2>2. \A q \in Runs : run[q] \notin Unbegun /\ Active(q)' => Active(q)
        <3>1. \A q \in Runs : run[q] \notin Unbegun /\ run'[q] \in Locked \ {"answered"} => run[q] \in Locked \ {"answered"}
            BY <1>7
               DEF EnterContext, setup, store, startup, Driven, TypeOK, Unbegun, Locked,
                   Working, RollingBack
        <3>2. UNCHANGED <<latest, plan>>
            BY <1>7 DEF EnterContext, setup
        <3> QED
            BY <3>1, <3>2 DEF Active, LatestOf, Request, DatasetOf
    <2>3. plan' = plan /\ late \subseteq late' /\ \A j \in Items : marker'[j] \in {marker[j], NoRun}
        BY <1>7 DEF EnterContext, setup, store
    <2> QED
        BY <2>1, <2>2, <2>3, KeepKept
<1>8. ASSUME NEW r \in Runs, GatherErrors(r) PROVE KeepInv'
    <2>1. \A q \in Runs, j \in Items : Touched(q, j)' => Touched(q, j)
        BY <1>8
           DEF GatherErrors, setup, store, startup, Fails, Going, Busy, TypeOK, Touched, Working,
               Processed
    <2>2. \A q \in Runs : run[q] \notin Unbegun /\ Active(q)' => Active(q)
        <3>1. \A q \in Runs : run[q] \notin Unbegun /\ run'[q] \in Locked \ {"answered"} => run[q] \in Locked \ {"answered"}
            BY <1>8
               DEF GatherErrors, setup, store, startup, Fails, Going, Busy, TypeOK,
                   Unbegun, Locked, Working, RollingBack
        <3>2. UNCHANGED <<latest, plan>>
            BY <1>8 DEF GatherErrors, setup
        <3> QED
            BY <3>1, <3>2 DEF Active, LatestOf, Request, DatasetOf
    <2>3. plan' = plan /\ late \subseteq late' /\ \A j \in Items : marker'[j] \in {marker[j], NoRun}
        BY <1>8 DEF GatherErrors, setup, store
    <2> QED
        BY <2>1, <2>2, <2>3, KeepKept
<1>9. ASSUME NEW r \in Runs, GatherResults(r) PROVE KeepInv'
    <2>1. \A q \in Runs, j \in Items : Touched(q, j)' => Touched(q, j)
        BY <1>9 DEF GatherResults, setup, store, startup, Going, Busy, TypeOK, Touched, Working
    <2>2. \A q \in Runs : run[q] \notin Unbegun /\ Active(q)' => Active(q)
        <3>1. \A q \in Runs : run[q] \notin Unbegun /\ run'[q] \in Locked \ {"answered"} => run[q] \in Locked \ {"answered"}
            BY <1>9
               DEF GatherResults, setup, store, startup, Going, Busy, TypeOK, Unbegun,
                   Locked, Working, RollingBack
        <3>2. UNCHANGED <<latest, plan>>
            BY <1>9 DEF GatherResults, setup
        <3> QED
            BY <3>1, <3>2 DEF Active, LatestOf, Request, DatasetOf
    <2>3. plan' = plan /\ late \subseteq late' /\ \A j \in Items : marker'[j] \in {marker[j], NoRun}
        BY <1>9 DEF GatherResults, setup, store
    <2> QED
        BY <2>1, <2>2, <2>3, KeepKept
<1>10. ASSUME NEW r \in Runs, Complete(r) PROVE KeepInv'
    <2>1. \A q \in Runs, j \in Items : Touched(q, j)' => Touched(q, j)
        BY <1>10
           DEF Complete, setup, store, startup, EndRun, Runs, NotLast, NextOf, Forget,
               Nothing, TypeOK, Touched, Working
    <2>2. \A q \in Runs : run[q] \notin Unbegun /\ Active(q)' => Active(q)
        <3>1. \A q \in Runs : run[q] \notin Unbegun /\ run'[q] \in Locked \ {"answered"} => run[q] \in Locked \ {"answered"}
            BY <1>10
               DEF Complete, setup, store, startup, EndRun, Runs, NotLast, NextOf,
                   Forget, Nothing, TypeOK, Unbegun, Locked, Working, RollingBack
        <3>2. r[2] <= Len(Request(r).sets) /\ LogRow(r, "completed") /\ plan' = plan /\ "completed" \in Statuses
            BY <1>10 DEF Complete, ValidInv, Statuses, setup
        <3>3. \A p \in Pipelines, d \in Datasets :
                  latest'[p][d] = latest[p][d] \/ latest'[p][d] = [run |-> r, status |-> "completed"]
            BY <3>2, NewRow
        <3>4. \A q \in Runs : run[q] \notin Unbegun =>
                  q # r \/ "completed" # "started"
            BY <1>10 DEF Complete, Unbegun
        <3>5. \A q \in Runs : run[q] \notin Unbegun => Request(q).pipeline \in Pipelines /\ DatasetOf(q) \in Datasets
            BY RequestFacts DEF ValidInv, Unbegun
        <3>6. \A q \in Runs : run[q] \notin Unbegun /\ LatestOf(q)' = [run |-> q, status |-> "started"] => LatestOf(q)' = LatestOf(q)
            BY <3>2, <3>3, <3>4, <3>5 DEF LatestOf, Request, DatasetOf
        <3> QED
            BY <3>1, <3>6 DEF Active
    <2>3. plan' = plan /\ late \subseteq late' /\ \A j \in Items : marker'[j] \in {marker[j], NoRun}
        BY <1>10 DEF Complete, setup, store
    <2> QED
        BY <2>1, <2>2, <2>3, KeepKept
<1>11. ASSUME NEW r \in Runs, RollbackReads(r) PROVE KeepInv'
    <2>1. \A q \in Runs, j \in Items : Touched(q, j)' => Touched(q, j)
        BY <1>11
           DEF RollbackReads, setup, store, startup, ReadArtifacts, OwnedBy, TypeOK,
               Touched, Working
    <2>2. \A q \in Runs : run[q] \notin Unbegun /\ Active(q)' => Active(q)
        <3>1. \A q \in Runs : run[q] \notin Unbegun /\ run'[q] \in Locked \ {"answered"} => run[q] \in Locked \ {"answered"}
            BY <1>11
               DEF RollbackReads, setup, store, startup, ReadArtifacts, OwnedBy, TypeOK,
                   Unbegun, Locked, Working, RollingBack
        <3>2. UNCHANGED <<latest, plan>>
            BY <1>11 DEF RollbackReads, setup
        <3> QED
            BY <3>1, <3>2 DEF Active, LatestOf, Request, DatasetOf
    <2>3. plan' = plan /\ late \subseteq late' /\ \A j \in Items : marker'[j] \in {marker[j], NoRun}
        BY <1>11 DEF RollbackReads, setup, store
    <2> QED
        BY <2>1, <2>2, <2>3, KeepKept
<1>12. ASSUME NEW r \in Runs, RollbackDeletes(r) PROVE KeepInv'
    <2>1. \A q \in Runs, j \in Items : Touched(q, j)' => Touched(q, j)
        BY <1>12
           DEF RollbackDeletes, setup, startup, DeleteArtifacts, OwnedBy, Disowned,
               TypeOK, Touched, Working
    <2>2. \A q \in Runs : run[q] \notin Unbegun /\ Active(q)' => Active(q)
        <3>1. \A q \in Runs : run[q] \notin Unbegun /\ run'[q] \in Locked \ {"answered"} => run[q] \in Locked \ {"answered"}
            BY <1>12
               DEF RollbackDeletes, setup, startup, DeleteArtifacts, OwnedBy, Disowned,
                   TypeOK, Unbegun, Locked, Working, RollingBack
        <3>2. UNCHANGED <<latest, plan>>
            BY <1>12 DEF RollbackDeletes, setup
        <3> QED
            BY <3>1, <3>2 DEF Active, LatestOf, Request, DatasetOf
    <2>3. plan' = plan /\ late \subseteq late' /\ \A j \in Items : marker'[j] \in {marker[j], NoRun}
        BY <1>12 DEF RollbackDeletes, setup, store, DeleteArtifacts
    <2> QED
        BY <2>1, <2>2, <2>3, KeepKept
<1>13. ASSUME NEW r \in Runs, RollbackResets(r) PROVE KeepInv'
    <2>1. \A q \in Runs, j \in Items : Touched(q, j)' => Touched(q, j)
        BY <1>13
           DEF RollbackResets, setup, startup, ResetMarkers, Disowned, TypeOK, Touched, Working
    <2>2. \A q \in Runs : run[q] \notin Unbegun /\ Active(q)' => Active(q)
        <3>1. \A q \in Runs : run[q] \notin Unbegun /\ run'[q] \in Locked \ {"answered"} => run[q] \in Locked \ {"answered"}
            BY <1>13
               DEF RollbackResets, setup, startup, ResetMarkers, Disowned, TypeOK,
                   Unbegun, Locked, Working, RollingBack
        <3>2. UNCHANGED <<latest, plan>>
            BY <1>13 DEF RollbackResets, setup
        <3> QED
            BY <3>1, <3>2 DEF Active, LatestOf, Request, DatasetOf
    <2>3. plan' = plan /\ late \subseteq late' /\ \A j \in Items : marker'[j] \in {marker[j], NoRun}
        BY <1>13 DEF RollbackResets, setup, store, ResetMarkers
    <2> QED
        BY <2>1, <2>2, <2>3, KeepKept
<1>14. ASSUME NEW r \in Runs, LogError(r) PROVE KeepInv'
    <2>1. \A q \in Runs, j \in Items : Touched(q, j)' => Touched(q, j)
        BY <1>14
           DEF LogError, setup, store, startup, EndRun, Runs, NotLast, NextOf, Forget,
               Nothing, TypeOK, Touched, Working
    <2>2. \A q \in Runs : run[q] \notin Unbegun /\ Active(q)' => Active(q)
        <3>1. \A q \in Runs : run[q] \notin Unbegun /\ run'[q] \in Locked \ {"answered"} => run[q] \in Locked \ {"answered"}
            BY <1>14
               DEF LogError, setup, store, startup, EndRun, Runs, NotLast, NextOf,
                   Forget, Nothing, TypeOK, Unbegun, Locked, Working, RollingBack
        <3>2. r[2] <= Len(Request(r).sets) /\ LogRow(r, "errored") /\ plan' = plan /\ "errored" \in Statuses
            BY <1>14 DEF LogError, ValidInv, Statuses, setup
        <3>3. \A p \in Pipelines, d \in Datasets :
                  latest'[p][d] = latest[p][d] \/ latest'[p][d] = [run |-> r, status |-> "errored"]
            BY <3>2, NewRow
        <3>4. \A q \in Runs : run[q] \notin Unbegun =>
                  q # r \/ "errored" # "started"
            BY <1>14 DEF LogError, Unbegun
        <3>5. \A q \in Runs : run[q] \notin Unbegun => Request(q).pipeline \in Pipelines /\ DatasetOf(q) \in Datasets
            BY RequestFacts DEF ValidInv, Unbegun
        <3>6. \A q \in Runs : run[q] \notin Unbegun /\ LatestOf(q)' = [run |-> q, status |-> "started"] => LatestOf(q)' = LatestOf(q)
            BY <3>2, <3>3, <3>4, <3>5 DEF LatestOf, Request, DatasetOf
        <3> QED
            BY <3>1, <3>6 DEF Active
    <2>3. plan' = plan /\ late \subseteq late' /\ \A j \in Items : marker'[j] \in {marker[j], NoRun}
        BY <1>14 DEF LogError, setup, store
    <2> QED
        BY <2>1, <2>2, <2>3, KeepKept
<1>15. ASSUME NEW r \in Runs, LogAndRaise(r) PROVE KeepInv'
    <2>1. \A q \in Runs, j \in Items : Touched(q, j)' => Touched(q, j)
        BY <1>15
           DEF LogAndRaise, setup, store, startup, RaiseRun, Forget, Nothing, TypeOK,
               Touched, Working
    <2>2. \A q \in Runs : run[q] \notin Unbegun /\ Active(q)' => Active(q)
        <3>1. \A q \in Runs : run[q] \notin Unbegun /\ run'[q] \in Locked \ {"answered"} => run[q] \in Locked \ {"answered"}
            BY <1>15
               DEF LogAndRaise, setup, store, startup, RaiseRun, Forget, Nothing,
                   TypeOK, Unbegun, Locked, Working, RollingBack
        <3>2. r[2] <= Len(Request(r).sets) /\ LogRow(r, "errored") /\ plan' = plan /\ "errored" \in Statuses
            BY <1>15 DEF LogAndRaise, ValidInv, Statuses, setup
        <3>3. \A p \in Pipelines, d \in Datasets :
                  latest'[p][d] = latest[p][d] \/ latest'[p][d] = [run |-> r, status |-> "errored"]
            BY <3>2, NewRow
        <3>4. \A q \in Runs : run[q] \notin Unbegun =>
                  q # r \/ "errored" # "started"
            BY <1>15 DEF LogAndRaise, Unbegun
        <3>5. \A q \in Runs : run[q] \notin Unbegun => Request(q).pipeline \in Pipelines /\ DatasetOf(q) \in Datasets
            BY RequestFacts DEF ValidInv, Unbegun
        <3>6. \A q \in Runs : run[q] \notin Unbegun /\ LatestOf(q)' = [run |-> q, status |-> "started"] => LatestOf(q)' = LatestOf(q)
            BY <3>2, <3>3, <3>4, <3>5 DEF LatestOf, Request, DatasetOf
        <3> QED
            BY <3>1, <3>6 DEF Active
    <2>3. plan' = plan /\ late \subseteq late' /\ \A j \in Items : marker'[j] \in {marker[j], NoRun}
        BY <1>15 DEF LogAndRaise, setup, store
    <2> QED
        BY <2>1, <2>2, <2>3, KeepKept
<1>16. ASSUME NEW r \in Runs, CloseGenerator(r) PROVE KeepInv'
    <2>1. \A q \in Runs, j \in Items : Touched(q, j)' => Touched(q, j)
        BY <1>16 DEF CloseGenerator, setup, store, startup, TypeOK, Touched, Working
    <2>2. \A q \in Runs : run[q] \notin Unbegun /\ Active(q)' => Active(q)
        <3>1. \A q \in Runs : run[q] \notin Unbegun /\ run'[q] \in Locked \ {"answered"} => run[q] \in Locked \ {"answered"}
            BY <1>16
               DEF CloseGenerator, setup, store, startup, TypeOK, Unbegun, Locked,
                   Working, RollingBack
        <3>2. UNCHANGED <<latest, plan>>
            BY <1>16 DEF CloseGenerator, setup
        <3> QED
            BY <3>1, <3>2 DEF Active, LatestOf, Request, DatasetOf
    <2>3. plan' = plan /\ late \subseteq late' /\ \A j \in Items : marker'[j] \in {marker[j], NoRun}
        BY <1>16 DEF CloseGenerator, setup, store
    <2> QED
        BY <2>1, <2>2, <2>3, KeepKept
<1>17. ASSUME NEW r \in Runs, StartFails(r) PROVE KeepInv'
    <2>1. \A q \in Runs, j \in Items : Touched(q, j)' => Touched(q, j)
        BY <1>17
           DEF StartFails, setup, store, startup, Fault, RaiseRun, Forget, Nothing,
               TypeOK, Touched, Working
    <2>2. \A q \in Runs : run[q] \notin Unbegun /\ Active(q)' => Active(q)
        <3>1. \A q \in Runs : run[q] \notin Unbegun /\ run'[q] \in Locked \ {"answered"} => run[q] \in Locked \ {"answered"}
            BY <1>17
               DEF StartFails, setup, store, startup, Fault, RaiseRun, Forget, Nothing,
                   TypeOK, Unbegun, Locked, Working, RollingBack
        <3>2. UNCHANGED <<latest, plan>>
            BY <1>17 DEF StartFails, setup
        <3> QED
            BY <3>1, <3>2 DEF Active, LatestOf, Request, DatasetOf
    <2>3. plan' = plan /\ late \subseteq late' /\ \A j \in Items : marker'[j] \in {marker[j], NoRun}
        BY <1>17 DEF StartFails, setup, store
    <2> QED
        BY <2>1, <2>2, <2>3, KeepKept
<1>18. ASSUME NEW r \in Runs, EntryFails(r) PROVE KeepInv'
    <2>1. \A q \in Runs, j \in Items : Touched(q, j)' => Touched(q, j)
        BY <1>18
           DEF EntryFails, setup, store, startup, Fault, Driven, RaiseRun, Forget,
               Nothing, TypeOK, Touched, Working
    <2>2. \A q \in Runs : run[q] \notin Unbegun /\ Active(q)' => Active(q)
        <3>1. \A q \in Runs : run[q] \notin Unbegun /\ run'[q] \in Locked \ {"answered"} => run[q] \in Locked \ {"answered"}
            BY <1>18
               DEF EntryFails, setup, store, startup, Fault, Driven, RaiseRun, Forget,
                   Nothing, TypeOK, Unbegun, Locked, Working, RollingBack
        <3>2. UNCHANGED <<latest, plan>>
            BY <1>18 DEF EntryFails, setup
        <3> QED
            BY <3>1, <3>2 DEF Active, LatestOf, Request, DatasetOf
    <2>3. plan' = plan /\ late \subseteq late' /\ \A j \in Items : marker'[j] \in {marker[j], NoRun}
        BY <1>18 DEF EntryFails, setup, store
    <2> QED
        BY <2>1, <2>2, <2>3, KeepKept
<1>19. ASSUME NEW r \in Runs, FlushFails(r) PROVE KeepInv'
    <2>1. \A q \in Runs, j \in Items : Touched(q, j)' => Touched(q, j)
        BY <1>19
           DEF FlushFails, setup, store, startup, Fault, Fails, TypeOK, Touched, Working,
               Processed
    <2>2. \A q \in Runs : run[q] \notin Unbegun /\ Active(q)' => Active(q)
        <3>1. \A q \in Runs : run[q] \notin Unbegun /\ run'[q] \in Locked \ {"answered"} => run[q] \in Locked \ {"answered"}
            BY <1>19
               DEF FlushFails, setup, store, startup, Fault, Fails, TypeOK, Unbegun,
                   Locked, Working, RollingBack
        <3>2. UNCHANGED <<latest, plan>>
            BY <1>19 DEF FlushFails, setup
        <3> QED
            BY <3>1, <3>2 DEF Active, LatestOf, Request, DatasetOf
    <2>3. plan' = plan /\ late \subseteq late' /\ \A j \in Items : marker'[j] \in {marker[j], NoRun}
        BY <1>19 DEF FlushFails, setup, store
    <2> QED
        BY <2>1, <2>2, <2>3, KeepKept
<1>20. ASSUME NEW r \in Runs, CancelRun(r) PROVE KeepInv'
    <2>1. \A q \in Runs, j \in Items : Touched(q, j)' => Touched(q, j)
        BY <1>20
           DEF CancelRun, setup, store, startup, Going, Fault, Fails, Busy, TypeOK,
               Touched, Working
    <2>2. \A q \in Runs : run[q] \notin Unbegun /\ Active(q)' => Active(q)
        <3>1. \A q \in Runs : run[q] \notin Unbegun /\ run'[q] \in Locked \ {"answered"} => run[q] \in Locked \ {"answered"}
            BY <1>20
               DEF CancelRun, setup, store, startup, Going, Fault, Fails, Busy, TypeOK,
                   Unbegun, Locked, Working, RollingBack
        <3>2. UNCHANGED <<latest, plan>>
            BY <1>20 DEF CancelRun, setup
        <3> QED
            BY <3>1, <3>2 DEF Active, LatestOf, Request, DatasetOf
    <2>3. plan' = plan /\ late \subseteq late' /\ \A j \in Items : marker'[j] \in {marker[j], NoRun}
        BY <1>20 DEF CancelRun, setup, store
    <2> QED
        BY <2>1, <2>2, <2>3, KeepKept
<1>21. ASSUME NEW r \in Runs, RollbackFails(r) PROVE KeepInv'
    <2>1. \A q \in Runs, j \in Items : Touched(q, j)' => Touched(q, j)
        BY <1>21
           DEF RollbackFails, setup, store, startup, RollingBack, Fault, TypeOK, Touched, Working
    <2>2. \A q \in Runs : run[q] \notin Unbegun /\ Active(q)' => Active(q)
        <3>1. \A q \in Runs : run[q] \notin Unbegun /\ run'[q] \in Locked \ {"answered"} => run[q] \in Locked \ {"answered"}
            BY <1>21
               DEF RollbackFails, setup, store, startup, RollingBack, Fault, TypeOK,
                   Unbegun, Locked, Working
        <3>2. UNCHANGED <<latest, plan>>
            BY <1>21 DEF RollbackFails, setup
        <3> QED
            BY <3>1, <3>2 DEF Active, LatestOf, Request, DatasetOf
    <2>3. plan' = plan /\ late \subseteq late' /\ \A j \in Items : marker'[j] \in {marker[j], NoRun}
        BY <1>21 DEF RollbackFails, setup, store
    <2> QED
        BY <2>1, <2>2, <2>3, KeepKept
<1>22. ASSUME NEW r \in Runs, CleanupFails(r) PROVE KeepInv'
    <2>1. \A q \in Runs, j \in Items : Touched(q, j)' => Touched(q, j)
        BY <1>22
           DEF CleanupFails, setup, store, startup, RollingBack, Fault, RaiseRun,
               Forget, Nothing, TypeOK, Touched, Working
    <2>2. \A q \in Runs : run[q] \notin Unbegun /\ Active(q)' => Active(q)
        <3>1. \A q \in Runs : run[q] \notin Unbegun /\ run'[q] \in Locked \ {"answered"} => run[q] \in Locked \ {"answered"}
            BY <1>22
               DEF CleanupFails, setup, store, startup, RollingBack, Fault, RaiseRun,
                   Forget, Nothing, TypeOK, Unbegun, Locked, Working
        <3>2. UNCHANGED <<latest, plan>>
            BY <1>22 DEF CleanupFails, setup
        <3> QED
            BY <3>1, <3>2 DEF Active, LatestOf, Request, DatasetOf
    <2>3. plan' = plan /\ late \subseteq late' /\ \A j \in Items : marker'[j] \in {marker[j], NoRun}
        BY <1>22 DEF CleanupFails, setup, store
    <2> QED
        BY <2>1, <2>2, <2>3, KeepKept
<1>23. ASSUME NEW r \in Runs, NEW i \in Items, BeginItem(r, i) PROVE KeepInv'
    <2>1. \A q \in Runs, j \in Items : Touched(q, j)' =>
              Touched(q, j) \/ (q = r /\ j = i /\ (IsCognify(r) => marker[i] = NoRun))
        BY <1>23 DEF BeginItem, TaskTo, TypeOK, Touched, Busy, store
    <2>2. UNCHANGED <<plan, late, marker, run, latest>>
        BY <1>23 DEF BeginItem, setup, store
    <2>3. \A q \in Runs : Active(q)' = Active(q) /\ IsCognify(q)' = IsCognify(q)
        BY <2>2 DEF Active, LatestOf, IsCognify, Request, DatasetOf
    <2> QED
        BY <2>1, <2>2, <2>3 DEF KeepInv
<1>24. ASSUME NEW r \in Runs, NEW i \in Items, LedgerItem(r, i) PROVE KeepInv'
    <2>1. \A q \in Runs, j \in Items : Touched(q, j)' => Touched(q, j)
        BY <1>24
           DEF LedgerItem, setup, startup, TaskTo, Runs, TypeOK, Touched, Owns, Going,
               Busy
    <2>2. \A q \in Runs : run[q] \notin Unbegun /\ Active(q)' => Active(q)
        <3>1. \A q \in Runs : run[q] \notin Unbegun /\ run'[q] \in Locked \ {"answered"} => run[q] \in Locked \ {"answered"}
            BY <1>24
               DEF LedgerItem, setup, startup, TaskTo, Runs, TypeOK, Unbegun, Locked,
                   Working, RollingBack
        <3>2. UNCHANGED <<latest, plan>>
            BY <1>24 DEF LedgerItem, setup
        <3> QED
            BY <3>1, <3>2 DEF Active, LatestOf, Request, DatasetOf
    <2>3. plan' = plan /\ late \subseteq late' /\ \A j \in Items : marker'[j] \in {marker[j], NoRun}
        BY <1>24 DEF LedgerItem, setup, store
    <2> QED
        BY <2>1, <2>2, <2>3, KeepKept
<1>25. ASSUME NEW r \in Runs, NEW i \in Items, StoreItem(r, i) PROVE KeepInv'
    <2>1. \A q \in Runs, j \in Items : Touched(q, j)' => Touched(q, j)
        BY <1>25
           DEF StoreItem, setup, startup, TaskTo, NoteLate, Runs, TypeOK, Touched, Owns,
               Going, Busy
    <2>2. \A q \in Runs : run[q] \notin Unbegun /\ Active(q)' => Active(q)
        <3>1. \A q \in Runs : run[q] \notin Unbegun /\ run'[q] \in Locked \ {"answered"} => run[q] \in Locked \ {"answered"}
            BY <1>25
               DEF StoreItem, setup, startup, TaskTo, NoteLate, Runs, TypeOK, Unbegun,
                   Locked, Working, RollingBack
        <3>2. UNCHANGED <<latest, plan>>
            BY <1>25 DEF StoreItem, setup
        <3> QED
            BY <3>1, <3>2 DEF Active, LatestOf, Request, DatasetOf
    <2>3. plan' = plan /\ late \subseteq late' /\ \A j \in Items : marker'[j] \in {marker[j], NoRun}
        BY <1>25 DEF StoreItem, setup, store, NoteLate
    <2> QED
        BY <2>1, <2>2, <2>3, KeepKept
<1>26. ASSUME NEW r \in Runs, NEW i \in Items, MarkItem(r, i) PROVE KeepInv'
    <2>1. UNCHANGED <<plan, run, latest, owner, undo>> /\ late \subseteq late'
        BY <1>26 DEF MarkItem, NoteLate, setup
    <2>2. \A q \in Runs : Active(q)' = Active(q) /\ IsCognify(q)' = IsCognify(q)
        BY <2>1 DEF Active, LatestOf, IsCognify, Request, DatasetOf
    <2>3. \A q \in Runs, j \in Items : Touched(q, j)' => Touched(q, j)
        BY <1>26, <2>1 DEF MarkItem, TaskTo, TypeOK, Touched, Busy
    <2>4. marker'[i] = r /\ \A j \in Items : j # i => marker'[j] = marker[j]
        BY <1>26 DEF MarkItem, TypeOK
    <2>5. ASSUME NEW q \in Runs, q # r, IsCognify(q), run[q] # "none", Active(q), Touched(q, i)
          PROVE  i \in late'
        <3>1. SUFFICES ASSUME run[r] = "working" PROVE FALSE
            BY <1>26 DEF MarkItem, NoteLate
        <3>2. i \in ItemsIn(r) /\ i \in ItemsIn(q)
            BY <1>26, <2>5 DEF MarkItem, ItemInv, Touched, Busy
        <3>3. DatasetOf(r) \in Datasets /\ DatasetOf(q) \in Datasets
            BY <2>5, <3>1, RequestFacts DEF ValidInv
        <3>4. DatasetOf(r) = DatasetOf(q)
            BY <3>2, <3>3, RunsAssumption DEF ItemsIn
        <3>5. LatestOf(q) = [run |-> q, status |-> "started"]
            BY <2>5, <3>1, <3>4 DEF Active, LockInv, Locked, Working
        <3>6. IsCognify(r)
            BY <1>26 DEF MarkItem, RollInv
        <3>7. LatestOf(r) = LatestOf(q)
            BY <2>5, <3>4, <3>6 DEF LatestOf, IsCognify
        <3> QED
            BY <2>5, <3>1, <3>5, <3>7 DEF ActiveInv, Locked, Working
    <2> QED
        BY <2>1, <2>2, <2>3, <2>4, <2>5 DEF KeepInv
<1>27. ASSUME NEW r \in Runs, NEW i \in Items, FlushItem(r, i) \/ FinishCustomItem(r, i) PROVE KeepInv'
    <2>1. \A q \in Runs, j \in Items : Touched(q, j)' => Touched(q, j)
        <3>1. TaskTo(r, i, "ok") /\ UNCHANGED <<run, undo, owner>>
            BY <1>27 DEF FlushItem, FinishCustomItem, store
        <3>2. CASE FlushItem(r, i)
            BY <3>1, <3>2 DEF FlushItem, TaskTo, TypeOK, Touched, Busy
        <3>3. CASE FinishCustomItem(r, i)
            BY <3>1, <3>3 DEF FinishCustomItem, TaskTo, TypeOK, Touched, Busy
        <3> QED
            BY <1>27, <3>2, <3>3
    <2>2. \A q \in Runs : run[q] \notin Unbegun /\ Active(q)' => Active(q)
        <3>1. \A q \in Runs : run[q] \notin Unbegun /\ run'[q] \in Locked \ {"answered"} => run[q] \in Locked \ {"answered"}
            BY <1>27
               DEF FlushItem, FinishCustomItem, setup, store, startup, TaskTo, TypeOK, Unbegun,
                   Locked, Working, RollingBack
        <3>2. UNCHANGED <<latest, plan>>
            BY <1>27 DEF FlushItem, FinishCustomItem, setup
        <3> QED
            BY <3>1, <3>2 DEF Active, LatestOf, Request, DatasetOf
    <2>3. plan' = plan /\ late \subseteq late' /\ \A j \in Items : marker'[j] \in {marker[j], NoRun}
        BY <1>27 DEF FlushItem, FinishCustomItem, setup, store
    <2> QED
        BY <2>1, <2>2, <2>3, KeepKept
<1>28. ASSUME NEW r \in Runs, NEW i \in Items, ItemRaises(r, i) PROVE KeepInv'
    <2>1. \A q \in Runs, j \in Items : Touched(q, j)' => Touched(q, j)
        BY <1>28
           DEF ItemRaises, setup, store, startup, Busy, Fault, Fails, TaskTo,
               TypeOK, Touched, Working, Going
    <2>2. \A q \in Runs : run[q] \notin Unbegun /\ Active(q)' => Active(q)
        <3>1. \A q \in Runs : run[q] \notin Unbegun /\ run'[q] \in Locked \ {"answered"} => run[q] \in Locked \ {"answered"}
            BY <1>28
               DEF ItemRaises, setup, store, startup, Busy, Fault, Fails, TaskTo, TypeOK, Unbegun, Locked, Working, RollingBack
        <3>2. UNCHANGED <<latest, plan>>
            BY <1>28 DEF ItemRaises, setup
        <3> QED
            BY <3>1, <3>2 DEF Active, LatestOf, Request, DatasetOf
    <2>3. plan' = plan /\ late \subseteq late' /\ \A j \in Items : marker'[j] \in {marker[j], NoRun}
        BY <1>28 DEF ItemRaises, setup, store
    <2> QED
        BY <2>1, <2>2, <2>3, KeepKept
<1>29. ASSUME NEW r \in Runs, NEW i \in Items, ItemErrs(r, i) PROVE KeepInv'
    <2>1. \A q \in Runs, j \in Items : IsCognify(q) /\ Touched(q, j)' => Touched(q, j)
        <3>1. TaskTo(r, i, "failed") /\ UNCHANGED <<run, undo, owner>>
            BY <1>29 DEF ItemErrs, store
        <3>2. task[r][i] \in Busy \/ (task[r][i] \in Going /\ run[r] # "working")
            BY <1>29 DEF ItemErrs
        <3>3. IsCognify(r) /\ task[r][i] \in Going => run[r] # "flushing"
            <4>1. task[r][i] \in Going => i \in ItemsIn(r)
                BY DEF ItemInv, Going, Busy
            <4> QED
                BY <4>1 DEF DoneInv, DoneOf
        <3>4. Touched(r, i)' /\ IsCognify(r) => Touched(r, i)
            BY <3>1, <3>2, <3>3 DEF TaskTo, TypeOK, Touched, Working, Busy
        <3>5. \A q \in Runs, j \in Items : q # r \/ j # i => (Touched(q, j)' <=> Touched(q, j))
            BY <3>1 DEF TaskTo, TypeOK, Touched
        <3> QED
            BY <3>4, <3>5
    <2>2. \A q \in Runs : run[q] \notin Unbegun /\ Active(q)' => Active(q)
        <3>1. \A q \in Runs : run[q] \notin Unbegun /\ run'[q] \in Locked \ {"answered"} => run[q] \in Locked \ {"answered"}
            BY <1>29
               DEF ItemErrs, setup, store, startup, Busy, Fault, TaskTo, TypeOK,
                   Unbegun, Locked, Working, RollingBack
        <3>2. UNCHANGED <<latest, plan>>
            BY <1>29 DEF ItemErrs, setup
        <3> QED
            BY <3>1, <3>2 DEF Active, LatestOf, Request, DatasetOf
    <2>3. plan' = plan /\ late \subseteq late' /\ \A j \in Items : marker'[j] \in {marker[j], NoRun}
        BY <1>29 DEF ItemErrs, setup, store
    <2> QED
        BY <2>1, <2>2, <2>3, KeepKept
<1>30. ASSUME NEW d \in Datasets, RecoveryReads(d) PROVE KeepInv'
    <2>1. \A q \in Runs, j \in Items : Touched(q, j)' => Touched(q, j)
        BY <1>30
           DEF RecoveryReads, setup, store, ReadArtifacts, OwnedBy, TypeOK, Touched,
               StaleRun
    <2>2. \A q \in Runs : run[q] \notin Unbegun /\ Active(q)' => Active(q)
        <3>1. \A q \in Runs : run[q] \notin Unbegun /\ run'[q] \in Locked \ {"answered"} => run[q] \in Locked \ {"answered"}
            BY <1>30
               DEF RecoveryReads, setup, store, ReadArtifacts, OwnedBy, TypeOK, Unbegun,
                   Locked, Working, RollingBack
        <3>2. UNCHANGED <<latest, plan>>
            BY <1>30 DEF RecoveryReads, setup
        <3> QED
            BY <3>1, <3>2 DEF Active, LatestOf, Request, DatasetOf
    <2>3. plan' = plan /\ late \subseteq late' /\ \A j \in Items : marker'[j] \in {marker[j], NoRun}
        BY <1>30 DEF RecoveryReads, setup, store
    <2> QED
        BY <2>1, <2>2, <2>3, KeepKept
<1>31. ASSUME NEW d \in Datasets, RecoveryDeletes(d) PROVE KeepInv'
    <2>1. \A q \in Runs, j \in Items : Touched(q, j)' => Touched(q, j)
        BY <1>31
           DEF RecoveryDeletes, setup, DeleteArtifacts, OwnedBy, Disowned, TypeOK,
               Touched, StaleRun
    <2>2. \A q \in Runs : run[q] \notin Unbegun /\ Active(q)' => Active(q)
        <3>1. \A q \in Runs : run[q] \notin Unbegun /\ run'[q] \in Locked \ {"answered"} => run[q] \in Locked \ {"answered"}
            BY <1>31
               DEF RecoveryDeletes, setup, DeleteArtifacts, OwnedBy, Disowned, TypeOK,
                   Unbegun, Locked, Working, RollingBack
        <3>2. UNCHANGED <<latest, plan>>
            BY <1>31 DEF RecoveryDeletes, setup
        <3> QED
            BY <3>1, <3>2 DEF Active, LatestOf, Request, DatasetOf
    <2>3. plan' = plan /\ late \subseteq late' /\ \A j \in Items : marker'[j] \in {marker[j], NoRun}
        BY <1>31 DEF RecoveryDeletes, setup, store, DeleteArtifacts
    <2> QED
        BY <2>1, <2>2, <2>3, KeepKept
<1>32. ASSUME NEW d \in Datasets, RecoveryResets(d) PROVE KeepInv'
    <2>1. \A q \in Runs, j \in Items : Touched(q, j)' => Touched(q, j)
        BY <1>32
           DEF RecoveryResets, setup, ResetMarkers, Disowned, TypeOK, Touched, StaleRun
    <2>2. \A q \in Runs : run[q] \notin Unbegun /\ Active(q)' => Active(q)
        <3>1. \A q \in Runs : run[q] \notin Unbegun /\ run'[q] \in Locked \ {"answered"} => run[q] \in Locked \ {"answered"}
            BY <1>32
               DEF RecoveryResets, setup, ResetMarkers, Disowned, TypeOK, Unbegun,
                   Locked, Working, RollingBack
        <3>2. UNCHANGED <<latest, plan>>
            BY <1>32 DEF RecoveryResets, setup
        <3> QED
            BY <3>1, <3>2 DEF Active, LatestOf, Request, DatasetOf
    <2>3. plan' = plan /\ late \subseteq late' /\ \A j \in Items : marker'[j] \in {marker[j], NoRun}
        BY <1>32 DEF RecoveryResets, setup, store, ResetMarkers
    <2> QED
        BY <2>1, <2>2, <2>3, KeepKept
<1>33. ASSUME NEW d \in Datasets, RecoveryLogs(d) PROVE KeepInv'
    <2>1. \A q \in Runs, j \in Items : Touched(q, j)' => Touched(q, j)
        BY <1>33 DEF RecoveryLogs, setup, store, Nothing, TypeOK, Touched, StaleRun
    <2>2. \A q \in Runs : run[q] \notin Unbegun /\ Active(q)' => Active(q)
        <3>1. UNCHANGED <<run, plan>>
            BY <1>33 DEF RecoveryLogs, setup
        <3>2. \A p \in Pipelines, e \in Datasets :
                  latest'[p][e] = latest[p][e] \/ latest'[p][e].status = "initiated"
            BY <1>33 DEF RecoveryLogs, TypeOK, Pipelines
        <3>3. \A q \in Runs : run[q] \notin Unbegun => Request(q).pipeline \in Pipelines /\ DatasetOf(q) \in Datasets
            BY RequestFacts DEF ValidInv, Unbegun
        <3>4. \A q \in Runs : run[q] \notin Unbegun /\ LatestOf(q)' = [run |-> q, status |-> "started"] => LatestOf(q)' = LatestOf(q)
            BY <3>1, <3>2, <3>3 DEF LatestOf, Request, DatasetOf
        <3> QED
            BY <3>1, <3>4 DEF Active
    <2>3. plan' = plan /\ late \subseteq late' /\ \A j \in Items : marker'[j] \in {marker[j], NoRun}
        BY <1>33 DEF RecoveryLogs, setup, store
    <2> QED
        BY <2>1, <2>2, <2>3, KeepKept
<1>34. ASSUME NEW d \in Datasets, RecoveryFails(d) PROVE KeepInv'
    <2>1. \A q \in Runs, j \in Items : Touched(q, j)' => Touched(q, j)
        BY <1>34
           DEF RecoveryFails, setup, store, Nothing, Fault, TypeOK, Touched, StaleRun
    <2>2. \A q \in Runs : run[q] \notin Unbegun /\ Active(q)' => Active(q)
        <3>1. \A q \in Runs : run[q] \notin Unbegun /\ run'[q] \in Locked \ {"answered"} => run[q] \in Locked \ {"answered"}
            BY <1>34
               DEF RecoveryFails, setup, store, Nothing, Fault, TypeOK, Unbegun, Locked,
                   Working, RollingBack
        <3>2. UNCHANGED <<latest, plan>>
            BY <1>34 DEF RecoveryFails, setup
        <3> QED
            BY <3>1, <3>2 DEF Active, LatestOf, Request, DatasetOf
    <2>3. plan' = plan /\ late \subseteq late' /\ \A j \in Items : marker'[j] \in {marker[j], NoRun}
        BY <1>34 DEF RecoveryFails, setup, store
    <2> QED
        BY <2>1, <2>2, <2>3, KeepKept
<1>35. ASSUME NEW d \in Datasets, AddResets(d) PROVE KeepInv'
    <2>1. \A q \in Runs, j \in Items : Touched(q, j)' => Touched(q, j)
        BY <1>35 DEF AddResets, setup, store, startup, TypeOK, Touched
    <2>2. \A q \in Runs : run[q] \notin Unbegun /\ Active(q)' => Active(q)
        <3>1. UNCHANGED <<run, plan>>
            BY <1>35 DEF AddResets, setup
        <3>2. \A p \in Pipelines, e \in Datasets :
                  latest'[p][e] = latest[p][e] \/ latest'[p][e].status = "initiated"
            BY <1>35 DEF AddResets, TypeOK, Pipelines
        <3>3. \A q \in Runs : run[q] \notin Unbegun => Request(q).pipeline \in Pipelines /\ DatasetOf(q) \in Datasets
            BY RequestFacts DEF ValidInv, Unbegun
        <3>4. \A q \in Runs : run[q] \notin Unbegun /\ LatestOf(q)' = [run |-> q, status |-> "started"] => LatestOf(q)' = LatestOf(q)
            BY <3>1, <3>2, <3>3 DEF LatestOf, Request, DatasetOf
        <3> QED
            BY <3>1, <3>4 DEF Active
    <2>3. plan' = plan /\ late \subseteq late' /\ \A j \in Items : marker'[j] \in {marker[j], NoRun}
        BY <1>35 DEF AddResets, setup, store
    <2> QED
        BY <2>1, <2>2, <2>3, KeepKept
<1>36. ASSUME Crash PROVE KeepInv'
    <2>1. \A q \in Runs, j \in Items : Touched(q, j)' => Touched(q, j)
        BY <1>36
           DEF Crash, Runs, setup, store, Locked, Going, Nothing, Fault, Working,
               RollingBack, Busy, TypeOK, Touched
    <2>2. \A q \in Runs : run[q] \notin Unbegun /\ Active(q)' => Active(q)
        <3>1. \A q \in Runs : run[q] \notin Unbegun /\ run'[q] \in Locked \ {"answered"} => run[q] \in Locked \ {"answered"}
            BY <1>36
               DEF Crash, Runs, setup, store, Locked, Going, Nothing, Fault, Working,
                   RollingBack, Busy, TypeOK, Unbegun
        <3>2. UNCHANGED <<latest, plan>>
            BY <1>36 DEF Crash, setup
        <3> QED
            BY <3>1, <3>2 DEF Active, LatestOf, Request, DatasetOf
    <2>3. plan' = plan /\ late \subseteq late' /\ \A j \in Items : marker'[j] \in {marker[j], NoRun}
        BY <1>36 DEF Crash, setup, store
    <2> QED
        BY <2>1, <2>2, <2>3, KeepKept
<1>37. CASE UNCHANGED <<plan, run, task, undo, owner, marker, latest, late>>
    BY <1>37
       DEF KeepInv, Runs, IsCognify, Active, Touched, Request, Locked, LatestOf, Busy,
           Working, RollingBack, DatasetOf
<1>38. CASE UNCHANGED vars
    BY <1>38, <1>37 DEF vars, setup, store, startup
<1> QED
    BY <1>1, <1>2, <1>3, <1>4, <1>5, <1>6, <1>7, <1>8, <1>9, <1>10, <1>11, <1>12, <1>13,
       <1>14, <1>15, <1>16, <1>17, <1>18, <1>19, <1>20, <1>21, <1>22, <1>23, <1>24,
       <1>25, <1>26, <1>27, <1>28, <1>29, <1>30, <1>31, <1>32, <1>33, <1>34, <1>35,
       <1>36, <1>38, <1>37 DEF Next, RunStep, RunFails, TaskStep, RecoveryStep

-----------------------------------------------------------------------------
LEMMA StartedIsLiveInit == Init => StartedIsLive
BY RunsAssumption DEF Init, Nothing, StartedIsLive, Pipelines, Locked, Working, RollingBack

LEMMA StartedIsLiveStep ==
    TypeOK /\ ValidInv /\ IdleInv /\ OrderInv /\ RowInv /\ StartedIsLive /\ [Next]_vars => StartedIsLive'
<1> SUFFICES ASSUME TypeOK, ValidInv, IdleInv, OrderInv, RowInv, StartedIsLive, [Next]_vars
             PROVE  StartedIsLive'
    OBVIOUS
<1> USE RunsAssumption
<1>1. ASSUME NEW r \in Runs, NEW i \in Items, BeginItem(r, i) \/ LedgerItem(r, i) \/ StoreItem(r, i) \/
             MarkItem(r, i) \/ FlushItem(r, i) \/ FinishCustomItem(r, i) \/ ItemErrs(r, i)
      PROVE  UNCHANGED <<run, latest>>
    BY <1>1 DEF BeginItem, LedgerItem, StoreItem, MarkItem, FlushItem, FinishCustomItem, ItemErrs
<1>2. ASSUME NEW d \in Datasets, RecoverySkips(d) \/ RecoveryReads(d) \/ RecoveryDeletes(d) \/
             RecoveryResets(d) \/ RecoveryFails(d)
      PROVE  UNCHANGED <<run, latest>>
    BY <1>2
       DEF RecoverySkips, RecoveryReads, RecoveryDeletes, RecoveryResets, RecoveryFails
<1>3. ASSUME Restart \/ RecoveryEnds
      PROVE  UNCHANGED <<run, latest>>
    BY <1>3 DEF Restart, RecoveryEnds
<1>4. ASSUME NEW c \in Calls, BeginCall(c) PROVE StartedIsLive'
    <2>1. \A q \in Runs : run'[q] = run[q] \/ run[q] = "none"
        BY <1>4 DEF BeginCall, TypeOK, IdleInv
    <2>2. latest' = latest
        BY <1>4 DEF BeginCall
    <2> QED
        BY <2>1, <2>2 DEF StartedIsLive, RowInv, Locked, Working, RollingBack
<1>5. ASSUME NEW r \in Runs, AnswerRun(r) PROVE StartedIsLive'
    <2>1. run[r] = "waiting" /\ FirstAnswer(r, "answered") /\ plan' = plan
        BY <1>5 DEF AnswerRun, setup
    <2>2. "answered" \in RunPcs
        BY DEF RunPcs, Locked
    <2>3. \A q \in Runs : q # r => run'[q] = run[q] \/ run[q] = "none"
        BY <2>1, <2>2, FirstAnswerRuns DEF OrderInv, Open, Runs
    <2>4. latest' = latest
        BY <1>5 DEF AnswerRun
    <2> QED
        BY <2>1, <2>3, <2>4 DEF StartedIsLive, RowInv, Locked, Working, RollingBack
<1>6. ASSUME NEW r \in Runs, StartRun(r) PROVE StartedIsLive'
    <2>1. run[r] = "waiting" /\ LogRow(r, "started") /\ plan' = plan /\ "started" \in Statuses
        BY <1>6 DEF StartRun, Statuses, setup
    <2>2. r[2] <= Len(Request(r).sets)
        BY <2>1 DEF ValidInv
    <2>3. \A q \in Runs : Request(q)' = Request(q) /\ DatasetOf(q)' = DatasetOf(q)
        BY <2>1 DEF Request, DatasetOf
    <2>4. \A q \in Runs : q # r => run'[q] = run[q] \/ run[q] = "none"
        <3>1. FirstAnswer(r, "started") /\ "started" \in RunPcs
            BY <1>6 DEF StartRun, RunPcs, Locked
        <3> QED
            BY <2>1, <3>1, FirstAnswerRuns DEF OrderInv, Open, Runs
    <2>5. run'[r] = "started"
        BY <1>6 DEF StartRun, FirstAnswer, TypeOK
    <2>6. \A p \in Pipelines, d \in Datasets :
              \/ latest'[p][d] = latest[p][d] /\ (p # Request(r).pipeline \/ d # DatasetOf(r))
              \/ latest'[p][d] = [run |-> r, status |-> "started"]
        BY <2>1, <2>2, NewRow
    <2> QED
        BY <2>4, <2>5, <2>6 DEF StartedIsLive, RowInv, Locked, Working, RollingBack
<1>7. ASSUME NEW r \in Runs, FinishAnswered(r) PROVE StartedIsLive'
    <2>1. run[r] = "answered" /\ EndRun(r) /\ plan' = plan
        BY <1>7 DEF FinishAnswered, setup
    <2>2. \A q \in Runs : q # r => run'[q] = run[q] \/ run[q] = "none"
        BY <2>1, EndRunRuns DEF OrderInv, Open, Runs
    <2>3. latest' = latest
        BY <1>7 DEF FinishAnswered
    <2> QED
        BY <2>1, <2>2, <2>3 DEF StartedIsLive, RowInv, Locked, Working, RollingBack
<1>8. ASSUME NEW r \in Runs, EnterContext(r) PROVE StartedIsLive'
    <2>1. \A q \in Runs : run[q] \in (Locked \ {"answered"}) \cup {"dropped"} => run'[q] \in (Locked \ {"answered"}) \cup {"dropped"}
        BY <1>8
           DEF EnterContext, setup, store, startup, ItemsIn, Driven, TypeOK, Locked,
               Working, RollingBack
    <2>2. latest' = latest
        BY <1>8 DEF EnterContext
    <2> QED
        BY <2>1, <2>2 DEF StartedIsLive, RowInv
<1>9. ASSUME NEW r \in Runs, GatherErrors(r) PROVE StartedIsLive'
    <2>1. \A q \in Runs : run[q] \in (Locked \ {"answered"}) \cup {"dropped"} => run'[q] \in (Locked \ {"answered"}) \cup {"dropped"}
        BY <1>9
           DEF GatherErrors, setup, store, startup, Fails, Returned, IsCognify, Going,
               Busy, TypeOK, Locked, Working, RollingBack
    <2>2. latest' = latest
        BY <1>9 DEF GatherErrors
    <2> QED
        BY <2>1, <2>2 DEF StartedIsLive, RowInv
<1>10. ASSUME NEW r \in Runs, GatherResults(r) PROVE StartedIsLive'
    <2>1. \A q \in Runs : run[q] \in (Locked \ {"answered"}) \cup {"dropped"} => run'[q] \in (Locked \ {"answered"}) \cup {"dropped"}
        BY <1>10
           DEF GatherResults, setup, store, startup, Returned, Going, Busy, TypeOK,
               Locked, Working, RollingBack
    <2>2. latest' = latest
        BY <1>10 DEF GatherResults
    <2> QED
        BY <2>1, <2>2 DEF StartedIsLive, RowInv
<1>11. ASSUME NEW r \in Runs, Complete(r) PROVE StartedIsLive'
    <2>1. run[r] = "flushing" /\ LogRow(r, "completed") /\ plan' = plan /\ "completed" \in Statuses
        BY <1>11 DEF Complete, Statuses, setup
    <2>2. r[2] <= Len(Request(r).sets)
        BY <2>1 DEF ValidInv
    <2>3. \A q \in Runs : Request(q)' = Request(q) /\ DatasetOf(q)' = DatasetOf(q)
        BY <2>1 DEF Request, DatasetOf
    <2>4. \A q \in Runs : q # r => run'[q] = run[q] \/ run[q] = "none"
        <3>1. EndRun(r)
            BY <1>11 DEF Complete
        <3> QED
            BY <2>1, <3>1, EndRunRuns DEF OrderInv, Open, Runs
    <2>6. \A p \in Pipelines, d \in Datasets :
              \/ latest'[p][d] = latest[p][d] /\ (p # Request(r).pipeline \/ d # DatasetOf(r))
              \/ latest'[p][d] = [run |-> r, status |-> "completed"]
        BY <2>1, <2>2, NewRow
    <2> QED
        BY <2>4, <2>6 DEF StartedIsLive, RowInv, Locked, Working, RollingBack
<1>12. ASSUME NEW r \in Runs, RollbackReads(r) PROVE StartedIsLive'
    <2>1. \A q \in Runs : run[q] \in (Locked \ {"answered"}) \cup {"dropped"} => run'[q] \in (Locked \ {"answered"}) \cup {"dropped"}
        BY <1>12
           DEF RollbackReads, setup, store, startup, ReadArtifacts, OwnedBy, TypeOK,
               Locked, Working, RollingBack
    <2>2. latest' = latest
        BY <1>12 DEF RollbackReads
    <2> QED
        BY <2>1, <2>2 DEF StartedIsLive, RowInv
<1>13. ASSUME NEW r \in Runs, RollbackDeletes(r) PROVE StartedIsLive'
    <2>1. \A q \in Runs : run[q] \in (Locked \ {"answered"}) \cup {"dropped"} => run'[q] \in (Locked \ {"answered"}) \cup {"dropped"}
        BY <1>13
           DEF RollbackDeletes, setup, startup, DeleteArtifacts, OwnedBy, Disowned,
               TypeOK, Locked, Working, RollingBack
    <2>2. latest' = latest
        BY <1>13 DEF RollbackDeletes
    <2> QED
        BY <2>1, <2>2 DEF StartedIsLive, RowInv
<1>14. ASSUME NEW r \in Runs, RollbackResets(r) PROVE StartedIsLive'
    <2>1. \A q \in Runs : run[q] \in (Locked \ {"answered"}) \cup {"dropped"} => run'[q] \in (Locked \ {"answered"}) \cup {"dropped"}
        BY <1>14
           DEF RollbackResets, setup, startup, ResetMarkers, Disowned, TypeOK, Locked,
               Working, RollingBack
    <2>2. latest' = latest
        BY <1>14 DEF RollbackResets
    <2> QED
        BY <2>1, <2>2 DEF StartedIsLive, RowInv
<1>15. ASSUME NEW r \in Runs, LogError(r) PROVE StartedIsLive'
    <2>1. run[r] = "erring" /\ LogRow(r, "errored") /\ plan' = plan /\ "errored" \in Statuses
        BY <1>15 DEF LogError, Statuses, setup
    <2>2. r[2] <= Len(Request(r).sets)
        BY <2>1 DEF ValidInv
    <2>3. \A q \in Runs : Request(q)' = Request(q) /\ DatasetOf(q)' = DatasetOf(q)
        BY <2>1 DEF Request, DatasetOf
    <2>4. \A q \in Runs : q # r => run'[q] = run[q] \/ run[q] = "none"
        <3>1. EndRun(r)
            BY <1>15 DEF LogError
        <3> QED
            BY <2>1, <3>1, EndRunRuns DEF OrderInv, Open, Runs
    <2>6. \A p \in Pipelines, d \in Datasets :
              \/ latest'[p][d] = latest[p][d] /\ (p # Request(r).pipeline \/ d # DatasetOf(r))
              \/ latest'[p][d] = [run |-> r, status |-> "errored"]
        BY <2>1, <2>2, NewRow
    <2> QED
        BY <2>4, <2>6 DEF StartedIsLive, RowInv, Locked, Working, RollingBack
<1>16. ASSUME NEW r \in Runs, LogAndRaise(r) PROVE StartedIsLive'
    <2>1. run[r] = "erring" /\ LogRow(r, "errored") /\ plan' = plan /\ "errored" \in Statuses
        BY <1>16 DEF LogAndRaise, Statuses, setup
    <2>2. r[2] <= Len(Request(r).sets)
        BY <2>1 DEF ValidInv
    <2>3. \A q \in Runs : Request(q)' = Request(q) /\ DatasetOf(q)' = DatasetOf(q)
        BY <2>1 DEF Request, DatasetOf
    <2>4. \A q \in Runs : q # r => run'[q] = run[q] \/ run[q] = "none"
        BY <1>16 DEF LogAndRaise, RaiseRun, TypeOK
    <2>6. \A p \in Pipelines, d \in Datasets :
              \/ latest'[p][d] = latest[p][d] /\ (p # Request(r).pipeline \/ d # DatasetOf(r))
              \/ latest'[p][d] = [run |-> r, status |-> "errored"]
        BY <2>1, <2>2, NewRow
    <2> QED
        BY <2>4, <2>6 DEF StartedIsLive, RowInv, Locked, Working, RollingBack
<1>17. ASSUME NEW r \in Runs, CloseGenerator(r) PROVE StartedIsLive'
    <2>1. \A q \in Runs : run[q] \in (Locked \ {"answered"}) \cup {"dropped"} => run'[q] \in (Locked \ {"answered"}) \cup {"dropped"}
        BY <1>17
           DEF CloseGenerator, setup, store, startup, TypeOK, Locked, Working,
               RollingBack
    <2>2. latest' = latest
        BY <1>17 DEF CloseGenerator
    <2> QED
        BY <2>1, <2>2 DEF StartedIsLive, RowInv
<1>18. ASSUME NEW r \in Runs, StartFails(r) PROVE StartedIsLive'
    <2>1. \A q \in Runs : run[q] \in (Locked \ {"answered"}) \cup {"dropped"} => run'[q] \in (Locked \ {"answered"}) \cup {"dropped"}
        BY <1>18
           DEF StartFails, setup, store, startup, Fault, RaiseRun, Forget, Nothing,
               TypeOK, Locked, Working, RollingBack
    <2>2. latest' = latest
        BY <1>18 DEF StartFails
    <2> QED
        BY <2>1, <2>2 DEF StartedIsLive, RowInv
<1>19. ASSUME NEW r \in Runs, EntryFails(r) PROVE StartedIsLive'
    <2>1. \A q \in Runs : run[q] \in (Locked \ {"answered"}) \cup {"dropped"} => run'[q] \in (Locked \ {"answered"}) \cup {"dropped"}
        BY <1>19
           DEF EntryFails, setup, store, startup, Fault, Driven, RaiseRun, Forget,
               Nothing, TypeOK, Locked, Working, RollingBack
    <2>2. latest' = latest
        BY <1>19 DEF EntryFails
    <2> QED
        BY <2>1, <2>2 DEF StartedIsLive, RowInv
<1>20. ASSUME NEW r \in Runs, FlushFails(r) PROVE StartedIsLive'
    <2>1. \A q \in Runs : run[q] \in (Locked \ {"answered"}) \cup {"dropped"} => run'[q] \in (Locked \ {"answered"}) \cup {"dropped"}
        BY <1>20
           DEF FlushFails, setup, store, startup, Fault, Fails, IsCognify, TypeOK,
               Locked, Working, RollingBack
    <2>2. latest' = latest
        BY <1>20 DEF FlushFails
    <2> QED
        BY <2>1, <2>2 DEF StartedIsLive, RowInv
<1>21. ASSUME NEW r \in Runs, CancelRun(r) PROVE StartedIsLive'
    <2>1. \A q \in Runs : run[q] \in (Locked \ {"answered"}) \cup {"dropped"} => run'[q] \in (Locked \ {"answered"}) \cup {"dropped"}
        BY <1>21
           DEF CancelRun, setup, store, startup, Going, Fault, Fails, Busy, IsCognify,
               TypeOK, Locked, Working, RollingBack
    <2>2. latest' = latest
        BY <1>21 DEF CancelRun
    <2> QED
        BY <2>1, <2>2 DEF StartedIsLive, RowInv
<1>22. ASSUME NEW r \in Runs, RollbackFails(r) PROVE StartedIsLive'
    <2>1. \A q \in Runs : run[q] \in (Locked \ {"answered"}) \cup {"dropped"} => run'[q] \in (Locked \ {"answered"}) \cup {"dropped"}
        BY <1>22
           DEF RollbackFails, setup, store, startup, RollingBack, Fault, TypeOK, Locked,
               Working
    <2>2. latest' = latest
        BY <1>22 DEF RollbackFails
    <2> QED
        BY <2>1, <2>2 DEF StartedIsLive, RowInv
<1>23. ASSUME NEW r \in Runs, CleanupFails(r) PROVE StartedIsLive'
    <2>1. \A q \in Runs : run[q] \in (Locked \ {"answered"}) \cup {"dropped"} => run'[q] \in (Locked \ {"answered"}) \cup {"dropped"}
        BY <1>23
           DEF CleanupFails, setup, store, startup, RollingBack, Fault, RaiseRun,
               Forget, Nothing, TypeOK, Locked, Working
    <2>2. latest' = latest
        BY <1>23 DEF CleanupFails
    <2> QED
        BY <2>1, <2>2 DEF StartedIsLive, RowInv
<1>24. ASSUME NEW r \in Runs, NEW i \in Items, ItemRaises(r, i) PROVE StartedIsLive'
    <2>1. \A q \in Runs : run[q] \in (Locked \ {"answered"}) \cup {"dropped"} => run'[q] \in (Locked \ {"answered"}) \cup {"dropped"}
        BY <1>24
           DEF ItemRaises, setup, store, startup, Busy, Fault, Fails, TaskTo,
               IsCognify, TypeOK, Locked, Working, RollingBack
    <2>2. latest' = latest
        BY <1>24 DEF ItemRaises
    <2> QED
        BY <2>1, <2>2 DEF StartedIsLive, RowInv
<1>25. ASSUME NEW d \in Datasets, RecoveryLogs(d) PROVE StartedIsLive'
    <2>1. run' = run
        BY <1>25 DEF RecoveryLogs
    <2>2. \A p \in Pipelines, e \in Datasets :
              latest'[p][e] = latest[p][e] \/ latest'[p][e].status = "initiated"
        BY <1>25 DEF RecoveryLogs, TypeOK, Pipelines
    <2> QED
        BY <2>1, <2>2 DEF StartedIsLive
<1>26. ASSUME NEW d \in Datasets, AddResets(d) PROVE StartedIsLive'
    <2>1. run' = run
        BY <1>26 DEF AddResets
    <2>2. \A p \in Pipelines, e \in Datasets :
              latest'[p][e] = latest[p][e] \/ latest'[p][e].status = "initiated"
        BY <1>26 DEF AddResets, TypeOK, Pipelines
    <2> QED
        BY <2>1, <2>2 DEF StartedIsLive
<1>27. ASSUME Crash PROVE StartedIsLive'
    <2>1. \A q \in Runs : run[q] \in (Locked \ {"answered"}) \cup {"dropped"} => run'[q] \in (Locked \ {"answered"}) \cup {"dropped"}
        BY <1>27 DEF Crash, Locked, Working, RollingBack
    <2>2. latest' = latest
        BY <1>27 DEF Crash
    <2> QED
        BY <2>1, <2>2 DEF StartedIsLive, RowInv
<1>28. CASE UNCHANGED <<run, latest>>
    BY <1>28 DEF StartedIsLive, Pipelines, Locked, Working, RollingBack
<1>29. CASE UNCHANGED vars
    BY <1>29, <1>28 DEF vars, setup, store, startup
<1> QED
    BY <1>1, <1>2, <1>3, <1>4, <1>5, <1>6, <1>7, <1>8, <1>9, <1>10, <1>11, <1>12, <1>13,
       <1>14, <1>15, <1>16, <1>17, <1>18, <1>19, <1>20, <1>21, <1>22, <1>23, <1>24,
       <1>25, <1>26, <1>27, <1>29, <1>28 DEF Next, RunStep, RunFails, TaskStep,
       RecoveryStep

-----------------------------------------------------------------------------
LEMMA MarkedIsStoredInit == Init => MarkedIsStored
BY RunsAssumption DEF Init, Nothing, MarkedIsStored

LEMMA MarkedIsStoredStep ==
    TypeOK /\ ReadInv /\ RowInv /\ StaleInv /\ StoredInv /\ MarkedIsStored /\ [Next]_vars => MarkedIsStored'
<1> SUFFICES ASSUME TypeOK, ReadInv, RowInv, StaleInv, StoredInv, MarkedIsStored, [Next]_vars
             PROVE  MarkedIsStored'
    OBVIOUS
<1> USE RunsAssumption
<1>1. ASSUME NEW c \in Calls, BeginCall(c)
      PROVE  UNCHANGED <<graph, marker, torn, late>>
    BY <1>1 DEF BeginCall, store
<1>2. ASSUME NEW r \in Runs, AnswerRun(r) \/ StartRun(r) \/ FinishAnswered(r) \/ EnterContext(r) \/
             GatherErrors(r) \/ GatherResults(r) \/ Complete(r) \/ RollbackReads(r) \/ LogError(r) \/
             LogAndRaise(r) \/ CloseGenerator(r) \/ StartFails(r) \/ EntryFails(r) \/ FlushFails(r) \/
             CancelRun(r) \/ RollbackFails(r) \/ CleanupFails(r)
      PROVE  UNCHANGED <<graph, marker, torn, late>>
    BY <1>2
       DEF AnswerRun, StartRun, FinishAnswered, EnterContext, GatherErrors,
           GatherResults, Complete, RollbackReads, LogError, LogAndRaise,
           CloseGenerator, StartFails, EntryFails, FlushFails, CancelRun, RollbackFails,
           CleanupFails, store
<1>3. ASSUME NEW r \in Runs, NEW i \in Items, BeginItem(r, i) \/ LedgerItem(r, i) \/
             FlushItem(r, i) \/ FinishCustomItem(r, i) \/ ItemRaises(r, i) \/ ItemErrs(r, i)
      PROVE  UNCHANGED <<graph, marker, torn, late>>
    BY <1>3 DEF BeginItem, LedgerItem, FlushItem, FinishCustomItem, ItemRaises, ItemErrs, store
<1>4. ASSUME NEW d \in Datasets, RecoverySkips(d) \/ RecoveryReads(d) \/ RecoveryLogs(d) \/
             RecoveryFails(d) \/ AddResets(d)
      PROVE  UNCHANGED <<graph, marker, torn, late>>
    BY <1>4
       DEF RecoverySkips, RecoveryReads, RecoveryLogs, RecoveryFails, AddResets, store
<1>5. ASSUME Crash \/ Restart \/ RecoveryEnds
      PROVE  UNCHANGED <<graph, marker, torn, late>>
    BY <1>5 DEF Crash, Restart, RecoveryEnds, store
<1>6. ASSUME NEW r \in Runs, RollbackDeletes(r) PROVE MarkedIsStored'
    BY <1>6 DEF RollbackDeletes, DeleteArtifacts, OwnedBy, MarkedIsStored, TypeOK
<1>7. ASSUME NEW r \in Runs, RollbackResets(r) PROVE MarkedIsStored'
    <2>1. UNCHANGED <<graph, late>> /\ torn' = torn \ undo[r].read
          /\ \A i \in Items : marker'[i] = IF i \in undo[r].target THEN NoRun ELSE marker[i]
        BY <1>7 DEF RollbackResets, ResetMarkers
    <2> QED
        BY <2>1 DEF MarkedIsStored, ReadInv
<1>8. ASSUME NEW r \in Runs, NEW i \in Items, StoreItem(r, i) PROVE MarkedIsStored'
    BY <1>8 DEF StoreItem, NoteLate, MarkedIsStored, TypeOK
<1>9. ASSUME NEW r \in Runs, NEW i \in Items, MarkItem(r, i) PROVE MarkedIsStored'
    <2>1. UNCHANGED <<graph, torn>> /\ \A j \in Items : j # i => marker'[j] = marker[j]
        BY <1>9 DEF MarkItem, TypeOK
    <2>2. late \subseteq late' /\ i \in graph \cup torn \cup late'
        BY <1>9 DEF MarkItem, NoteLate, StoredInv
    <2> QED
        BY <2>1, <2>2 DEF MarkedIsStored
<1>10. ASSUME NEW d \in Datasets, RecoveryDeletes(d) PROVE MarkedIsStored'
    BY <1>10 DEF RecoveryDeletes, DeleteArtifacts, OwnedBy, MarkedIsStored, TypeOK
<1>11. ASSUME NEW d \in Datasets, RecoveryResets(d) PROVE MarkedIsStored'
    <2>1. UNCHANGED <<graph, late>> /\ torn' = torn \ undo[StaleRun(d)].read
          /\ \A i \in Items : marker'[i] = IF i \in undo[StaleRun(d)].target THEN NoRun ELSE marker[i]
        BY <1>11 DEF RecoveryResets, ResetMarkers
    <2>2. StaleRun(d) \in Runs
        BY <1>11 DEF RecoveryResets, StaleInv, IsStale, RowInv, StaleRun, Pipelines
    <2> QED
        BY <2>1, <2>2 DEF MarkedIsStored, ReadInv
<1>12. CASE UNCHANGED <<graph, marker, torn, late>>
    BY <1>12 DEF MarkedIsStored
<1>13. CASE UNCHANGED vars
    BY <1>13, <1>12 DEF vars, setup, store, startup
<1> QED
    BY <1>1, <1>2, <1>3, <1>4, <1>5, <1>6, <1>7, <1>8, <1>9, <1>10, <1>11, <1>13, <1>12
       DEF Next, RunStep, RunFails, TaskStep, RecoveryStep

-----------------------------------------------------------------------------
LEMMA CompletedIsMarkedInit == Init => CompletedIsMarked
BY RunsAssumption DEF Init, Pipelines, Nothing, CompletedIsMarked

LEMMA CompletedIsMarkedStep ==
    TypeOK /\ ValidInv /\ RowInv /\ StaleInv /\ ActiveInv /\ RollInv /\ ItemInv /\ DoneInv /\ CompletedIsMarked /\ [Next]_vars => CompletedIsMarked'
<1> SUFFICES ASSUME TypeOK, ValidInv, RowInv, StaleInv, ActiveInv, RollInv, ItemInv, DoneInv, CompletedIsMarked, [Next]_vars
             PROVE  CompletedIsMarked'
    OBVIOUS
<1> USE RunsAssumption
<1>1. ASSUME NEW c \in Calls, BeginCall(c)
      PROVE  UNCHANGED <<marker, latest>>
    BY <1>1 DEF BeginCall, store
<1>2. ASSUME NEW r \in Runs, AnswerRun(r) \/ FinishAnswered(r) \/ EnterContext(r) \/ GatherErrors(r) \/
             GatherResults(r) \/ RollbackReads(r) \/ RollbackDeletes(r) \/ CloseGenerator(r) \/
             StartFails(r) \/ EntryFails(r) \/ FlushFails(r) \/ CancelRun(r) \/ RollbackFails(r) \/
             CleanupFails(r)
      PROVE  UNCHANGED <<marker, latest>>
    BY <1>2
       DEF AnswerRun, FinishAnswered, EnterContext, GatherErrors, GatherResults,
           RollbackReads, RollbackDeletes, CloseGenerator, StartFails, EntryFails,
           FlushFails, CancelRun, RollbackFails, CleanupFails, DeleteArtifacts, store
<1>3. ASSUME NEW r \in Runs, NEW i \in Items, BeginItem(r, i) \/ LedgerItem(r, i) \/ StoreItem(r, i) \/
             FlushItem(r, i) \/ FinishCustomItem(r, i) \/ ItemRaises(r, i) \/ ItemErrs(r, i)
      PROVE  UNCHANGED <<marker, latest>>
    BY <1>3
       DEF BeginItem, LedgerItem, StoreItem, FlushItem, FinishCustomItem, ItemRaises, ItemErrs,
           store
<1>4. ASSUME NEW d \in Datasets, RecoverySkips(d) \/ RecoveryReads(d) \/ RecoveryDeletes(d) \/
             RecoveryFails(d)
      PROVE  UNCHANGED <<marker, latest>>
    BY <1>4
       DEF RecoverySkips, RecoveryReads, RecoveryDeletes, RecoveryFails,
           DeleteArtifacts, store
<1>5. ASSUME Crash \/ Restart \/ RecoveryEnds
      PROVE  UNCHANGED <<marker, latest>>
    BY <1>5 DEF Crash, Restart, RecoveryEnds, store
<1>6. ASSUME NEW r \in Runs, StartRun(r) PROVE CompletedIsMarked'
    <2>1. run[r] = "waiting" /\ LogRow(r, "started") /\ plan' = plan /\ "started" \in Statuses
        BY <1>6 DEF StartRun, Statuses, setup
    <2>2. r[2] <= Len(Request(r).sets)
        BY <2>1 DEF ValidInv
    <2>3. \A q \in Runs : Request(q)' = Request(q) /\ DatasetOf(q)' = DatasetOf(q)
        BY <2>1 DEF Request, DatasetOf
    <2>4. \A d \in Datasets : \/ latest'["cognify"][d] = latest["cognify"][d]
                             \/ latest'["cognify"][d].status = "started"
        <3>1. \A p \in Pipelines, d \in Datasets :
                  \/ latest'[p][d] = latest[p][d]
                  \/ latest'[p][d] = [run |-> r, status |-> "started"]
            BY <2>1, <2>2, NewRow
        <3> QED
            BY <3>1 DEF Pipelines
    <2>5. marker' = marker
        BY <1>6 DEF StartRun, store
    <2> QED
        BY <2>4, <2>5, CompletedKept
<1>7. ASSUME NEW r \in Runs, Complete(r) PROVE CompletedIsMarked'
    <2>1. run[r] = "flushing" /\ LogRow(r, "completed") /\ plan' = plan /\ "completed" \in Statuses
        BY <1>7 DEF Complete, Statuses, setup
    <2>2. r[2] <= Len(Request(r).sets)
        BY <2>1 DEF ValidInv
    <2>3. \A q \in Runs : Request(q)' = Request(q) /\ DatasetOf(q)' = DatasetOf(q)
        BY <2>1 DEF Request, DatasetOf
    <2>4. marker' = marker
        BY <1>7 DEF Complete, store
    <2>5. \A d \in Datasets :
              \/ latest'["cognify"][d] = latest["cognify"][d]
              \/ IsCognify(r) /\ d = DatasetOf(r)
        <3>1. \A p \in Pipelines, d \in Datasets :
                  p # Request(r).pipeline \/ d # DatasetOf(r) => latest'[p][d] = latest[p][d]
            BY <2>1, <2>2, NewRow
        <3> QED
            BY <3>1 DEF Pipelines, IsCognify
    <2>6. IsCognify(r) => \A i \in ItemsIn(r) : marker[i] # NoRun
        BY <2>1 DEF DoneInv, DoneOf
    <2> QED
        BY <2>4, <2>5, <2>6 DEF CompletedIsMarked, ItemsIn
<1>8. ASSUME NEW r \in Runs, RollbackResets(r) PROVE CompletedIsMarked'
    <2>1. r \in Runs /\ run[r] = "resetting" /\ DatasetOf(r) \in Datasets
        BY <1>8, RequestFacts DEF RollbackResets, ValidInv
    <2>2. IsCognify(r) /\ latest["cognify"][DatasetOf(r)].status # "completed"
        <3>1. IsCognify(r)
            BY <2>1 DEF RollInv, RollingBack
        <3>2. LatestOf(r).status # "completed"
            BY <2>1 DEF ActiveInv, Locked, RollingBack
        <3> QED
            BY <3>1, <3>2 DEF LatestOf, IsCognify
    <2>3. latest' = latest /\ \A i \in Items \ ItemsIn(r) : marker'[i] = marker[i]
        BY <1>8, <2>1 DEF RollbackResets, ResetMarkers, ItemInv
    <2>4. \A e \in Datasets : latest["cognify"][e].status = "completed"
                             => e # DatasetOf(r)
        BY <2>2
    <2>5. \A e \in Datasets : e # DatasetOf(r) => ItemsOf[e] \subseteq Items /\ ItemsOf[e] \cap ItemsIn(r) = {}
        BY <2>1, RunsAssumption DEF ItemsIn
    <2> QED
        BY <2>3, <2>4, <2>5 DEF CompletedIsMarked
<1>9. ASSUME NEW r \in Runs, LogError(r) PROVE CompletedIsMarked'
    <2>1. run[r] = "erring" /\ LogRow(r, "errored") /\ plan' = plan /\ "errored" \in Statuses
        BY <1>9 DEF LogError, Statuses, setup
    <2>2. r[2] <= Len(Request(r).sets)
        BY <2>1 DEF ValidInv
    <2>3. \A q \in Runs : Request(q)' = Request(q) /\ DatasetOf(q)' = DatasetOf(q)
        BY <2>1 DEF Request, DatasetOf
    <2>4. \A d \in Datasets : \/ latest'["cognify"][d] = latest["cognify"][d]
                             \/ latest'["cognify"][d].status = "errored"
        <3>1. \A p \in Pipelines, d \in Datasets :
                  \/ latest'[p][d] = latest[p][d]
                  \/ latest'[p][d] = [run |-> r, status |-> "errored"]
            BY <2>1, <2>2, NewRow
        <3> QED
            BY <3>1 DEF Pipelines
    <2>5. marker' = marker
        BY <1>9 DEF LogError, store
    <2> QED
        BY <2>4, <2>5, CompletedKept
<1>10. ASSUME NEW r \in Runs, LogAndRaise(r) PROVE CompletedIsMarked'
    <2>1. run[r] = "erring" /\ LogRow(r, "errored") /\ plan' = plan /\ "errored" \in Statuses
        BY <1>10 DEF LogAndRaise, Statuses, setup
    <2>2. r[2] <= Len(Request(r).sets)
        BY <2>1 DEF ValidInv
    <2>3. \A q \in Runs : Request(q)' = Request(q) /\ DatasetOf(q)' = DatasetOf(q)
        BY <2>1 DEF Request, DatasetOf
    <2>4. \A d \in Datasets : \/ latest'["cognify"][d] = latest["cognify"][d]
                             \/ latest'["cognify"][d].status = "errored"
        <3>1. \A p \in Pipelines, d \in Datasets :
                  \/ latest'[p][d] = latest[p][d]
                  \/ latest'[p][d] = [run |-> r, status |-> "errored"]
            BY <2>1, <2>2, NewRow
        <3> QED
            BY <3>1 DEF Pipelines
    <2>5. marker' = marker
        BY <1>10 DEF LogAndRaise, store
    <2> QED
        BY <2>4, <2>5, CompletedKept
<1>11. ASSUME NEW r \in Runs, NEW i \in Items, MarkItem(r, i) PROVE CompletedIsMarked'
    <2>1. latest' = latest
        BY <1>11 DEF MarkItem
    <2>2. \A j \in Items : marker[j] # NoRun => marker'[j] # NoRun
        BY <1>11, RunsAssumption DEF MarkItem, TypeOK
    <2> QED
        BY <2>1, <2>2, CompletedKept
<1>12. ASSUME NEW d \in Datasets, RecoveryResets(d) PROVE CompletedIsMarked'
    <2>0. latest["cognify"][d].status = "started"
        BY <1>12 DEF RecoveryResets, StaleInv, IsStale
    <2>1. StaleRun(d) \in Runs /\ DatasetOf(StaleRun(d)) = d
        BY <2>0 DEF RowInv, StaleRun, Pipelines
    <2>2. latest["cognify"][DatasetOf(StaleRun(d))].status # "completed"
        BY <2>0, <2>1
    <2>3. latest' = latest /\ \A i \in Items \ ItemsIn(StaleRun(d)) : marker'[i] = marker[i]
        BY <1>12, <2>1 DEF RecoveryResets, ResetMarkers, ItemInv
    <2>4. \A e \in Datasets : latest["cognify"][e].status = "completed"
                             => e # DatasetOf(StaleRun(d))
        BY <2>2
    <2>5. \A e \in Datasets : e # DatasetOf(StaleRun(d)) => ItemsOf[e] \subseteq Items /\ ItemsOf[e] \cap ItemsIn(StaleRun(d)) = {}
        BY <2>1, RunsAssumption DEF ItemsIn
    <2> QED
        BY <2>3, <2>4, <2>5 DEF CompletedIsMarked
<1>13. ASSUME NEW d \in Datasets, RecoveryLogs(d) PROVE CompletedIsMarked'
    <2>1. marker' = marker
        BY <1>13 DEF RecoveryLogs, store
    <2>2. \A e \in Datasets : \/ latest'["cognify"][e] = latest["cognify"][e]
                             \/ latest'["cognify"][e].status = "initiated"
        BY <1>13 DEF RecoveryLogs, TypeOK, Pipelines
    <2> QED
        BY <2>1, <2>2, CompletedKept
<1>14. ASSUME NEW d \in Datasets, AddResets(d) PROVE CompletedIsMarked'
    <2>1. marker' = marker
        BY <1>14 DEF AddResets, store
    <2>2. \A e \in Datasets : \/ latest'["cognify"][e] = latest["cognify"][e]
                             \/ latest'["cognify"][e].status = "initiated"
        BY <1>14 DEF AddResets, TypeOK, Pipelines
    <2> QED
        BY <2>1, <2>2, CompletedKept
<1>15. CASE UNCHANGED <<marker, latest>>
    BY <1>15 DEF CompletedIsMarked
<1>16. CASE UNCHANGED vars
    BY <1>16, <1>15 DEF vars, setup, store, startup
<1> QED
    BY <1>1, <1>2, <1>3, <1>4, <1>5, <1>6, <1>7, <1>8, <1>9, <1>10, <1>11, <1>12, <1>13,
       <1>14, <1>16, <1>15 DEF Next, RunStep, RunFails, TaskStep, RecoveryStep

-----------------------------------------------------------------------------
(* The inductive invariant. *)
RunsInv ==
    /\ TypeOK
    /\ ValidInv
    /\ IdleInv
    /\ OrderInv
    /\ LockInv
    /\ ProcessInv
    /\ RowInv
    /\ StaleInv
    /\ ActiveInv
    /\ RollInv
    /\ ItemInv
    /\ DoneInv
    /\ FreshInv
    /\ ReadInv
    /\ StoredInv
    /\ SweepInv
    /\ ArtifactsAreOwned
    /\ TornIsInLedger
    /\ KeepInv

LEMMA RunsInvariant == Spec => []RunsInv
<1>1. Init => RunsInv
    BY TypeOKInit, ValidInvInit, IdleInvInit, OrderInvInit, LockInvInit, ProcessInvInit,
       RowInvInit, StaleInvInit, ActiveInvInit, RollInvInit, ItemInvInit, DoneInvInit,
       FreshInvInit, ReadInvInit, StoredInvInit, SweepInvInit, ArtifactsAreOwnedInit,
       TornIsInLedgerInit, KeepInvInit DEF RunsInv
<1>2. RunsInv /\ [Next]_vars => RunsInv'
    <2> SUFFICES ASSUME RunsInv, [Next]_vars PROVE RunsInv'
        OBVIOUS
    <2> USE DEF RunsInv
    <2>1. TypeOK'
        BY TypeOKStep
    <2>2. ValidInv'
        BY ValidInvStep
    <2>3. IdleInv'
        BY IdleInvStep
    <2>4. OrderInv'
        BY OrderInvStep
    <2>5. LockInv'
        BY LockInvStep
    <2>6. ProcessInv'
        BY ProcessInvStep
    <2>7. RowInv'
        BY RowInvStep
    <2>8. StaleInv'
        BY StaleInvStep
    <2>9. ActiveInv'
        BY ActiveInvStep
    <2>10. RollInv'
        BY RollInvStep
    <2>11. ItemInv'
        BY ItemInvStep
    <2>12. DoneInv'
        BY DoneInvStep
    <2>13. FreshInv'
        BY FreshInvStep
    <2>14. ReadInv'
        BY ReadInvStep
    <2>15. StoredInv'
        BY StoredInvStep
    <2>16. SweepInv'
        BY SweepInvStep
    <2>17. ArtifactsAreOwned'
        BY ArtifactsAreOwnedStep
    <2>18. TornIsInLedger'
        BY TornIsInLedgerStep
    <2>19. KeepInv'
        BY KeepInvStep
    <2> QED
        BY <2>1, <2>2, <2>3, <2>4, <2>5, <2>6, <2>7, <2>8, <2>9, <2>10, <2>11, <2>12,
           <2>13, <2>14, <2>15, <2>16, <2>17, <2>18, <2>19
<1> QED
    BY <1>1, <1>2, PTL DEF Spec

(* The variables keep their types, whatever fails, is cancelled or crashes. *)
THEOREM TypeCorrect == Spec => []TypeOK
<1>1. RunsInv => TypeOK
    BY DEF RunsInv
<1> QED
    BY <1>1, RunsInvariant, PTL

(* What the items of a run leave in the graph has an owner that a rollback    *)
(* can find, unless the item outlived its run (add_data_points.py).           *)
THEOREM StoredIsOwned == Spec => []ArtifactsAreOwned
<1>1. RunsInv => ArtifactsAreOwned
    BY DEF RunsInv
<1> QED
    BY <1>1, RunsInvariant, PTL

(* What a rollback has deleted and not yet unmarked can be found again by     *)
(* another one where the ledger keeps the provenance (rollback.py).           *)
THEOREM TornIsFound == Spec => []TornIsInLedger
<1>1. RunsInv => TornIsInLedger
    BY DEF RunsInv
<1> QED
    BY <1>1, RunsInvariant, PTL

(* A row that says a dataset is being processed is about a run that holds its *)
(* lock, or one that was lost (run_tasks.py).                                 *)
THEOREM StartedAreLive == Spec => []StartedIsLive
<1>1. RunsInv /\ StartedIsLive /\ [Next]_vars => StartedIsLive'
    BY StartedIsLiveStep DEF RunsInv
<1> QED
    BY <1>1, StartedIsLiveInit, RunsInvariant, PTL DEF Spec

(* A marker stands for artifacts, but for torn rollbacks and late tasks       *)
(* (run_tasks_data_item.py, rollback.py).                                     *)
THEOREM MarkedAreStored == Spec => []MarkedIsStored
<1>1. RunsInv /\ MarkedIsStored /\ [Next]_vars => MarkedIsStored'
    BY MarkedIsStoredStep DEF RunsInv
<1> QED
    BY <1>1, MarkedIsStoredInit, RunsInvariant, PTL DEF Spec

(* A completed row is about items that are all marked, whatever is rolled     *)
(* back or recovered later (run_tasks.py, recovery.py).                       *)
THEOREM CompletedAreMarked == Spec => []CompletedIsMarked
<1>1. RunsInv /\ CompletedIsMarked /\ [Next]_vars => CompletedIsMarked'
    BY CompletedIsMarkedStep DEF RunsInv
<1> QED
    BY <1>1, CompletedIsMarkedInit, RunsInvariant, PTL DEF Spec

(* A step that takes a marker away is the reset of the run that set it. *)
LEMMA MarkerTaken ==
    ASSUME RunsInv, [Next]_vars, NEW i \in Items \ late, marker[i] # NoRun, marker'[i] = NoRun
    PROVE  \/ run[marker[i]] = "resetting"
           \/ \E d \in Datasets : recovery = <<"reset", d>> /\ StaleRun(d) = marker[i]
<1> USE RunsAssumption
<1> DEFINE Taken == \/ run[marker[i]] = "resetting"
                   \/ \E d \in Datasets : recovery = <<"reset", d>> /\ StaleRun(d) = marker[i]
<1>1. ASSUME NEW c \in Calls, BeginCall(c)
      PROVE  marker' = marker
    BY <1>1 DEF BeginCall, store
<1>2. ASSUME NEW r \in Runs, AnswerRun(r) \/ StartRun(r) \/ FinishAnswered(r) \/ EnterContext(r) \/
             GatherErrors(r) \/ GatherResults(r) \/ Complete(r) \/ RollbackReads(r) \/
             RollbackDeletes(r) \/ LogError(r) \/ LogAndRaise(r) \/ CloseGenerator(r) \/ StartFails(r)
             \/ EntryFails(r) \/ FlushFails(r) \/ CancelRun(r) \/ RollbackFails(r) \/ CleanupFails(r)
      PROVE  marker' = marker
    BY <1>2
       DEF AnswerRun, StartRun, FinishAnswered, EnterContext, GatherErrors,
           GatherResults, Complete, RollbackReads, RollbackDeletes, LogError,
           LogAndRaise, CloseGenerator, StartFails, EntryFails, FlushFails, CancelRun,
           RollbackFails, CleanupFails, DeleteArtifacts, store
<1>3. ASSUME NEW r \in Runs, NEW j \in Items, BeginItem(r, j) \/ LedgerItem(r, j) \/ StoreItem(r, j) \/
             FlushItem(r, j) \/ FinishCustomItem(r, j) \/ ItemRaises(r, j) \/ ItemErrs(r, j)
      PROVE  marker' = marker
    BY <1>3
       DEF BeginItem, LedgerItem, StoreItem, FlushItem, FinishCustomItem, ItemRaises, ItemErrs,
           store
<1>4. ASSUME NEW d \in Datasets, RecoverySkips(d) \/ RecoveryReads(d) \/ RecoveryDeletes(d) \/
             RecoveryLogs(d) \/ RecoveryFails(d) \/ AddResets(d)
      PROVE  marker' = marker
    BY <1>4
       DEF RecoverySkips, RecoveryReads, RecoveryDeletes, RecoveryLogs, RecoveryFails,
           AddResets, DeleteArtifacts, store
<1>5. ASSUME Crash \/ Restart \/ RecoveryEnds
      PROVE  marker' = marker
    BY <1>5 DEF Crash, Restart, RecoveryEnds, store
<1>6. ASSUME NEW r \in Runs, NEW j \in Items, MarkItem(r, j) PROVE Taken
    <2>1. marker'[i] = marker[i] \/ marker'[i] = r
        BY <1>6 DEF MarkItem, RunsInv, TypeOK
    <2> QED
        BY <2>1
<1>7. ASSUME NEW r \in Runs, RollbackResets(r) PROVE Taken
    <2>1. i \in undo[r].target /\ run[r] = "resetting"
        BY <1>7 DEF RollbackResets, ResetMarkers
    <2>2. IsCognify(r) /\ Active(r) /\ Touched(r, i)
        BY <2>1 DEF RunsInv, RollInv, Active, Touched, Locked, RollingBack
    <2> QED
        BY <2>1, <2>2 DEF RunsInv, KeepInv
<1>8. ASSUME NEW d \in Datasets, RecoveryResets(d) PROVE Taken
    <2>1. i \in undo[StaleRun(d)].target /\ recovery = <<"reset", d>>
        BY <1>8 DEF RecoveryResets, ResetMarkers
    <2>2. StaleRun(d) \in Runs /\ IsCognify(StaleRun(d)) /\ run[StaleRun(d)] # "none" /\ DatasetOf(StaleRun(d)) = d
        BY <2>1, RecoveryFacts DEF RunsInv
    <2>3. Active(StaleRun(d)) /\ Touched(StaleRun(d), i)
        <3>1. latest["cognify"][d].status = "started" /\ LatestOf(StaleRun(d)) = latest["cognify"][d]
            BY <2>1, <2>2 DEF RunsInv, StaleInv, IsStale, LatestOf, IsCognify
        <3>2. latest["cognify"][d] = [run |-> StaleRun(d), status |-> "started"]
            BY <3>1 DEF RunsInv, TypeOK, Pipelines, StaleRun
        <3> QED
            BY <2>1, <3>1, <3>2 DEF Active, Touched
    <2> QED
        BY <2>1, <2>2, <2>3 DEF RunsInv, KeepInv
<1>9. CASE UNCHANGED vars
    BY <1>9 DEF vars, store
<1> QED
    BY <1>1, <1>2, <1>3, <1>4, <1>5, <1>6, <1>7, <1>8, <1>9
       DEF Next, RunStep, RunFails, TaskStep, RecoveryStep

(* A rollback takes away the markers of its own run only, but for items that  *)
(* several runs worked on at once (rollback.py).                              *)
THEOREM MarkersKept == Spec => OthersKeepTheirMarkers
<1>1. RunsInv /\ [Next]_vars => [\A i \in Items \ late :
           marker[i] # NoRun /\ marker'[i] = NoRun =>
               \/ run[marker[i]] = "resetting"
               \/ \E d \in Datasets : recovery = <<"reset", d>> /\ StaleRun(d) = marker[i]]_vars
    BY MarkerTaken
<1> QED
    BY <1>1, RunsInvariant, PTL DEF Spec, OthersKeepTheirMarkers

-----------------------------------------------------------------------------
(* Where a call stands, and where its runs are.                              *)

Suspended == {"answered", "started"}
Moving == Working \cup RollingBack \cup {"erring"}
Under == Locked \cup {"waiting"}

(* A call that starts its runs is suspended in all but the one that waits; a *)
(* call that drives is past the runs before the one it is at.                *)
Starts(c) ==
    /\ plan[c].background /\ at[c] = 1
    /\ \E k \in 1..Len(plan[c].sets) :
           /\ run[<<c, k>>] = "waiting"
           /\ \A j \in 1..MaxSets : j < k => run[<<c, j>>] \in Suspended

Drives(c) ==
    /\ at[c] \in 1..Len(plan[c].sets)
    /\ run[<<c, at[c]>>] \in Under
    /\ \A j \in 1..MaxSets : j < at[c] => run[<<c, j>>] \notin Under
    /\ plan[c].background =>
           /\ run[<<c, at[c]>>] # "waiting"
           /\ \A j \in 1..Len(plan[c].sets) : at[c] < j => run[<<c, j>>] \in Suspended

InCall(c, k) ==
    /\ run[<<c, k>>] \in Moving => call[c] = "driving" /\ at[c] = k
    /\ run[<<c, k>>] = "waiting" => call[c] \in {"starting", "driving"}
    /\ run[<<c, k>>] \in Suspended => call[c] \in {"starting", "driving", "failed"}

CallIs(c) ==
    /\ call[c] = "idle" => at[c] = 1
    /\ call[c] = "starting" => Starts(c)
    /\ call[c] = "driving" => Drives(c)
    /\ \A k \in 1..MaxSets : InCall(c, k)

CallInv == \A c \in Calls : CallIs(c)

LEMMA PlaceFacts ==
    /\ Locked = Suspended \cup Moving
    /\ Suspended \cap (Moving \cup {"waiting", "none", "ended", "dropped"}) = {}
    /\ Moving \cap {"waiting", "none", "ended", "dropped"} = {}
    /\ Under \subseteq RunPcs /\ {"none", "ended", "dropped"} \cap Under = {}
BY DEF Locked, Suspended, Moving, Working, RollingBack, Under, RunPcs

LEMMA CallFacts ==
    ASSUME TypeOK, NEW c \in Calls
    PROVE  /\ Len(plan[c].sets) \in 1..MaxSets /\ MaxSets \in Nat
           /\ plan[c].background \in BOOLEAN
           /\ \A k \in 1..MaxSets : /\ <<c, k>> \in Runs /\ Request(<<c, k>>) = plan[c]
                                    /\ <<c, k>>[1] = c /\ <<c, k>>[2] = k
           /\ \A r \in Runs : r = <<r[1], r[2]>> /\ r[1] \in Calls /\ r[2] \in 1..MaxSets
<1>1. \A k \in 1..MaxSets : /\ <<c, k>> \in Runs /\ Request(<<c, k>>) = plan[c]
                            /\ <<c, k>>[1] = c /\ <<c, k>>[2] = k
    BY DEF Runs, Request
<1>2. MaxSets \in Nat \ {0} /\ 1 \in 1..MaxSets
    BY RunsAssumption
<1> QED
    BY <1>1, <1>2, RequestFacts DEF Runs

(* What the order of its runs says about a call.                             *)
LEMMA CallOrder ==
    ASSUME TypeOK, ValidInv, OrderInv, CallInv,
           NEW c \in Calls, NEW k \in 1..MaxSets
    PROVE  /\ run[<<c, k>>] # "none" => k <= Len(plan[c].sets)
           /\ run[<<c, k>>] = "waiting" =>
                  \/ /\ plan[c].background /\ Starts(c) /\ call[c] = "starting"
                     /\ \A j \in 1..MaxSets : j < k => run[<<c, j>>] \in Suspended
                     /\ \A j \in 1..MaxSets : k < j => run[<<c, j>>] = "none"
                  \/ ~plan[c].background /\ call[c] = "driving" /\ at[c] = k
           /\ call[c] = "driving" /\ at[c] = k =>
                  \A j \in 1..MaxSets : j # k => run[<<c, j>>] \notin Moving \cup {"waiting"}
           /\ call[c] = "driving" /\ at[c] = k /\ ~plan[c].background =>
                  \A j \in 1..MaxSets : j # k => run[<<c, j>>] \notin Under
<1> USE CallFacts, PlaceFacts
<1>1. \A j \in 1..MaxSets : run[<<c, j>>] # "none" => j <= Len(plan[c].sets)
    BY DEF ValidInv
<1>2. \A i, j \in 1..MaxSets : i < j /\ Open(<<c, i>>) => run[<<c, j>>] = "none"
    BY DEF OrderInv
<1>3. \A j \in 1..MaxSets : /\ run[<<c, j>>] = "waiting" => Open(<<c, j>>)
                            /\ run[<<c, j>>] \in Under /\ ~plan[c].background => Open(<<c, j>>)
    BY DEF Open
<1>4. ASSUME call[c] = "driving" /\ at[c] = k, NEW j \in 1..MaxSets, j # k
      PROVE  /\ run[<<c, j>>] \notin Moving \cup {"waiting"}
             /\ ~plan[c].background => run[<<c, j>>] \notin Under
    <2>1. Drives(c) /\ InCall(c, j)
        BY <1>4 DEF CallInv, CallIs
    <2>2. CASE j < k
        BY <1>4, <2>1, <2>2 DEF Drives, Under
    <2>3. CASE k < j
        <3>1. CASE plan[c].background
            BY <1>1, <1>4, <2>1, <2>3, <3>1 DEF Drives
        <3>2. CASE ~plan[c].background
            BY <1>2, <1>3, <1>4, <2>1, <2>3, <3>2 DEF Drives
        <3> QED BY <3>1, <3>2
    <2> QED BY <1>4, <2>2, <2>3
<1>5. ASSUME run[<<c, k>>] = "waiting", plan[c].background
      PROVE  /\ Starts(c) /\ call[c] = "starting"
             /\ \A j \in 1..MaxSets : j < k => run[<<c, j>>] \in Suspended
             /\ \A j \in 1..MaxSets : k < j => run[<<c, j>>] = "none"
    <2>1. call[c] \in {"starting", "driving"}
        BY <1>5 DEF CallInv, CallIs, InCall
    <2>2. call[c] # "driving"
        <3> SUFFICES ASSUME call[c] = "driving" PROVE FALSE
            OBVIOUS
        <3>1. Drives(c)
            BY DEF CallInv, CallIs
        <3> QED BY <1>1, <1>5, <3>1 DEF Drives, Under
    <2>3. Starts(c)
        BY <2>1, <2>2 DEF CallInv, CallIs
    <2>4. PICK i \in 1..Len(plan[c].sets) :
              /\ run[<<c, i>>] = "waiting"
              /\ \A j \in 1..MaxSets : j < i => run[<<c, j>>] \in Suspended
        BY <2>3 DEF Starts
    <2>5. i \in 1..MaxSets
        OBVIOUS
    <2>6. i = k
        BY <1>2, <1>3, <1>5, <2>4, <2>5
    <2> QED BY <1>2, <1>3, <1>5, <2>1, <2>2, <2>3, <2>4, <2>6
<1>6. ASSUME run[<<c, k>>] = "waiting", ~plan[c].background
      PROVE  call[c] = "driving" /\ at[c] = k
    <2>1. call[c] \in {"starting", "driving"}
        BY <1>6 DEF CallInv, CallIs, InCall
    <2>2. call[c] = "driving"
        BY <1>6, <2>1 DEF CallInv, CallIs, Starts
    <2>3. Drives(c) /\ at[c] \in 1..MaxSets
        BY <2>2 DEF CallInv, CallIs, Drives
    <2>4. CASE k < at[c]
        BY <1>6, <2>3, <2>4 DEF Drives, Under
    <2>5. CASE at[c] < k
        BY <1>2, <1>3, <1>6, <2>3, <2>5 DEF Drives
    <2> QED BY <2>2, <2>3, <2>4, <2>5
<1> QED BY <1>1, <1>4, <1>5, <1>6


(* A step leaves the calls whose runs it does not touch where they are.      *)
LEMMA CallStill ==
    ASSUME CallInv, plan' = plan, NEW c \in Calls,
           call'[c] = call[c], at'[c] = at[c],
           \A k \in 1..MaxSets : run'[<<c, k>>] = run[<<c, k>>],
           Len(plan[c].sets) \in 1..MaxSets
    PROVE  CallIs(c)'
<1>1. CallIs(c) /\ 1..Len(plan[c].sets) \subseteq 1..MaxSets
    BY RunsAssumption DEF CallInv
<1>2. Starts(c) => Starts(c)'
    BY <1>1 DEF Starts
<1>3. Drives(c) => Drives(c)'
    BY <1>1 DEF Drives
<1>4. \A k \in 1..MaxSets : InCall(c, k) => InCall(c, k)'
    BY DEF InCall
<1> QED
    BY <1>1, <1>2, <1>3, <1>4 DEF CallIs

(* A step of a run leaves the other calls where they are.                    *)
LEMMA OthersAtHome ==
    ASSUME TypeOK, CallInv, plan' = plan, NEW r \in Runs,
           \A c \in Calls, k \in 1..MaxSets : r = <<c, k>> => CallIs(c)',
           \A q \in Runs : q[1] # r[1] => run'[q] = run[q],
           \A b \in Calls : b # r[1] => call'[b] = call[b] /\ at'[b] = at[b]
    PROVE  CallInv'
<1> SUFFICES ASSUME NEW b \in Calls PROVE CallIs(b)'
    BY DEF CallInv
<1>1. CASE b = r[1]
    <2>1. r[2] \in 1..MaxSets /\ r = <<b, r[2]>>
        BY <1>1, CallFacts
    <2> QED BY <2>1
<1>2. CASE b # r[1]
    <2>1. \A k \in 1..MaxSets : <<b, k>> \in Runs /\ <<b, k>>[1] = b
        BY CallFacts
    <2>2. \A k \in 1..MaxSets : run'[<<b, k>>] = run[<<b, k>>]
        BY <1>2, <2>1
    <2>3. Len(plan[b].sets) \in 1..MaxSets
        BY CallFacts
    <2> QED BY <1>2, <2>2, <2>3, CallStill
<1> QED
    BY <1>1, <1>2

(* The run that is driven goes on.                                           *)
LEMMA MovesOn ==
    ASSUME TypeOK, CallInv, NEW r \in Runs, Driven(r) \/ run[r] \in Moving,
           UNCHANGED <<plan, call, at>>, run'[r] \in Moving,
           \A q \in Runs : q # r => run'[q] = run[q]
    PROVE  CallInv'
<1> SUFFICES ASSUME NEW c \in Calls, NEW k \in 1..MaxSets, r = <<c, k>>
             PROVE  CallIs(c)'
    <2>1. \A q \in Runs : q[1] # r[1] => run'[q] = run[q]
        BY CallFacts
    <2>2. \A b \in Calls : b # r[1] => call'[b] = call[b] /\ at'[b] = at[b]
        BY CallFacts DEF TypeOK
    <2> QED BY <2>1, <2>2, OthersAtHome
<1> USE CallFacts, PlaceFacts
<1>1. c \in Calls /\ k \in 1..MaxSets /\ r = <<c, k>> /\ CallIs(c)
    BY DEF CallInv
<1>2. call[c] = "driving" /\ at[c] = k
    BY <1>1 DEF Driven, CallIs, InCall
<1>3. \A j \in 1..MaxSets : j # k => run'[<<c, j>>] = run[<<c, j>>]
    BY <1>1
<1>4. Drives(c)'
    BY <1>1, <1>2, <1>3 DEF CallIs, Drives, Under
<1>5. \A j \in 1..MaxSets : InCall(c, j)'
    BY <1>1, <1>2, <1>3 DEF CallIs, InCall
<1> QED
    BY <1>2, <1>4, <1>5 DEF CallIs

(* A generator answers for the first time.                                   *)
LEMMA AnswersFirst ==
    ASSUME TypeOK, ValidInv, OrderInv, CallInv, NEW r \in Runs, NEW pc \in Suspended,
           run[r] = "waiting", FirstAnswer(r, pc), plan' = plan
    PROVE  CallInv'
<1> SUFFICES ASSUME NEW c \in Calls, NEW k \in 1..MaxSets, r = <<c, k>>
             PROVE  CallIs(c)'
    <2>1. \A q \in Runs : q[1] # r[1] => run'[q] = run[q]
        BY CallFacts DEF FirstAnswer, NextOf
    <2>2. \A b \in Calls : b # r[1] => call'[b] = call[b] /\ at'[b] = at[b]
        BY CallFacts DEF FirstAnswer, TypeOK
    <2> QED BY <2>1, <2>2, OthersAtHome
<1> DEFINE N == Len(plan[c].sets)
<1> USE CallFacts, PlaceFacts
<1>1. c \in Calls /\ k \in 1..MaxSets /\ r = <<c, k>> /\ CallIs(c) /\ Request(r) = plan[c]
    BY DEF CallInv
<1>2. /\ run'[r] = pc
      /\ \A q \in Runs : q # r => \/ run'[q] = run[q]
                                 \/ /\ run'[q] = "waiting" /\ plan[c].background
                                    /\ q[1] = c /\ q[2] = k + 1 /\ k < N
    BY <1>1, FirstAnswerRuns DEF RunPcs, Locked, Suspended, NotLast
<1>3. /\ \A j \in 1..MaxSets : j \notin {k, k + 1} => run'[<<c, j>>] = run[<<c, j>>]
      /\ k + 1 \in 1..MaxSets =>
             \/ run'[<<c, k + 1>>] = run[<<c, k + 1>>]
             \/ run'[<<c, k + 1>>] = "waiting" /\ plan[c].background /\ k < N
      /\ k <= N
    BY <1>1, <1>2, CallOrder
<1>4. /\ call'[c] = IF plan[c].background /\ k < N THEN call[c] ELSE "driving"
      /\ at' = at
    BY <1>1 DEF FirstAnswer, NotLast, TypeOK
<1>5. CASE plan[c].background
    <2>1. /\ call[c] = "starting" /\ at[c] = 1
          /\ \A j \in 1..MaxSets : j < k => run[<<c, j>>] \in Suspended
          /\ \A j \in 1..MaxSets : k < j => run[<<c, j>>] = "none"
        BY <1>1, <1>5, CallOrder DEF Starts
    <2>2. \A j \in 1..MaxSets : j <= k => run'[<<c, j>>] \in Suspended
        BY <1>1, <1>2, <1>3, <2>1
    <2>3. CASE k < N
        <3>1. run'[<<c, k + 1>>] = "waiting" /\ k + 1 \in 1..N
            <4>1. k + 1 \in 1..MaxSets /\ NextOf(r) = <<c, k + 1>>
                BY <1>1, <2>3 DEF NextOf
            <4>2. <<c, k + 1>> # r
                BY <1>1
            <4> QED BY <1>1, <1>5, <2>3, <4>1, <4>2 DEF FirstAnswer, NotLast
        <3>2. call'[c] = "starting"
            BY <1>1, <1>4, <1>5, <2>1, <2>3 DEF TypeOK
        <3>3. Starts(c)'
            BY <1>1, <1>4, <1>5, <2>1, <2>2, <3>1 DEF Starts
        <3>4. \A j \in 1..MaxSets : k + 1 < j => run'[<<c, j>>] = "none"
            BY <1>1, <1>3, <2>1
        <3>5. \A j \in 1..MaxSets : InCall(c, j)'
            BY <1>1, <2>2, <3>1, <3>2, <3>4 DEF InCall
        <3> QED BY <1>1, <1>2, <1>4, <3>2, <3>3, <3>5 DEF CallIs
    <2>4. CASE ~(k < N)
        <3>1. call'[c] = "driving" /\ at'[c] = 1
            BY <1>1, <1>4, <2>1, <2>4 DEF TypeOK
        <3>2. \A j \in 1..MaxSets : k < j => run'[<<c, j>>] = "none"
            BY <1>1, <1>3, <2>1, <2>4
        <3>3. k = N
            BY <1>1, <1>3, <2>4
        <3>4. Drives(c)'
            BY <1>1, <2>2, <3>1, <3>3 DEF Drives, Under
        <3>5. \A j \in 1..MaxSets : InCall(c, j)'
            BY <1>1, <2>2, <3>1, <3>2 DEF InCall
        <3> QED BY <1>1, <1>2, <1>4, <3>1, <3>4, <3>5 DEF CallIs
    <2> QED BY <2>3, <2>4
<1>6. CASE ~plan[c].background
    <2>1. /\ call[c] = "driving" /\ at[c] = k
          /\ \A j \in 1..MaxSets : j # k => run[<<c, j>>] \notin Under
        BY <1>1, <1>6, CallOrder
    <2>2. \A j \in 1..MaxSets : j # k => run'[<<c, j>>] = run[<<c, j>>]
        BY <1>1, <1>2, <1>6
    <2>3. call'[c] = "driving" /\ at'[c] = k
        BY <1>1, <1>4, <1>6, <2>1 DEF TypeOK
    <2>4. Drives(c)'
        BY <1>1, <1>2, <1>3, <1>6, <2>1, <2>2, <2>3 DEF Drives, Under
    <2>5. \A j \in 1..MaxSets : InCall(c, j)'
        BY <1>1, <1>2, <2>1, <2>2, <2>3 DEF InCall, Under
    <2> QED BY <1>1, <1>2, <1>4, <1>6, <2>3, <2>4, <2>5 DEF CallIs
<1> QED BY <1>1, <1>5, <1>6

(* The run that is driven ends.                                              *)
LEMMA EndsInTurn ==
    ASSUME TypeOK, ValidInv, OrderInv, CallInv, NEW r \in Runs,
           Driven(r), EndRun(r), plan' = plan, run[r] # "none"
    PROVE  CallInv'
<1> SUFFICES ASSUME NEW c \in Calls, NEW k \in 1..MaxSets, r = <<c, k>>
             PROVE  CallIs(c)'
    <2>1. \A q \in Runs : q[1] # r[1] => run'[q] = run[q]
        BY CallFacts DEF EndRun, NextOf
    <2>2. \A b \in Calls : b # r[1] => call'[b] = call[b] /\ at'[b] = at[b]
        BY CallFacts DEF EndRun, TypeOK
    <2> QED BY <2>1, <2>2, OthersAtHome
<1> DEFINE N == Len(plan[c].sets)
<1> USE CallFacts, PlaceFacts
<1>1. /\ c \in Calls /\ k \in 1..MaxSets /\ r = <<c, k>> /\ CallIs(c) /\ Request(r) = plan[c]
      /\ call[c] = "driving" /\ at[c] = k /\ k <= N /\ Drives(c)
    BY CallOrder DEF CallInv, CallIs, Driven
<1>2. /\ run'[r] = "ended"
      /\ \A q \in Runs : q # r => \/ run'[q] = run[q]
                                 \/ /\ run'[q] = "waiting" /\ ~plan[c].background
                                    /\ q[1] = c /\ q[2] = k + 1 /\ k < N
    BY <1>1, EndRunRuns DEF NotLast
<1>3. /\ call'[c] = IF k < N THEN call[c] ELSE "done"
      /\ at'[c] = IF k < N THEN k + 1 ELSE at[c]
    BY <1>1 DEF EndRun, NotLast, TypeOK
<1>4. /\ \A j \in 1..MaxSets : j # k => run[<<c, j>>] \notin Moving \cup {"waiting"}
      /\ ~plan[c].background => \A j \in 1..MaxSets : j # k => run[<<c, j>>] \notin Under
      /\ \A j \in 1..MaxSets : j < k => run[<<c, j>>] \notin Under
      /\ \A j \in 1..MaxSets : N < j => run[<<c, j>>] = "none"
    BY <1>1, CallOrder DEF Drives
<1>5. \A j \in 1..MaxSets : j \notin {k, k + 1} => run'[<<c, j>>] = run[<<c, j>>]
    BY <1>1, <1>2
<1>6. CASE k < N
    <2>1. call'[c] = "driving" /\ at'[c] = k + 1 /\ k + 1 \in 1..N /\ k + 1 \in 1..MaxSets
        BY <1>1, <1>3, <1>6 DEF TypeOK
    <2>2. CASE plan[c].background
        <3>1. \A j \in 1..MaxSets : j # k => run'[<<c, j>>] = run[<<c, j>>]
            BY <1>1, <1>2, <2>2
        <3>2. \A j \in 1..N : k < j => run[<<c, j>>] \in Suspended
            BY <1>1, <2>2 DEF Drives
        <3>3. Drives(c)'
            BY <1>1, <1>2, <1>4, <2>1, <2>2, <3>1, <3>2 DEF Drives, Under
        <3>4. \A j \in 1..MaxSets : InCall(c, j)'
            BY <1>1, <1>2, <1>4, <2>1, <3>1 DEF InCall
        <3> QED BY <1>1, <1>2, <1>3, <2>1, <3>3, <3>4 DEF CallIs
    <2>3. CASE ~plan[c].background
        <3>1. run'[<<c, k + 1>>] = "waiting"
            <4>1. NextOf(r) = <<c, k + 1>> /\ <<c, k + 1>> # r /\ <<c, k + 1>> \in Runs
                BY <1>1, <2>1 DEF NextOf
            <4> QED BY <1>1, <1>6, <2>3, <4>1 DEF EndRun, NotLast
        <3>2. Drives(c)'
            BY <1>1, <1>2, <1>4, <1>5, <2>1, <2>3, <3>1 DEF Drives, Under
        <3>3. \A j \in 1..MaxSets : InCall(c, j)'
            BY <1>1, <1>2, <1>4, <1>5, <2>1, <2>3, <3>1 DEF InCall, Under
        <3> QED BY <1>1, <1>2, <1>3, <2>1, <3>2, <3>3 DEF CallIs
    <2> QED BY <1>1, <2>2, <2>3
<1>7. CASE ~(k < N)
    <2>1. call'[c] = "done" /\ k = N
        BY <1>1, <1>3, <1>7 DEF TypeOK
    <2>2. \A j \in 1..MaxSets : run'[<<c, j>>] \notin Under
        BY <1>1, <1>2, <1>4, <1>5, <1>7, <2>1
    <2>3. \A j \in 1..MaxSets : InCall(c, j)'
        BY <2>2 DEF InCall, Under
    <2> QED BY <1>1, <1>2, <1>3, <2>1, <2>3 DEF CallIs
<1> QED BY <1>6, <1>7

(* A generator raises: its call fails.                                       *)
LEMMA RaisesOnce ==
    ASSUME TypeOK, ValidInv, OrderInv, CallInv, NEW r \in Runs, NEW pc \in {"ended", "dropped"},
           Driven(r) \/ run[r] = "waiting", RaiseRun(r, pc), plan' = plan
    PROVE  CallInv'
<1> SUFFICES ASSUME NEW c \in Calls, NEW k \in 1..MaxSets, r = <<c, k>>
             PROVE  CallIs(c)'
    <2>1. \A q \in Runs : q[1] # r[1] => run'[q] = run[q]
        BY CallFacts DEF RaiseRun, TypeOK
    <2>2. \A b \in Calls : b # r[1] => call'[b] = call[b] /\ at'[b] = at[b]
        BY CallFacts DEF RaiseRun, TypeOK
    <2> QED BY <2>1, <2>2, OthersAtHome
<1> USE CallFacts, PlaceFacts
<1>1. c \in Calls /\ k \in 1..MaxSets /\ r = <<c, k>> /\ CallIs(c)
    BY DEF CallInv
<1>2. /\ run'[r] = pc /\ \A q \in Runs : q # r => run'[q] = run[q]
      /\ call'[c] = "failed" /\ \A b \in Calls : b # c => call'[b] = call[b]
      /\ at' = at
    BY <1>1 DEF RaiseRun, TypeOK
<1>3. \A j \in 1..MaxSets : j # k => run[<<c, j>>] \notin Moving \cup {"waiting"}
    <2>1. CASE call[c] = "driving" /\ at[c] = k
        BY <1>1, <2>1, CallOrder
    <2>2. CASE run[r] = "waiting" /\ plan[c].background
        BY <1>1, <2>2, CallOrder
    <2> QED BY <1>1, <2>1, <2>2, CallOrder DEF Driven
<1>4. \A j \in 1..MaxSets : InCall(c, j)'
    BY <1>1, <1>2, <1>3 DEF InCall
<1> QED
    BY <1>2, <1>4 DEF CallIs

LEMMA CallInvInit == Init => CallInv
BY RunsAssumption
   DEF Init, CallInv, CallIs, InCall, Runs, Suspended, Moving, Working, RollingBack

LEMMA CallBegins ==
    ASSUME TypeOK, IdleInv, CallInv, NEW c \in Calls, BeginCall(c)
    PROVE  CallInv'
<1> USE CallFacts, PlaceFacts
<1>1. <<c, 1>> \in Runs /\ 1 \in 1..MaxSets /\ 1 \in 1..Len(plan[c].sets)
    BY RunsAssumption
<1>2. /\ call[c] = "idle" /\ plan' = plan /\ at' = at
      /\ call' = [call EXCEPT ![c] = IF plan[c].background THEN "starting" ELSE "driving"]
      /\ run' = [run EXCEPT ![<<c, 1>>] = "waiting"]
    BY DEF BeginCall, setup
<1>3. at[c] = 1 /\ \A k \in 1..MaxSets : run[<<c, k>>] = "none"
    BY <1>2 DEF CallInv, CallIs, IdleInv
<1>4. run'[<<c, 1>>] = "waiting" /\ \A k \in 1..MaxSets : k # 1 => run'[<<c, k>>] = "none"
    BY <1>1, <1>2, <1>3 DEF TypeOK
<1>5. call'[c] = IF plan[c].background THEN "starting" ELSE "driving"
    BY <1>2 DEF TypeOK
<1>6. plan[c].background => Starts(c)'
    BY <1>1, <1>2, <1>3, <1>4 DEF Starts
<1>7. ~plan[c].background => Drives(c)'
    BY <1>1, <1>2, <1>3, <1>4 DEF Drives, Under
<1>8. \A k \in 1..MaxSets : InCall(c, k)'
    BY <1>4, <1>5 DEF InCall
<1>9. CallIs(c)'
    BY <1>5, <1>6, <1>7, <1>8 DEF CallIs
<1>10. \A r \in Runs : r[1] # c => run'[r] = run[r]
    BY <1>1, <1>2 DEF TypeOK
<1>11. \A b \in Calls : b # c => call'[b] = call[b] /\ at'[b] = at[b]
    BY <1>2 DEF TypeOK
<1> SUFFICES ASSUME NEW b \in Calls, b # c PROVE CallIs(b)'
    BY <1>9 DEF CallInv
<1>12. \A k \in 1..MaxSets : run'[<<b, k>>] = run[<<b, k>>]
    BY <1>10
<1> QED
    BY <1>2, <1>11, <1>12, CallStill

LEMMA CallInvStep ==
    TypeOK /\ ValidInv /\ IdleInv /\ OrderInv /\ CallInv /\ [Next]_vars => CallInv'
<1> SUFFICES ASSUME TypeOK, ValidInv, IdleInv, OrderInv, CallInv, [Next]_vars
             PROVE  CallInv'
    OBVIOUS
<1> USE RunsAssumption
<1>1. ASSUME NEW r \in Runs, NEW i \in Items, BeginItem(r, i) \/ LedgerItem(r, i) \/ StoreItem(r, i) \/
             MarkItem(r, i) \/ FlushItem(r, i) \/ FinishCustomItem(r, i) \/ ItemErrs(r, i)
      PROVE  UNCHANGED <<plan, call, at, run>>
    BY <1>1
       DEF BeginItem, LedgerItem, StoreItem, MarkItem, FlushItem, FinishCustomItem, ItemErrs, setup
<1>2. ASSUME NEW d \in Datasets, RecoverySkips(d) \/ RecoveryReads(d) \/ RecoveryDeletes(d) \/
             RecoveryResets(d) \/ RecoveryLogs(d) \/ RecoveryFails(d) \/ AddResets(d)
      PROVE  UNCHANGED <<plan, call, at, run>>
    BY <1>2
       DEF RecoverySkips, RecoveryReads, RecoveryDeletes, RecoveryResets, RecoveryLogs,
           RecoveryFails, AddResets, setup
<1>3. ASSUME Restart \/ RecoveryEnds
      PROVE  UNCHANGED <<plan, call, at, run>>
    BY <1>3 DEF Restart, RecoveryEnds, setup
<1>4. ASSUME NEW c \in Calls, BeginCall(c) PROVE CallInv'
    BY <1>4, CallBegins
<1>5. ASSUME NEW r \in Runs, AnswerRun(r) \/ StartRun(r) PROVE CallInv'
    <2>1. run[r] = "waiting" /\ plan' = plan /\ \E pc \in Suspended : FirstAnswer(r, pc)
        BY <1>5 DEF AnswerRun, StartRun, setup, Suspended
    <2> QED
        BY <2>1, AnswersFirst
<1>6. ASSUME NEW r \in Runs, run[r] \in Moving PROVE Driven(r)
    <2>1. r = <<r[1], r[2]>> /\ r[1] \in Calls /\ r[2] \in 1..MaxSets
        BY RequestFacts
    <2>2. InCall(r[1], r[2])
        BY <2>1 DEF CallInv, CallIs
    <2> QED
        BY <1>6, <2>1, <2>2 DEF InCall, Driven
<1>7. ASSUME NEW r \in Runs, FinishAnswered(r) \/ Complete(r) \/ LogError(r) PROVE CallInv'
    <2>1. EndRun(r) /\ plan' = plan /\ run[r] # "none"
        BY <1>7 DEF FinishAnswered, Complete, LogError, setup
    <2>2. Driven(r)
        BY <1>6, <1>7 DEF FinishAnswered, Complete, LogError, Moving, Working
    <2> QED
        BY <2>1, <2>2, EndsInTurn
<1>8. ASSUME NEW r \in Runs, LogAndRaise(r) \/ StartFails(r) \/ EntryFails(r) \/ CleanupFails(r)
      PROVE  CallInv'
    <2>1. plan' = plan /\ \E pc \in {"ended", "dropped"} : RaiseRun(r, pc)
        BY <1>8 DEF LogAndRaise, StartFails, EntryFails, CleanupFails, setup
    <2>2. Driven(r) \/ run[r] = "waiting"
        BY <1>6, <1>8 DEF LogAndRaise, StartFails, EntryFails, CleanupFails, Moving
    <2> QED
        BY <2>1, <2>2, RaisesOnce
<1>9. ASSUME NEW r \in Runs, EnterContext(r) \/ GatherErrors(r) \/ GatherResults(r) \/ FlushFails(r) \/
             CancelRun(r) \/ RollbackReads(r) \/ RollbackDeletes(r) \/ RollbackResets(r) \/
             RollbackFails(r) \/ \E i \in Items : ItemRaises(r, i)
      PROVE  CallInv'
    <2>1. UNCHANGED <<plan, call, at>>
        BY <1>9
           DEF EnterContext, GatherErrors, GatherResults, FlushFails, CancelRun, RollbackReads,
               RollbackDeletes, RollbackResets, RollbackFails, ItemRaises, setup
    <2>2. \E pc \in Moving : run' = [run EXCEPT ![r] = pc]
        BY <1>9
           DEF EnterContext, GatherErrors, GatherResults, FlushFails, CancelRun, RollbackReads,
               RollbackDeletes, RollbackResets, RollbackFails, ItemRaises, Fails, Moving,
               Working, RollingBack
    <2>3. Driven(r) \/ run[r] \in Moving
        BY <1>9
           DEF EnterContext, GatherErrors, GatherResults, FlushFails, CancelRun, RollbackReads,
               RollbackDeletes, RollbackResets, RollbackFails, ItemRaises, Moving,
               Working, RollingBack
    <2>4. run'[r] \in Moving /\ \A q \in Runs : q # r => run'[q] = run[q]
        BY <2>2 DEF TypeOK
    <2> QED
        BY <2>1, <2>3, <2>4, MovesOn
<1>10. ASSUME NEW r \in Runs, CloseGenerator(r) PROVE CallInv'
    <2>1. /\ UNCHANGED <<plan, call, at>> /\ call[r[1]] = "failed"
          /\ run'[r] \in {"dropped", "ended"}
          /\ \A q \in Runs : q # r => run'[q] = run[q]
        BY <1>10 DEF CloseGenerator, setup, TypeOK
    <2> SUFFICES ASSUME NEW c \in Calls, NEW k \in 1..MaxSets, r = <<c, k>>
                 PROVE  CallIs(c)'
        BY <2>1, OthersAtHome
    <2>2. CallIs(c) /\ call'[c] = "failed"
        BY <2>1 DEF CallInv
    <2>3. \A j \in 1..MaxSets : run'[<<c, j>>] \in {"dropped", "ended", run[<<c, j>>]}
        BY <2>1, CallFacts
    <2>4. \A j \in 1..MaxSets : InCall(c, j)'
        BY <2>1, <2>2, <2>3, PlaceFacts DEF CallIs, InCall
    <2> QED
        BY <2>2, <2>4 DEF CallIs
<1>11. ASSUME Crash PROVE CallInv'
    <2> SUFFICES ASSUME NEW c \in Calls PROVE CallIs(c)'
        BY DEF CallInv
    <2>1. /\ at' = at /\ call'[c] \notin {"starting", "driving"}
          /\ call'[c] = "idle" => call[c] = "idle"
        BY <1>11 DEF Crash
    <2>2. \A k \in 1..MaxSets : run'[<<c, k>>] \notin Under
        BY <1>11, CallFacts, PlaceFacts DEF Crash, Under
    <2>3. \A k \in 1..MaxSets : InCall(c, k)'
        BY <2>2, PlaceFacts DEF InCall, Under
    <2> QED
        BY <2>1, <2>3 DEF CallInv, CallIs
<1>12. CASE UNCHANGED <<plan, call, at, run>>
    <2> SUFFICES ASSUME NEW c \in Calls PROVE CallIs(c)'
        BY DEF CallInv
    <2> QED
        BY <1>12, CallFacts, CallStill
<1>13. CASE UNCHANGED vars
    BY <1>12, <1>13 DEF vars, setup
<1> QED
    BY <1>1, <1>2, <1>3, <1>4, <1>5, <1>7, <1>8, <1>9, <1>10, <1>11, <1>12, <1>13
       DEF Next, RunStep, RunFails, TaskStep, RecoveryStep

-----------------------------------------------------------------------------
(* Among finitely many things with a rank some have the highest.             *)
LEMMA HighestRank ==
    ASSUME NEW S, IsFiniteSet(S), NEW rank \in [S -> Nat], NEW T, T \subseteq S, T # {}
    PROVE  \E d \in T : \A e \in T : rank[e] <= rank[d]
<1> DEFINE above == [d \in S |-> {e \in S : rank[d] < rank[e]}]
           R == StrictSubsetOrdering(S)
<1>1. IsWellFoundedOn(R, FiniteSubsetsOf(S))
    BY FS_StrictSubsetOrderingWellFounded
<1>2. \A d \in S : above[d] \in FiniteSubsetsOf(S)
    BY FS_FiniteSubsetsOfFinite
<1>3. {above[d] : d \in T} \subseteq FiniteSubsetsOf(S) /\ {above[d] : d \in T} # {}
    BY <1>2
<1> HIDE DEF R
<1>4. \E x \in {above[d] : d \in T} : \A y \in {above[d] : d \in T} : <<y, x>> \notin R
    BY <1>1, <1>3, WFMin
<1>5. PICK d \in T : \A e \in T : <<above[e], above[d]>> \notin R
    BY <1>4
<1> SUFFICES ASSUME NEW e \in T, rank[d] < rank[e] PROVE FALSE
    BY <1>5
<1>6. above[e] \subseteq above[d] /\ e \in above[d] /\ e \notin above[e]
    OBVIOUS
<1>7. above[e] \in SUBSET S /\ above[d] \in SUBSET S /\ above[e] # above[d]
    BY <1>6
<1> QED
    BY <1>5, <1>6, <1>7 DEF R, StrictSubsetOrdering

(* Where no run can go on, those that hold the lock of a dataset belong to   *)
(* calls that wait for the lock of a dataset further down their list.        *)
LEMMA HoldersWaitFurther ==
    ASSUME TypeOK, ValidInv, OrderInv, CallInv, \A q \in Runs : ~CanGoOn(q),
           NEW r \in Runs, run[r] \in Locked
    PROVE  Request(r).background /\ \E q \in Runs : run[q] = "waiting" /\ q[1] = r[1] /\ r[2] < q[2]
<1> SUFFICES ASSUME NEW c \in Calls, NEW k \in 1..MaxSets, r = <<c, k>>
             PROVE  plan[c].background /\ \E j \in 1..MaxSets : run[<<c, j>>] = "waiting" /\ k < j
    <2>1. r = <<r[1], r[2]>> /\ r[1] \in Calls /\ r[2] \in 1..MaxSets /\ Request(r) = plan[r[1]]
        BY RequestFacts DEF Request
    <2>2. \A c \in Calls, j \in 1..MaxSets : <<c, j>> \in Runs /\ <<c, j>>[1] = c /\ <<c, j>>[2] = j
        BY DEF Runs
    <2>3. plan[r[1]].background /\ \E j \in 1..MaxSets : run[<<r[1], j>>] = "waiting" /\ r[2] < j
        BY <2>1
    <2> QED
        BY <2>1, <2>2, <2>3
<1> USE CallFacts, PlaceFacts
<1>1. \A j \in 1..MaxSets :
          /\ run[<<c, j>>] \notin Moving
          /\ call[c] = "driving" /\ at[c] = j => run[<<c, j>>] \notin Suspended
    BY DEF CanGoOn, Moving, Suspended, Driven
<1>2. run[r] \in Suspended /\ call[c] # "failed"
    BY <1>1 DEF CanGoOn, Suspended
<1>3. CallIs(c) /\ call[c] \in {"starting", "driving"}
    BY <1>2 DEF CallInv, CallIs, InCall
<1>4. call[c] # "driving"
    <2> SUFFICES ASSUME call[c] = "driving" PROVE FALSE
        OBVIOUS
    <2>1. /\ Drives(c) /\ at[c] \in 1..MaxSets
          /\ run[<<c, at[c]>>] = "waiting" /\ ~plan[c].background
        BY <1>1, <1>3 DEF CallIs, Drives, Under
    <2>2. k # at[c]
        BY <1>2, <2>1
    <2> QED
        BY <1>2, <2>1, <2>2, CallOrder DEF Under
<1>5. plan[c].background /\ Starts(c)
    BY <1>3, <1>4 DEF CallIs, Starts
<1>6. PICK j \in 1..Len(plan[c].sets) : run[<<c, j>>] = "waiting"
    BY <1>5 DEF Starts
<1>7. j \in 1..MaxSets
    BY RunsAssumption
<1>8. k < j
    BY <1>2, <1>5, <1>6, <1>7, CallOrder
<1> QED
    BY <1>5, <1>6, <1>7, <1>8

LEMMA SomeRunCanGoOn ==
    ASSUME TypeOK, ValidInv, OrderInv, CallInv
    PROVE  NoCircularWait
<1> SUFFICES ASSUME NEW rank \in [Datasets -> 1..Cardinality(Datasets)],
                    \A c \in Calls : plan[c].background =>
                        \A j, k \in DOMAIN plan[c].sets :
                            j < k => rank[plan[c].sets[j]] < rank[plan[c].sets[k]],
                    NEW s \in Runs, run[s] \in Locked \cup {"waiting"},
                    \A r \in Runs : ~CanGoOn(r)
             PROVE  FALSE
    BY DEF NoCircularWait, Ordered
<1> DEFINE T == {DatasetOf(r) : r \in {q \in Runs : run[q] = "waiting"}}
<1>1. Cardinality(Datasets) \in Nat
    BY DatasetsAssumption, FS_CardinalityType
<1>2. rank \in [Datasets -> Nat]
    BY <1>1
<1>3. \A r \in Runs : run[r] # "none" => DatasetOf(r) \in Datasets /\ r[2] \in DOMAIN Request(r).sets
    <2> SUFFICES ASSUME NEW r \in Runs, run[r] # "none"
                 PROVE  DatasetOf(r) \in Datasets /\ r[2] \in DOMAIN Request(r).sets
        OBVIOUS
    <2>1. r[2] <= Len(Request(r).sets) /\ Request(r) \in Requests
        BY RequestFacts, RunsAssumption DEF ValidInv, TypeOK, Request
    <2>2. Request(r).sets \in Seq(Datasets)
        BY <2>1 DEF Requests
    <2> QED
        BY <2>1, <2>2, RequestFacts, RunsAssumption
<1>4. T \subseteq Datasets
    BY <1>3
<1>5. T # {}
    <2>1. \E q \in Runs : run[q] = "waiting"
        BY HoldersWaitFurther
    <2> QED BY <2>1
<1>6. PICK r \in Runs : /\ run[r] = "waiting"
                        /\ \A q \in Runs : run[q] = "waiting" => rank[DatasetOf(q)] <= rank[DatasetOf(r)]
    <2> HIDE DEF T
    <2>1. PICK d \in T : \A e \in T : rank[e] <= rank[d]
        BY <1>2, <1>4, <1>5, DatasetsAssumption, HighestRank
    <2> QED
        BY <2>1 DEF T
<1>7. PICK h \in Runs : run[h] \in Locked /\ DatasetOf(h) = DatasetOf(r)
    BY <1>6 DEF CanGoOn, LockFree
<1>8. PICK q \in Runs : run[q] = "waiting" /\ q[1] = h[1] /\ h[2] < q[2] /\ Request(h).background
    BY <1>7, HoldersWaitFurther
<1>9. rank[DatasetOf(h)] < rank[DatasetOf(q)]
    <2>1. h[1] \in Calls /\ Request(h) = plan[h[1]] /\ Request(q) = plan[h[1]]
        BY <1>8, RequestFacts DEF Request
    <2>2. h[2] \in DOMAIN plan[h[1]].sets /\ q[2] \in DOMAIN plan[h[1]].sets
        BY <1>3, <1>7, <1>8, <2>1, PlaceFacts
    <2> QED
        BY <1>8, <2>1, <2>2 DEF DatasetOf
<1>10. rank[DatasetOf(q)] <= rank[DatasetOf(r)] /\ rank[DatasetOf(q)] \in Nat /\ rank[DatasetOf(r)] \in Nat
    BY <1>2, <1>3, <1>6, <1>8
<1> QED
    BY <1>7, <1>9, <1>10

(* Background calls that name their datasets in one order never wait for     *)
(* each other in a circle: while a run waits or is suspended, one can go on  *)
(* (pipeline_execution_mode.py, dataset_queue/locks).                        *)
THEOREM RunsDoNotCircle == Spec => []NoCircularWait
<1>1. RunsInv /\ CallInv /\ [Next]_vars => CallInv'
    BY CallInvStep DEF RunsInv
<1>2. RunsInv /\ CallInv => NoCircularWait
    BY SomeRunCanGoOn DEF RunsInv
<1> QED
    BY <1>1, <1>2, CallInvInit, RunsInvariant, PTL DEF Spec
=============================================================================
