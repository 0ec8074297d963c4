--------------------------- MODULE SessionPersist ---------------------------
(***************************************************************************)
(* How the questions and answers of one session get into the graph, behind *)
(* a watermark that counts what is already there                           *)
(* (session_persist_watermark.py, extract_user_sessions.py,                *)
(* cognify_session.py), while turns are appended to the session and        *)
(* deletions of documents take turns out of it (invalidate_sessions.py).   *)
(*                                                                         *)
(* A call is an improve() of the session into some dataset, a deletion of  *)
(* a document, or the deletion of a dataset.  The pipeline of an improve   *)
(* and both deletions run under the lock of their dataset; the session     *)
(* belongs to one dataset or to none.  Each access to the session cache is *)
(* a step, as it is a transaction of the cache with an await around it.    *)
(*                                                                         *)
(* Sessions keep the order in which turns were appended, so the text of a  *)
(* window is determined by the set of its turns: a document is that set.   *)
(* What a deletion takes out of a graph was to be forgotten: the model     *)
(* remembers each document that was put there.                             *)
(***************************************************************************)
EXTENDS Naturals, Sequences, FiniteSets

CONSTANTS
    Calls,
    Datasets,
    Turns,          \* questions and answers that may be asked, each once
    MaxFaults,      \* bound: failures, cancellations and restarts
    NoCall, NoDataset

ASSUME PersistAssumption ==
    /\ MaxFaults \in Nat
    /\ NoCall \notin Calls
    /\ NoDataset \notin Datasets

VARIABLES
    home,           \* the dataset the session is attributed to, if any
    session,        \* its turns
    watermark,      \* persisted_qa_count, 0 without a row
    added,          \* documents added to a dataset and not cognified yet
    graph           \* documents that have been put into the graph of a dataset

VARIABLES
    locked,         \* who holds the lock of a dataset
    improving,      \* who claimed the session in _improving_sessions
    updating        \* who holds session_lock(session, "update_qa")

VARIABLES
    pc, job, ds,
    read,           \* the turns that a call has read
    window,         \* the document an improve is about to add
    doomed,         \* turns a deletion has found contaminated
    deleted         \* whether it has deleted one: qa_deleted

VARIABLES
    gone,           \* history: turns that were in the session
    crossed,        \* history: turns went while an improve had read them
    faults          \* history: failures so far

store == <<home, session, watermark, added, graph>>
locks == <<locked, improving, updating>>
local == <<pc, job, ds, read, window, doomed, deleted>>
history == <<gone, crossed, faults>>
vars == <<store, locks, local, history>>

Jobs == {"none", "improve", "delete document", "delete dataset"}

(* Where a call is between two steps.  An improve that is past "extract"   *)
(* has turns in hand that it read from the session.                        *)
InHand == {"compare", "add", "cognify", "save"}
Deletion == {"context", "drop", "match"}
Clamping == {"delete", "clamp", "count", "weigh", "lower"}
Pcs == {"idle", "lock", "extract", "leave", "rest", "done"}
         \cup InHand \cup Deletion \cup Clamping

Documents == SUBSET Turns
Members(s) == {s[i] : i \in 1..Len(s)}

TypeOK ==
    /\ home \in Datasets \cup {NoDataset}
    /\ session \in Seq(Turns)
    /\ watermark \in Nat
    /\ added \in [Datasets -> SUBSET Documents]
    /\ graph \in [Datasets -> SUBSET Documents]
    /\ locked \in [Datasets -> Calls \cup {NoCall}]
    /\ improving \in Calls \cup {NoCall}
    /\ updating \in Calls \cup {NoCall}
    /\ pc \in [Calls -> Pcs]
    /\ job \in [Calls -> Jobs]
    /\ ds \in [Calls -> Datasets \cup {NoDataset}]
    /\ read \in [Calls -> Seq(Turns)]
    /\ window \in [Calls -> Documents]
    /\ doomed \in [Calls -> SUBSET Turns]
    /\ deleted \in [Calls -> BOOLEAN]
    /\ gone \subseteq Turns
    /\ crossed \in BOOLEAN
    /\ faults \in Nat

(* Nothing has been asked; home is what the first turn will fix. *)
Init ==
    /\ home \in Datasets \cup {NoDataset}
    /\ session = <<>> /\ watermark = 0
    /\ added = [d \in Datasets |-> {}]
    /\ graph = [d \in Datasets |-> {}]
    /\ locked = [d \in Datasets |-> NoCall]
    /\ improving = NoCall /\ updating = NoCall
    /\ pc = [c \in Calls |-> "idle"]
    /\ job = [c \in Calls |-> "none"]
    /\ ds = [c \in Calls |-> NoDataset]
    /\ read = [c \in Calls |-> <<>>]
    /\ window = [c \in Calls |-> {}]
    /\ doomed = [c \in Calls |-> {}]
    /\ deleted = [c \in Calls |-> FALSE]
    /\ gone = {} /\ crossed = FALSE /\ faults = 0

Goto(c, p) == pc' = [pc EXCEPT ![c] = p]

(* SessionManager.add_qa: a turn is appended, whatever else is going on. *)
Ask(t) ==
    /\ t \notin Members(session) \cup gone
    /\ session' = Append(session, t)
    /\ UNCHANGED <<home, watermark, added, graph, locks, local, history>>

(***************************************************************************)
(* improve()                                                               *)
(***************************************************************************)
Begin(c, j, d) ==
    /\ pc[c] = "idle"
    /\ job' = [job EXCEPT ![c] = j]
    /\ ds' = [ds EXCEPT ![c] = d]
    /\ UNCHANGED <<store, locked, updating, read, window, doomed, deleted, history>>

ImproveOne_ByDataset(c, d) ==
    /\ Begin(c, "improve", d)
    /\ IF improving = NoCall
         THEN improving' = d /\ Goto(c, "lock")
         ELSE UNCHANGED improving /\ Goto(c, "done")

(* An improve of one session claims it, and gives up if another one has. *)
ImproveOne(c, d) ==
    /\ Begin(c, "improve", d)
    /\ IF improving = NoCall
         THEN improving' = c /\ Goto(c, "lock")
         ELSE UNCHANGED improving /\ Goto(c, "done")

(* An improve of several sessions claims none of them. *)
ImproveSeveral(c, d) ==
    /\ Begin(c, "improve", d)
    /\ Goto(c, "lock")
    /\ UNCHANGED improving

TakeLock_Unshared(c) ==
    /\ pc[c] = "lock"
    /\ locked' = [locked EXCEPT ![ds[c]] = c]
    /\ Goto(c, CASE job[c] = "improve" -> "extract"
                 [] job[c] = "delete dataset" -> "context"
                 [] OTHER -> "match")
    /\ UNCHANGED <<store, improving, updating, job, ds, read, window, doomed,
                   deleted, history>>

TakeLock(c) ==
    /\ pc[c] = "lock" /\ locked[ds[c]] = NoCall
    /\ locked' = [locked EXCEPT ![ds[c]] = c]
    /\ Goto(c, CASE job[c] = "improve" -> "extract"
                 [] job[c] = "delete dataset" -> "context"
                 [] OTHER -> "match")
    /\ UNCHANGED <<store, improving, updating, job, ds, read, window, doomed,
                   deleted, history>>

(* extract_user_sessions: the turns, then the watermark, then the window.  *)
ReadSession(c) ==
    /\ pc[c] = "extract"
    /\ read' = [read EXCEPT ![c] = session]
    /\ Goto(c, IF session = <<>> THEN "leave" ELSE "compare")
    /\ UNCHANGED <<store, locks, job, ds, window, doomed, deleted, history>>

(* A watermark above the number of turns is taken for that of a session    *)
(* that was cleared and built again.                                       *)
FirstUnpersisted(count, turns) == IF count > turns THEN 1 ELSE count + 1

Unpersisted(c, count) ==
    {read[c][i] : i \in FirstUnpersisted(count, Len(read[c]))..Len(read[c])}

Extract(c, count) ==
    /\ pc[c] = "compare"
    /\ window' = [window EXCEPT ![c] = Unpersisted(c, count)]
    /\ Goto(c, IF window'[c] = {} THEN "leave" ELSE "add")
    /\ UNCHANGED <<store, locks, job, ds, read, doomed, deleted, gone, crossed>>

ReadWatermark(c) == Extract(c, watermark) /\ UNCHANGED faults

(* get_session_context_entries returns [] when the cache fails. *)
ReadWatermarkFails(c) ==
    /\ faults < MaxFaults /\ faults' = faults + 1
    /\ Extract(c, 0)

(* cognify_session: add of the text, which finds a document of the same    *)
(* content, then cognify of all that the dataset has not cognified yet.    *)
AddWindow(c) ==
    /\ pc[c] = "add"
    /\ added' = [added EXCEPT ![ds[c]] = @ \cup ({window[c]} \ graph[ds[c]])]
    /\ Goto(c, "cognify")
    /\ UNCHANGED <<home, session, watermark, graph, locks, job, ds, read, window,
                   doomed, deleted, history>>

Cognify(c) ==
    /\ pc[c] = "cognify"
    /\ graph' = [graph EXCEPT ![ds[c]] = @ \cup added[ds[c]]]
    /\ added' = [added EXCEPT ![ds[c]] = {}]
    /\ Goto(c, "save")
    /\ UNCHANGED <<home, session, watermark, locks, job, ds, read, window, doomed,
                   deleted, history>>

SaveWatermark_Recounts(c) ==
    /\ pc[c] = "save"
    /\ watermark' = Len(session)
    /\ Goto(c, "leave")
    /\ UNCHANGED <<home, session, added, graph, locks, job, ds, read, window, doomed,
                   deleted, history>>

(* The watermark becomes the number of turns at extraction.  The row is    *)
(* updated or else created, which converges on one row.                    *)
SaveWatermark(c) ==
    /\ pc[c] = "save"
    /\ watermark' = Len(read[c])
    /\ Goto(c, "leave")
    /\ UNCHANGED <<home, session, added, graph, locks, job, ds, read, window, doomed,
                   deleted, history>>

(***************************************************************************)
(* Deletions                                                               *)
(***************************************************************************)

(* Only sessions of the dataset, or of none, are looked at. *)
DeleteDocument(c, d) ==
    /\ home \in {d, NoDataset}
    /\ Begin(c, "delete document", d)
    /\ Goto(c, "lock")
    /\ UNCHANGED improving

DeleteDataset(c, d) ==
    /\ home = d
    /\ Begin(c, "delete dataset", d)
    /\ Goto(c, "lock")
    /\ UNCHANGED improving

(* Turns go while an improve has read them. *)
Crosses == \E c \in Calls : pc[c] \in InHand

(* delete_session: the rows beside the turns, then all there is. *)
ForgetContext(c) ==
    /\ pc[c] = "context"
    /\ watermark' = 0
    /\ Goto(c, "drop")
    /\ UNCHANGED <<home, session, added, graph, locks, job, ds, read, window, doomed,
                   deleted, history>>

DropSession(c) ==
    /\ pc[c] = "drop"
    /\ session' = <<>> /\ watermark' = 0
    /\ gone' = gone \cup Members(session)
    /\ crossed' = (crossed \/ Crosses)
    /\ Goto(c, "match")
    /\ UNCHANGED <<home, added, graph, locks, job, ds, read, window, doomed, deleted,
                   faults>>

(* _invalidate_session_entries: which turns used what was deleted, and     *)
(* which followed from those, the data of the session decides.             *)
Match(c) ==
    /\ pc[c] = "match"
    /\ \E D \in SUBSET Members(session) :
         /\ doomed' = [doomed EXCEPT ![c] = D]
         /\ Goto(c, IF D = {} THEN "leave" ELSE "delete")
    /\ UNCHANGED <<store, locks, job, ds, read, window, deleted, history>>

Cut(s, i) == SubSeq(s, 1, i - 1) \o SubSeq(s, i + 1, Len(s))

(* delete_qa, under the lock of updates; the turn may be gone already. *)
DeleteTurn(c) ==
    /\ pc[c] = "delete" /\ updating = NoCall
    /\ \E t \in doomed[c] :
         /\ doomed' = [doomed EXCEPT ![c] = @ \ {t}]
         /\ \/ /\ t \notin Members(session)
               /\ UNCHANGED <<session, deleted, gone, crossed>>
            \/ \E i \in 1..Len(session) :
                 /\ session[i] = t
                 /\ session' = Cut(session, i)
                 /\ deleted' = [deleted EXCEPT ![c] = TRUE]
                 /\ gone' = gone \cup {t}
                 /\ crossed' = (crossed \/ Crosses)
    /\ Goto(c, IF doomed'[c] # {} THEN "delete"
               ELSE IF deleted'[c] THEN "clamp" ELSE "leave")
    /\ UNCHANGED <<home, watermark, added, graph, locks, job, ds, read, window, faults>>

EnterClamp_Unlocked(c) ==
    /\ pc[c] = "clamp"
    /\ Goto(c, "count")
    /\ UNCHANGED <<store, locks, job, ds, read, window, doomed, deleted, history>>

(* The watermark is clamped under the same lock: turns are counted, the    *)
(* watermark is read, and lowered if it is above.                          *)
EnterClamp(c) ==
    /\ pc[c] = "clamp" /\ updating = NoCall
    /\ updating' = c
    /\ Goto(c, "count")
    /\ UNCHANGED <<store, locked, improving, job, ds, read, window, doomed, deleted,
                   history>>

CountSurvivors(c) ==
    /\ pc[c] = "count"
    /\ read' = [read EXCEPT ![c] = session]
    /\ Goto(c, "weigh")
    /\ UNCHANGED <<store, locks, job, ds, window, doomed, deleted, history>>

Weigh(c) ==
    /\ pc[c] = "weigh"
    /\ IF watermark > Len(read[c])
         THEN Goto(c, "lower") /\ UNCHANGED updating
         ELSE Goto(c, "leave") /\ updating' = NoCall
    /\ UNCHANGED <<store, locked, improving, job, ds, read, window, doomed, deleted,
                   history>>

Lower(c) ==
    /\ pc[c] = "lower"
    /\ watermark' = Len(read[c])
    /\ updating' = NoCall
    /\ Goto(c, "leave")
    /\ UNCHANGED <<home, session, added, graph, locked, improving, job, ds, read,
                   window, doomed, deleted, history>>

(***************************************************************************)
(* Ends and failures                                                       *)
(***************************************************************************)
FreedBy(c) == IF updating = c THEN NoCall ELSE updating

(* The pipeline ends and releases its dataset; an improve has stages to    *)
(* come.  What the call had in hand is gone.                               *)
Leave(c) ==
    /\ pc[c] = "leave"
    /\ locked' = [d \in Datasets |-> IF locked[d] = c THEN NoCall ELSE locked[d]]
    /\ read' = [read EXCEPT ![c] = <<>>]
    /\ window' = [window EXCEPT ![c] = {}]
    /\ doomed' = [doomed EXCEPT ![c] = {}]
    /\ deleted' = [deleted EXCEPT ![c] = FALSE]
    /\ Goto(c, "rest")
    /\ UNCHANGED <<store, improving, updating, job, ds, history>>

End(c) ==
    /\ pc[c] = "rest"
    /\ improving' = IF improving = c THEN NoCall ELSE improving
    /\ Goto(c, "done")
    /\ UNCHANGED <<store, locked, updating, job, ds, read, window, doomed, deleted,
                   history>>

(* A step raises or its task is cancelled.  That a run of cognify failed   *)
(* and that a watermark was not saved end the same way, and delete_session *)
(* goes on without the rows beside the turns; a session that could not be  *)
(* dropped is searched for contaminated turns like any other.              *)
Fail(c) ==
    /\ faults < MaxFaults /\ faults' = faults + 1
    /\ pc[c] \in {"lock", "extract"} \cup InHand \cup Deletion \cup Clamping
    /\ \/ Goto(c, "leave")
       \/ pc[c] = "context" /\ Goto(c, "drop")
       \/ pc[c] = "drop" /\ Goto(c, "match")
    /\ updating' = FreedBy(c)
    /\ UNCHANGED <<store, locked, improving, job, ds, read, window, doomed, deleted,
                   gone, crossed>>

(* The process dies with its locks; the stores remain. *)
Restart ==
    /\ faults < MaxFaults /\ faults' = faults + 1
    /\ pc' = [c \in Calls |-> IF pc[c] = "idle" THEN "idle" ELSE "done"]
    /\ locked' = [d \in Datasets |-> NoCall]
    /\ improving' = NoCall /\ updating' = NoCall
    /\ read' = [c \in Calls |-> <<>>]
    /\ window' = [c \in Calls |-> {}]
    /\ doomed' = [c \in Calls |-> {}]
    /\ deleted' = [c \in Calls |-> FALSE]
    /\ UNCHANGED <<store, job, ds, gone, crossed>>

Finished == (\A c \in Calls : pc[c] = "done") /\ UNCHANGED vars

Step(c) ==
    \/ TakeLock(c) \/ ReadSession(c) \/ ReadWatermark(c) \/ ReadWatermarkFails(c)
    \/ AddWindow(c) \/ Cognify(c) \/ SaveWatermark(c)
    \/ ForgetContext(c) \/ DropSession(c) \/ Match(c) \/ DeleteTurn(c)
    \/ EnterClamp(c) \/ CountSurvivors(c) \/ Weigh(c) \/ Lower(c)
    \/ Leave(c) \/ End(c) \/ Fail(c)

Start(c, d) ==
    ImproveOne(c, d) \/ ImproveSeveral(c, d) \/ DeleteDocument(c, d) \/ DeleteDataset(c, d)

Next ==
    \/ \E t \in Turns : Ask(t)
    \/ \E c \in Calls : Step(c) \/ \E d \in Datasets : Start(c, d)
    \/ Restart \/ Finished

Spec == Init /\ [][Next]_vars

(***************************************************************************)
(* Properties                                                              *)
(***************************************************************************)
Persisted == UNION (UNION {graph[d] : d \in Datasets})

(* Completeness: the turns below the watermark are in the graph, so the    *)
(* next window can start there (test_session_persist_watermark.py, "every  *)
(* session entry is ingested (nothing skipped)").                          *)
CountedArePersisted ==
    \A i \in 1..Len(session) : i <= watermark => session[i] \in Persisted

(* As long as no turn has left the session completeness holds, whatever    *)
(* fails, restarts, or overtakes on the way to another dataset.            *)
KeptArePersisted == gone = {} => CountedArePersisted

(* Incrementality: without failures, removals and deletions of the session *)
(* itself, and as long as it is only improved into one dataset, no turn is *)
(* put into two documents (test_session_persist_watermark.py,              *)
(* "already-persisted entries are never re-ingested").  The lock of the    *)
(* dataset does this, not the claim, which improves of several sessions do *)
(* not make.                                                               *)
NothingTwice ==
    /\ gone = {} /\ faults = 0
    /\ \A c \in Calls : job[c] # "delete dataset"
    /\ \A b, c \in Calls : job[b] = "improve" /\ job[c] = "improve" => ds[b] = ds[c]
    => \A d \in Datasets : \A D, E \in added[d] \cup graph[d] : D = E \/ D \cap E = {}

(* Once a deletion is over the watermark is not above the turns that are   *)
(* left, so that the next improve does not take the session for a new one  *)
(* (_invalidate_session_entries, "concurrent invalidations serialize and   *)
(* each writes the true count"); unless an improve had read the turns      *)
(* before they went and writes the number of those.                        *)
WatermarkFits ==
    /\ ~crossed /\ faults = 0
    /\ \A c \in Calls : pc[c] \in Clamping => ~deleted[c]
    => watermark <= Len(session)
=============================================================================
