------------------------- MODULE SessionPersistProofs -------------------------
(***************************************************************************)
(* Proofs about the persistence of a session, for any calls, datasets,     *)
(* turns and failures.                                                     *)
(***************************************************************************)
EXTENDS SessionPersist, SequenceTheorems, TLAPS

-----------------------------------------------------------------------------
(* Whose session, which dataset: what a call was started for stays true.   *)
PlaceInv ==
    \A c \in Calls :
        /\ pc[c] = "idle" => job[c] = "none"
        /\ pc[c] # "idle" => ds[c] \in Datasets /\ job[c] # "none"
        /\ job[c] = "delete document" => home \in {ds[c], NoDataset}
        /\ job[c] = "delete dataset" => home = ds[c]
        /\ pc[c] \in {"extract"} \cup InHand => job[c] = "improve"
        /\ pc[c] \in Deletion \cup Clamping =>
               job[c] \in {"delete document", "delete dataset"}
        /\ pc[c] \in {"context", "drop"} => job[c] = "delete dataset"

(* The locks: pipelines and deletions hold that of their dataset, the      *)
(* three steps of a clamp that of the updates of the session.              *)
LockInv ==
    \A c \in Calls :
        /\ pc[c] \in {"extract"} \cup InHand \cup Deletion \cup Clamping => locked[ds[c]] = c
        /\ pc[c] \in {"count", "weigh", "lower"} => updating = c

(* Who has deleted a turn, or clamps, knows that a turn is gone. *)
GoneInv ==
    \A c \in Calls :
        /\ deleted[c] => gone # {}
        /\ pc[c] \in {"clamp", "count", "weigh", "lower"} => deleted[c]

(* What an improve has read is how the session began. *)
IsPrefix(s, t) == Len(s) <= Len(t) /\ \A i \in 1..Len(s) : s[i] = t[i]

(* While nothing is gone: turns an improve has read are below the watermark *)
(* or in its window, then in a document of its dataset, then in the graph.  *)
KeepInv ==
    gone = {} =>
        /\ watermark <= Len(session)
        /\ CountedArePersisted
        /\ \A c \in Calls :
             /\ pc[c] \in InHand => IsPrefix(read[c], session)
             /\ pc[c] \in {"add", "cognify"} =>
                    \A i \in 1..Len(read[c]) : read[c][i] \in window[c] \cup Persisted
             /\ pc[c] = "cognify" => window[c] \in added[ds[c]] \cup graph[ds[c]]
             /\ pc[c] = "save" => \A i \in 1..Len(read[c]) : read[c][i] \in Persisted

(* While nothing fails and no deletion crosses an improve: no turn that a  *)
(* call has counted is gone.                                               *)
FitInv ==
    ~crossed /\ faults = 0 =>
        /\ \A c \in Calls :
             pc[c] \in InHand \cup {"weigh", "lower"} => Len(read[c]) <= Len(session)
        /\ (\A c \in Calls : pc[c] \in Clamping => ~deleted[c]) => watermark <= Len(session)

(* The antecedent of NothingTwice. *)
Undisturbed ==
    /\ gone = {} /\ faults = 0
    /\ \A c \in Calls : job[c] # "delete dataset"
    /\ \A b, c \in Calls : job[b] = "improve" /\ job[c] = "improve" => ds[b] = ds[c]

Stored == UNION {added[d] \cup graph[d] : d \in Datasets}
UpTo(s, n) == {s[i] : i \in 1..n}

(* Documents hold turns below the watermark, but for the one of an improve *)
(* that has not saved it yet, which holds turns that it has read.          *)
OnceInv ==
    Undisturbed =>
        /\ \A i, j \in 1..Len(session) : session[i] = session[j] => i = j
        /\ \A c \in Calls :
             /\ pc[c] \in InHand => watermark <= Len(read[c])
             /\ pc[c] = "add" =>
                    window[c] = {read[c][i] : i \in watermark + 1..Len(read[c])}
             /\ pc[c] \in {"cognify", "save"} =>
                    \A D \in Stored : D \subseteq UpTo(read[c], Len(read[c]))
        /\ (\A c \in Calls : pc[c] \notin {"cognify", "save"}) =>
               \A D \in Stored : D \subseteq UpTo(session, watermark)
        /\ \A D, E \in Stored : D = E \/ D \cap E = {}

-----------------------------------------------------------------------------
LEMMA MembersTyped ==
  ASSUME NEW s \in Seq(Turns)
  PROVE  Members(s) \subseteq Turns
BY DEF Members

LEMMA NoTurns == <<>> \in Seq(Turns)
OBVIOUS

LEMMA WindowTyped ==
  ASSUME NEW c \in Calls, read[c] \in Seq(Turns), NEW n \in Nat
  PROVE  Unpersisted(c, n) \in Documents
BY DEF Unpersisted, FirstUnpersisted, Documents

LEMMA CutTyped ==
  ASSUME NEW s \in Seq(Turns), NEW i \in 1..Len(s)
  PROVE  Cut(s, i) \in Seq(Turns)
<1>0. Len(s) \in Nat /\ \A j \in 1..Len(s) : s[j] \in Turns
  OBVIOUS
<1>1. SubSeq(s, 1, i - 1) \in Seq(Turns)
  <2>1. \A j \in 1..(i - 1) : s[j] \in Turns
    BY <1>0
  <2> QED
    BY <1>0, <2>1, SubSeqProperties
<1>2. SubSeq(s, i + 1, Len(s)) \in Seq(Turns)
  <2>1. \A j \in (i + 1)..Len(s) : s[j] \in Turns
    BY <1>0
  <2> QED
    BY <1>0, <2>1, SubSeqProperties
<1> QED
  BY <1>1, <1>2, ConcatProperties DEF Cut

-----------------------------------------------------------------------------
LEMMA TypeInit == Init => TypeOK
<1> SUFFICES ASSUME Init PROVE TypeOK
  OBVIOUS
<1>1. read \in [Calls -> Seq(Turns)] /\ session \in Seq(Turns)
  BY NoTurns DEF Init
<1>2. window \in [Calls -> Documents] /\ doomed \in [Calls -> SUBSET Turns]
  BY DEF Init, Documents
<1>3. added \in [Datasets -> SUBSET Documents] /\ graph \in [Datasets -> SUBSET Documents]
  BY DEF Init
<1>4. pc \in [Calls -> Pcs] /\ job \in [Calls -> Jobs]
  BY DEF Init, Pcs, Jobs
<1>5. deleted \in [Calls -> BOOLEAN]
  BY DEF Init
<1> QED
  BY <1>1, <1>2, <1>3, <1>4, <1>5 DEF Init, TypeOK

LEMMA TypeStep ==
    TypeOK /\ [Next]_vars => TypeOK'
<1> SUFFICES ASSUME TypeOK, [Next]_vars PROVE TypeOK'
  OBVIOUS
<1> USE PersistAssumption
<1>1. ASSUME NEW t \in Turns, Ask(t) PROVE TypeOK'
  <2>1. session' \in Seq(Turns)
    BY <1>1, AppendProperties DEF Ask, TypeOK
  <2> QED
    BY <1>1, <2>1 DEF Ask, TypeOK, store, locks, local, history
<1>2. ASSUME NEW c \in Calls, NEW d \in Datasets, ImproveOne(c, d) PROVE TypeOK'
  <2>1. pc' \in [Calls -> Pcs]
    BY <1>2 DEF ImproveOne, Begin, Goto, TypeOK, Pcs, InHand, Deletion, Clamping
  <2>2. job' \in [Calls -> Jobs]
    BY <1>2 DEF ImproveOne, Begin, Goto, TypeOK, Jobs
  <2>3. ds' \in [Calls -> Datasets \cup {NoDataset}]
    BY <1>2 DEF ImproveOne, Begin, Goto, TypeOK
  <2>4. improving' \in Calls \cup {NoCall}
    BY <1>2 DEF ImproveOne, Begin, Goto, TypeOK
  <2> QED
    BY <1>2, <2>1, <2>2, <2>3, <2>4 DEF ImproveOne, Begin, Goto, TypeOK, store, locks, local,
       history
<1>3. ASSUME NEW c \in Calls, NEW d \in Datasets, ImproveSeveral(c, d) PROVE TypeOK'
  <2>1. pc' \in [Calls -> Pcs]
    BY <1>3 DEF ImproveSeveral, Begin, Goto, TypeOK, Pcs, InHand, Deletion, Clamping
  <2>2. job' \in [Calls -> Jobs]
    BY <1>3 DEF ImproveSeveral, Begin, Goto, TypeOK, Jobs
  <2>3. ds' \in [Calls -> Datasets \cup {NoDataset}]
    BY <1>3 DEF ImproveSeveral, Begin, Goto, TypeOK
  <2> QED
    BY <1>3, <2>1, <2>2, <2>3 DEF ImproveSeveral, Begin, Goto, TypeOK, store, locks, local,
       history
<1>4. ASSUME NEW c \in Calls, NEW d \in Datasets, DeleteDocument(c, d) PROVE TypeOK'
  <2>1. pc' \in [Calls -> Pcs]
    BY <1>4 DEF DeleteDocument, Begin, Goto, TypeOK, Pcs, InHand, Deletion, Clamping
  <2>2. job' \in [Calls -> Jobs]
    BY <1>4 DEF DeleteDocument, Begin, Goto, TypeOK, Jobs
  <2>3. ds' \in [Calls -> Datasets \cup {NoDataset}]
    BY <1>4 DEF DeleteDocument, Begin, Goto, TypeOK
  <2> QED
    BY <1>4, <2>1, <2>2, <2>3 DEF DeleteDocument, Begin, Goto, TypeOK, store, locks, local,
       history
<1>5. ASSUME NEW c \in Calls, NEW d \in Datasets, DeleteDataset(c, d) PROVE TypeOK'
  <2>1. pc' \in [Calls -> Pcs]
    BY <1>5 DEF DeleteDataset, Begin, Goto, TypeOK, Pcs, InHand, Deletion, Clamping
  <2>2. job' \in [Calls -> Jobs]
    BY <1>5 DEF DeleteDataset, Begin, Goto, TypeOK, Jobs
  <2>3. ds' \in [Calls -> Datasets \cup {NoDataset}]
    BY <1>5 DEF DeleteDataset, Begin, Goto, TypeOK
  <2> QED
    BY <1>5, <2>1, <2>2, <2>3 DEF DeleteDataset, Begin, Goto, TypeOK, store, locks, local,
       history
<1>6. ASSUME NEW c \in Calls, TakeLock(c) PROVE TypeOK'
  <2>1. pc' \in [Calls -> Pcs]
    BY <1>6 DEF TakeLock, Goto, TypeOK, Pcs, InHand, Deletion, Clamping
  <2>2. locked' \in [Datasets -> Calls \cup {NoCall}]
    BY <1>6 DEF TakeLock, Goto, TypeOK
  <2> QED
    BY <1>6, <2>1, <2>2 DEF TakeLock, Goto, TypeOK, store, locks, local, history
<1>7. ASSUME NEW c \in Calls, ReadSession(c) PROVE TypeOK'
  <2>1. pc' \in [Calls -> Pcs]
    BY <1>7 DEF ReadSession, Goto, TypeOK, Pcs, InHand, Deletion, Clamping
  <2>2. read' \in [Calls -> Seq(Turns)]
    BY <1>7 DEF ReadSession, Goto, TypeOK
  <2> QED
    BY <1>7, <2>1, <2>2 DEF ReadSession, Goto, TypeOK, store, locks, local, history
<1>8. ASSUME NEW c \in Calls, ReadWatermark(c) PROVE TypeOK'
  <2>1. pc' \in [Calls -> Pcs]
    BY <1>8 DEF ReadWatermark, Extract, Goto, Unpersisted, FirstUnpersisted, TypeOK, Pcs,
       InHand, Deletion, Clamping
  <2>2. window' \in [Calls -> Documents]
    BY <1>8, WindowTyped DEF ReadWatermark, Extract, Goto, Unpersisted, FirstUnpersisted,
       TypeOK
  <2> QED
    BY <1>8, <2>1, <2>2 DEF ReadWatermark, Extract, Goto, Unpersisted, FirstUnpersisted,
       TypeOK, store, locks, local, history
<1>9. ASSUME NEW c \in Calls, ReadWatermarkFails(c) PROVE TypeOK'
  <2>1. pc' \in [Calls -> Pcs]
    BY <1>9 DEF ReadWatermarkFails, Extract, Goto, Unpersisted, FirstUnpersisted, TypeOK, Pcs,
       InHand, Deletion, Clamping
  <2>2. window' \in [Calls -> Documents]
    BY <1>9, WindowTyped DEF ReadWatermarkFails, Extract, Goto, Unpersisted, FirstUnpersisted,
       TypeOK
  <2>3. faults' \in Nat
    BY <1>9 DEF ReadWatermarkFails, Extract, Goto, Unpersisted, FirstUnpersisted, TypeOK
  <2> QED
    BY <1>9, <2>1, <2>2, <2>3 DEF ReadWatermarkFails, Extract, Goto, Unpersisted,
       FirstUnpersisted, TypeOK, store, locks, local, history
<1>10. ASSUME NEW c \in Calls, AddWindow(c) PROVE TypeOK'
  <2>1. pc' \in [Calls -> Pcs]
    BY <1>10 DEF AddWindow, Goto, TypeOK, Pcs, InHand, Deletion, Clamping
  <2>2. added' \in [Datasets -> SUBSET Documents]
    <3>1. added' = [added EXCEPT ![ds[c]] = @ \cup ({window[c]} \ graph[ds[c]])]
      BY <1>10 DEF AddWindow
    <3>2. window[c] \in Documents
      BY DEF TypeOK
    <3>3. ASSUME NEW d \in Datasets PROVE added'[d] \in SUBSET Documents
      <4>1. CASE d = ds[c]
        BY <3>1, <3>2, <4>1 DEF TypeOK
      <4>2. CASE d # ds[c]
        BY <3>1, <4>2 DEF TypeOK
      <4> QED
        BY <4>1, <4>2
    <3>4. DOMAIN added' = Datasets /\ added' = [d \in DOMAIN added' |-> added'[d]]
      BY <3>1 DEF TypeOK
    <3> QED
      BY <3>3, <3>4
  <2> QED
    BY <1>10, <2>1, <2>2 DEF AddWindow, Goto, TypeOK, store, locks, local, history
<1>11. ASSUME NEW c \in Calls, Cognify(c) PROVE TypeOK'
  <2>1. pc' \in [Calls -> Pcs]
    BY <1>11 DEF Cognify, Goto, TypeOK, Pcs, InHand, Deletion, Clamping
  <2>2. added' \in [Datasets -> SUBSET Documents]
    <3>1. added' = [added EXCEPT ![ds[c]] = {}]
      BY <1>11 DEF Cognify
    <3>2. {} \in SUBSET Documents
      OBVIOUS
    <3>3. ASSUME NEW d \in Datasets PROVE added'[d] \in SUBSET Documents
      <4>1. CASE d = ds[c]
        BY <3>1, <3>2, <4>1 DEF TypeOK
      <4>2. CASE d # ds[c]
        BY <3>1, <4>2 DEF TypeOK
      <4> QED
        BY <4>1, <4>2
    <3>4. DOMAIN added' = Datasets /\ added' = [d \in DOMAIN added' |-> added'[d]]
      BY <3>1 DEF TypeOK
    <3> QED
      BY <3>3, <3>4
  <2>3. graph' \in [Datasets -> SUBSET Documents]
    <3>1. graph' = [graph EXCEPT ![ds[c]] = @ \cup added[ds[c]]]
      BY <1>11 DEF Cognify
    <3>2. added \in [Datasets -> SUBSET Documents]
      BY DEF TypeOK
    <3>3. ASSUME NEW d \in Datasets PROVE graph'[d] \in SUBSET Documents
      <4>1. CASE d = ds[c]
        BY <3>1, <3>2, <4>1 DEF TypeOK
      <4>2. CASE d # ds[c]
        BY <3>1, <4>2 DEF TypeOK
      <4> QED
        BY <4>1, <4>2
    <3>4. DOMAIN graph' = Datasets /\ graph' = [d \in DOMAIN graph' |-> graph'[d]]
      BY <3>1 DEF TypeOK
    <3> QED
      BY <3>3, <3>4
  <2> QED
    BY <1>11, <2>1, <2>2, <2>3 DEF Cognify, Goto, TypeOK, store, locks, local, history
<1>12. ASSUME NEW c \in Calls, SaveWatermark(c) PROVE TypeOK'
  <2>1. pc' \in [Calls -> Pcs]
    BY <1>12 DEF SaveWatermark, Goto, TypeOK, Pcs, InHand, Deletion, Clamping
  <2>2. watermark' \in Nat
    BY <1>12, LenProperties DEF SaveWatermark, Goto, TypeOK
  <2> QED
    BY <1>12, <2>1, <2>2 DEF SaveWatermark, Goto, TypeOK, store, locks, local, history
<1>13. ASSUME NEW c \in Calls, ForgetContext(c) PROVE TypeOK'
  <2>1. pc' \in [Calls -> Pcs]
    BY <1>13 DEF ForgetContext, Goto, TypeOK, Pcs, InHand, Deletion, Clamping
  <2>2. watermark' \in Nat
    BY <1>13 DEF ForgetContext, Goto, TypeOK
  <2> QED
    BY <1>13, <2>1, <2>2 DEF ForgetContext, Goto, TypeOK, store, locks, local, history
<1>14. ASSUME NEW c \in Calls, DropSession(c) PROVE TypeOK'
  <2>1. pc' \in [Calls -> Pcs]
    BY <1>14 DEF DropSession, Goto, TypeOK, Pcs, InHand, Deletion, Clamping
  <2>2. session' \in Seq(Turns)
    BY <1>14, NoTurns DEF DropSession, Goto, TypeOK
  <2>3. watermark' \in Nat
    BY <1>14 DEF DropSession, Goto, TypeOK
  <2>4. gone' \subseteq Turns
    BY <1>14, MembersTyped DEF DropSession, Goto, TypeOK
  <2>5. crossed' \in BOOLEAN
    BY <1>14 DEF DropSession, Goto, TypeOK, Crosses
  <2> QED
    BY <1>14, <2>1, <2>2, <2>3, <2>4, <2>5 DEF DropSession, Goto, TypeOK, store, locks, local,
       history
<1>15. ASSUME NEW c \in Calls, Match(c) PROVE TypeOK'
  <2>1. pc' \in [Calls -> Pcs]
    BY <1>15 DEF Match, Goto, TypeOK, Pcs, InHand, Deletion, Clamping
  <2>2. doomed' \in [Calls -> SUBSET Turns]
    BY <1>15, MembersTyped DEF Match, Goto, TypeOK
  <2> QED
    BY <1>15, <2>1, <2>2 DEF Match, Goto, TypeOK, store, locks, local, history
<1>16. ASSUME NEW c \in Calls, DeleteTurn(c) PROVE TypeOK'
  <2>1. PICK t \in doomed[c] :
            /\ doomed' = [doomed EXCEPT ![c] = @ \ {t}]
            /\ \/ UNCHANGED <<session, deleted, gone, crossed>>
               \/ \E i \in 1..Len(session) :
                    /\ session' = Cut(session, i)
                    /\ deleted' = [deleted EXCEPT ![c] = TRUE]
                    /\ gone' = gone \cup {t}
                    /\ crossed' = (crossed \/ Crosses)
    BY <1>16 DEF DeleteTurn
  <2>2. t \in Turns
    BY <2>1 DEF TypeOK
  <2>3. session' \in Seq(Turns) /\ gone' \subseteq Turns
    BY <2>1, <2>2, CutTyped DEF TypeOK
  <2>4. deleted' \in [Calls -> BOOLEAN]
    BY <2>1 DEF TypeOK
  <2>5. crossed' \in BOOLEAN
    BY <2>1 DEF TypeOK, Crosses
  <2>6. doomed' \in [Calls -> SUBSET Turns]
    BY <2>1 DEF TypeOK
  <2>7. pc' \in [Calls -> Pcs]
    BY <1>16 DEF DeleteTurn, Goto, TypeOK, Pcs, Clamping
  <2> QED
    BY <1>16, <2>3, <2>4, <2>5, <2>6, <2>7 DEF DeleteTurn, TypeOK, locks
<1>17. ASSUME NEW c \in Calls, EnterClamp(c) PROVE TypeOK'
  <2>1. pc' \in [Calls -> Pcs]
    BY <1>17 DEF EnterClamp, Goto, TypeOK, Pcs, InHand, Deletion, Clamping
  <2>2. updating' \in Calls \cup {NoCall}
    BY <1>17 DEF EnterClamp, Goto, TypeOK
  <2> QED
    BY <1>17, <2>1, <2>2 DEF EnterClamp, Goto, TypeOK, store, locks, local, history
<1>18. ASSUME NEW c \in Calls, CountSurvivors(c) PROVE TypeOK'
  <2>1. pc' \in [Calls -> Pcs]
    BY <1>18 DEF CountSurvivors, Goto, TypeOK, Pcs, InHand, Deletion, Clamping
  <2>2. read' \in [Calls -> Seq(Turns)]
    BY <1>18 DEF CountSurvivors, Goto, TypeOK
  <2> QED
    BY <1>18, <2>1, <2>2 DEF CountSurvivors, Goto, TypeOK, store, locks, local, history
<1>19. ASSUME NEW c \in Calls, Weigh(c) PROVE TypeOK'
  <2>1. pc' \in [Calls -> Pcs]
    BY <1>19 DEF Weigh, Goto, TypeOK, Pcs, InHand, Deletion, Clamping
  <2>2. updating' \in Calls \cup {NoCall}
    BY <1>19 DEF Weigh, Goto, TypeOK
  <2> QED
    BY <1>19, <2>1, <2>2 DEF Weigh, Goto, TypeOK, store, locks, local, history
<1>20. ASSUME NEW c \in Calls, Lower(c) PROVE TypeOK'
  <2>1. pc' \in [Calls -> Pcs]
    BY <1>20 DEF Lower, Goto, TypeOK, Pcs, InHand, Deletion, Clamping
  <2>2. watermark' \in Nat
    BY <1>20, LenProperties DEF Lower, Goto, TypeOK
  <2>3. updating' \in Calls \cup {NoCall}
    BY <1>20 DEF Lower, Goto, TypeOK
  <2> QED
    BY <1>20, <2>1, <2>2, <2>3 DEF Lower, Goto, TypeOK, store, locks, local, history
<1>21. ASSUME NEW c \in Calls, Leave(c) PROVE TypeOK'
  <2>1. pc' \in [Calls -> Pcs]
    BY <1>21 DEF Leave, Goto, TypeOK, Pcs, InHand, Deletion, Clamping
  <2>2. locked' \in [Datasets -> Calls \cup {NoCall}]
    BY <1>21 DEF Leave, Goto, TypeOK
  <2>3. read' \in [Calls -> Seq(Turns)]
    BY <1>21, NoTurns DEF Leave, Goto, TypeOK
  <2>4. window' \in [Calls -> Documents]
    BY <1>21 DEF Leave, Goto, TypeOK, Documents
  <2>5. doomed' \in [Calls -> SUBSET Turns]
    BY <1>21 DEF Leave, Goto, TypeOK
  <2>6. deleted' \in [Calls -> BOOLEAN]
    BY <1>21 DEF Leave, Goto, TypeOK
  <2> QED
    BY <1>21, <2>1, <2>2, <2>3, <2>4, <2>5, <2>6 DEF Leave, Goto, TypeOK, store, locks, local,
       history
<1>22. ASSUME NEW c \in Calls, End(c) PROVE TypeOK'
  <2>1. pc' \in [Calls -> Pcs]
    BY <1>22 DEF End, Goto, TypeOK, Pcs, InHand, Deletion, Clamping
  <2>2. improving' \in Calls \cup {NoCall}
    BY <1>22 DEF End, Goto, TypeOK
  <2> QED
    BY <1>22, <2>1, <2>2 DEF End, Goto, TypeOK, store, locks, local, history
<1>23. ASSUME NEW c \in Calls, Fail(c) PROVE TypeOK'
  <2>1. pc' \in [Calls -> Pcs]
    BY <1>23 DEF Fail, FreedBy, Goto, TypeOK, Pcs, InHand, Deletion, Clamping
  <2>2. updating' \in Calls \cup {NoCall}
    BY <1>23 DEF Fail, FreedBy, Goto, TypeOK
  <2>3. faults' \in Nat
    BY <1>23 DEF Fail, FreedBy, Goto, TypeOK
  <2> QED
    BY <1>23, <2>1, <2>2, <2>3 DEF Fail, FreedBy, Goto, TypeOK, store, locks, local, history
<1>24. ASSUME Restart PROVE TypeOK'
  <2>1. pc' \in [Calls -> Pcs]
    BY <1>24 DEF Restart, TypeOK, Pcs, InHand, Deletion, Clamping
  <2>2. locked' \in [Datasets -> Calls \cup {NoCall}]
    BY <1>24 DEF Restart, TypeOK
  <2>3. improving' \in Calls \cup {NoCall}
    BY <1>24 DEF Restart, TypeOK
  <2>4. updating' \in Calls \cup {NoCall}
    BY <1>24 DEF Restart, TypeOK
  <2>5. read' \in [Calls -> Seq(Turns)]
    BY <1>24, NoTurns DEF Restart, TypeOK
  <2>6. window' \in [Calls -> Documents]
    BY <1>24 DEF Restart, TypeOK, Documents
  <2>7. doomed' \in [Calls -> SUBSET Turns]
    BY <1>24 DEF Restart, TypeOK
  <2>8. deleted' \in [Calls -> BOOLEAN]
    BY <1>24 DEF Restart, TypeOK
  <2>9. faults' \in Nat
    BY <1>24 DEF Restart, TypeOK
  <2> QED
    BY <1>24, <2>1, <2>2, <2>3, <2>4, <2>5, <2>6, <2>7, <2>8, <2>9 DEF Restart, TypeOK, store,
       locks, local, history
<1>25. CASE UNCHANGED vars
  BY <1>25 DEF vars, TypeOK, store, locks, local, history
<1> QED
  BY <1>1, <1>2, <1>3, <1>4, <1>5, <1>6, <1>7, <1>8, <1>9, <1>10, <1>11, <1>12, <1>13,
     <1>14, <1>15, <1>16, <1>17, <1>18, <1>19, <1>20, <1>21, <1>22, <1>23, <1>24, <1>25 DEF
     Next, Step, Start, Finished

-----------------------------------------------------------------------------
LEMMA PartsInit == Init => PlaceInv /\ LockInv /\ GoneInv /\ KeepInv /\ FitInv /\ OnceInv
<1> SUFFICES ASSUME Init PROVE PlaceInv /\ LockInv /\ GoneInv /\ KeepInv /\ FitInv /\ OnceInv
  OBVIOUS
<1> USE DEF Init, InHand, Deletion, Clamping
<1>1. Len(session) = 0 /\ watermark = 0
  OBVIOUS
<1>2. PlaceInv /\ LockInv /\ GoneInv
  BY DEF PlaceInv, LockInv, GoneInv
<1>3. KeepInv
  BY <1>1 DEF KeepInv, CountedArePersisted
<1>4. FitInv
  BY <1>1 DEF FitInv
<1>5. Stored = {}
  BY DEF Stored
<1>6. OnceInv
  BY <1>1, <1>5 DEF OnceInv
<1> QED
  BY <1>2, <1>3, <1>4, <1>6

LEMMA PlaceStep ==
    TypeOK /\ PlaceInv /\ [Next]_vars => PlaceInv'
<1> SUFFICES ASSUME TypeOK, PlaceInv, [Next]_vars PROVE PlaceInv'
  OBVIOUS
<1> USE PersistAssumption
<1>1. ASSUME NEW t \in Turns, Ask(t) PROVE PlaceInv'
  BY <1>1 DEF Ask, TypeOK, PlaceInv, Pcs, Jobs, InHand, Deletion, Clamping, store, locks,
     local, history
<1>2. ASSUME NEW c \in Calls, NEW d \in Datasets, ImproveOne(c, d) PROVE PlaceInv'
  <2>1. PICK p \in {"lock", "done"} : pc' = [pc EXCEPT ![c] = p]
    BY <1>2 DEF ImproveOne, Goto
  <2>2. /\ pc[c] = "idle" /\ job' = [job EXCEPT ![c] = "improve"]
        /\ ds' = [ds EXCEPT ![c] = d] /\ home' = home
    BY <1>2 DEF ImproveOne, Begin, store
  <2> QED
    BY <2>1, <2>2 DEF TypeOK, PlaceInv, InHand, Deletion, Clamping
<1>3. ASSUME NEW c \in Calls, NEW d \in Datasets, ImproveSeveral(c, d) PROVE PlaceInv'
  BY <1>3 DEF ImproveSeveral, Begin, Goto, TypeOK, PlaceInv, Pcs, Jobs, InHand, Deletion,
     Clamping, store, locks, local, history
<1>4. ASSUME NEW c \in Calls, NEW d \in Datasets, DeleteDocument(c, d) PROVE PlaceInv'
  BY <1>4 DEF DeleteDocument, Begin, Goto, TypeOK, PlaceInv, Pcs, Jobs, InHand, Deletion,
     Clamping, store, locks, local, history
<1>5. ASSUME NEW c \in Calls, NEW d \in Datasets, DeleteDataset(c, d) PROVE PlaceInv'
  BY <1>5 DEF DeleteDataset, Begin, Goto, TypeOK, PlaceInv, Pcs, Jobs, InHand, Deletion,
     Clamping, store, locks, local, history
<1>6. ASSUME NEW c \in Calls, TakeLock(c) PROVE PlaceInv'
  BY <1>6 DEF TakeLock, Goto, TypeOK, PlaceInv, Pcs, Jobs, InHand, Deletion, Clamping,
     store, locks, local, history
<1>7. ASSUME NEW c \in Calls, ReadSession(c) PROVE PlaceInv'
  BY <1>7 DEF ReadSession, Goto, TypeOK, PlaceInv, Pcs, Jobs, InHand, Deletion, Clamping,
     store, locks, local, history
<1>8. ASSUME NEW c \in Calls, ReadWatermark(c) PROVE PlaceInv'
  BY <1>8 DEF ReadWatermark, Extract, Goto, Unpersisted, FirstUnpersisted, TypeOK,
     PlaceInv, Pcs, Jobs, InHand, Deletion, Clamping, store, locks, local, history
<1>9. ASSUME NEW c \in Calls, ReadWatermarkFails(c) PROVE PlaceInv'
  BY <1>9 DEF ReadWatermarkFails, Extract, Goto, Unpersisted, FirstUnpersisted, TypeOK,
     PlaceInv, Pcs, Jobs, InHand, Deletion, Clamping, store, locks, local, history
<1>10. ASSUME NEW c \in Calls, AddWindow(c) PROVE PlaceInv'
  BY <1>10 DEF AddWindow, Goto, TypeOK, PlaceInv, Pcs, Jobs, InHand, Deletion, Clamping,
     store, locks, local, history
<1>11. ASSUME NEW c \in Calls, Cognify(c) PROVE PlaceInv'
  BY <1>11 DEF Cognify, Goto, TypeOK, PlaceInv, Pcs, Jobs, InHand, Deletion, Clamping,
     store, locks, local, history
<1>12. ASSUME NEW c \in Calls, SaveWatermark(c) PROVE PlaceInv'
  BY <1>12 DEF SaveWatermark, Goto, TypeOK, PlaceInv, Pcs, Jobs, InHand, Deletion,
     Clamping, store, locks, local, history
<1>13. ASSUME NEW c \in Calls, ForgetContext(c) PROVE PlaceInv'
  BY <1>13 DEF ForgetContext, Goto, TypeOK, PlaceInv, Pcs, Jobs, InHand, Deletion,
     Clamping, store, locks, local, history
<1>14. ASSUME NEW c \in Calls, DropSession(c) PROVE PlaceInv'
  BY <1>14 DEF DropSession, Goto, TypeOK, PlaceInv, Pcs, Jobs, InHand, Deletion, Clamping,
     store, locks, local, history
<1>15. ASSUME NEW c \in Calls, Match(c) PROVE PlaceInv'
  BY <1>15 DEF Match, Goto, TypeOK, PlaceInv, Pcs, Jobs, InHand, Deletion, Clamping, store,
     locks, local, history
<1>16. ASSUME NEW c \in Calls, DeleteTurn(c) PROVE PlaceInv'
  BY <1>16 DEF DeleteTurn, Goto, TypeOK, PlaceInv, Pcs, Jobs, InHand, Deletion, Clamping,
     store, locks, local, history
<1>17. ASSUME NEW c \in Calls, EnterClamp(c) PROVE PlaceInv'
  BY <1>17 DEF EnterClamp, Goto, TypeOK, PlaceInv, Pcs, Jobs, InHand, Deletion, Clamping,
     store, locks, local, history
<1>18. ASSUME NEW c \in Calls, CountSurvivors(c) PROVE PlaceInv'
  BY <1>18 DEF CountSurvivors, Goto, TypeOK, PlaceInv, Pcs, Jobs, InHand, Deletion,
     Clamping, store, locks, local, history
<1>19. ASSUME NEW c \in Calls, Weigh(c) PROVE PlaceInv'
  <2>1. PICK p \in {"lower", "leave"} : pc' = [pc EXCEPT ![c] = p]
    BY <1>19 DEF Weigh, Goto
  <2>2. pc[c] = "weigh" /\ UNCHANGED <<job, ds, home>>
    BY <1>19 DEF Weigh, store
  <2> QED
    BY <2>1, <2>2 DEF TypeOK, PlaceInv, InHand, Deletion, Clamping
<1>20. ASSUME NEW c \in Calls, Lower(c) PROVE PlaceInv'
  BY <1>20 DEF Lower, Goto, TypeOK, PlaceInv, Pcs, Jobs, InHand, Deletion, Clamping, store,
     locks, local, history
<1>21. ASSUME NEW c \in Calls, Leave(c) PROVE PlaceInv'
  BY <1>21 DEF Leave, Goto, TypeOK, PlaceInv, Pcs, Jobs, InHand, Deletion, Clamping, store,
     locks, local, history
<1>22. ASSUME NEW c \in Calls, End(c) PROVE PlaceInv'
  BY <1>22 DEF End, Goto, TypeOK, PlaceInv, Pcs, Jobs, InHand, Deletion, Clamping, store,
     locks, local, history
<1>23. ASSUME NEW c \in Calls, Fail(c) PROVE PlaceInv'
  <2>1. PICK p \in {"leave", "drop", "match"} :
            /\ pc' = [pc EXCEPT ![c] = p]
            /\ p = "drop" => pc[c] = "context"
            /\ p = "match" => pc[c] = "drop"
    BY <1>23 DEF Fail, Goto
  <2>2. pc[c] # "idle" /\ UNCHANGED <<job, ds, home>>
    BY <1>23 DEF Fail, store, InHand, Deletion, Clamping
  <2> QED
    BY <2>1, <2>2 DEF TypeOK, PlaceInv, InHand, Deletion, Clamping
<1>24. ASSUME Restart PROVE PlaceInv'
  BY <1>24 DEF Restart, TypeOK, PlaceInv, Pcs, Jobs, InHand, Deletion, Clamping, store,
     locks, local, history
<1>25. CASE UNCHANGED vars
  BY <1>25 DEF vars, TypeOK, PlaceInv, Pcs, Jobs, InHand, Deletion, Clamping, store, locks,
     local, history
<1> QED
  BY <1>1, <1>2, <1>3, <1>4, <1>5, <1>6, <1>7, <1>8, <1>9, <1>10, <1>11, <1>12, <1>13,
     <1>14, <1>15, <1>16, <1>17, <1>18, <1>19, <1>20, <1>21, <1>22, <1>23, <1>24, <1>25 DEF
     Next, Step, Start, Finished

LEMMA LockStep ==
    TypeOK /\ PlaceInv /\ LockInv /\ [Next]_vars => LockInv'
<1> SUFFICES ASSUME TypeOK, PlaceInv, LockInv, [Next]_vars PROVE LockInv'
  OBVIOUS
<1> USE PersistAssumption
<1>1. ASSUME NEW t \in Turns, Ask(t) PROVE LockInv'
  BY <1>1 DEF Ask, TypeOK, PlaceInv, LockInv, InHand, Deletion, Clamping, store, locks,
     local, history
<1>2. ASSUME NEW c \in Calls, NEW d \in Datasets, ImproveOne(c, d) PROVE LockInv'
  <2>1. PICK p \in {"lock", "done"} : pc' = [pc EXCEPT ![c] = p]
    BY <1>2 DEF ImproveOne, Goto
  <2>2. ds' = [ds EXCEPT ![c] = d] /\ UNCHANGED <<locked, updating>>
    BY <1>2 DEF ImproveOne, Begin
  <2> QED
    BY <2>1, <2>2 DEF TypeOK, LockInv, InHand, Deletion, Clamping
<1>3. ASSUME NEW c \in Calls, NEW d \in Datasets, ImproveSeveral(c, d) PROVE LockInv'
  BY <1>3 DEF ImproveSeveral, Begin, Goto, TypeOK, PlaceInv, LockInv, InHand, Deletion,
     Clamping, store, locks, local, history
<1>4. ASSUME NEW c \in Calls, NEW d \in Datasets, DeleteDocument(c, d) PROVE LockInv'
  BY <1>4 DEF DeleteDocument, Begin, Goto, TypeOK, PlaceInv, LockInv, InHand, Deletion,
     Clamping, store, locks, local, history
<1>5. ASSUME NEW c \in Calls, NEW d \in Datasets, DeleteDataset(c, d) PROVE LockInv'
  BY <1>5 DEF DeleteDataset, Begin, Goto, TypeOK, PlaceInv, LockInv, InHand, Deletion,
     Clamping, store, locks, local, history
<1>6. ASSUME NEW c \in Calls, TakeLock(c) PROVE LockInv'
  <2>1. PICK p \in {"extract", "context", "match"} : pc' = [pc EXCEPT ![c] = p]
    BY <1>6 DEF TakeLock, Goto
  <2>2. /\ locked[ds[c]] = NoCall /\ locked' = [locked EXCEPT ![ds[c]] = c]
        /\ ds[c] \in Datasets /\ UNCHANGED <<ds, updating>>
    BY <1>6 DEF TakeLock, PlaceInv
  <2>3. locked'[ds[c]] = c
    BY <2>2 DEF TypeOK
  <2>4. ASSUME NEW e \in Calls, e # c, locked[ds[e]] = e PROVE locked'[ds[e]] = e
    BY <2>2, <2>4 DEF TypeOK
  <2> QED
    BY <2>1, <2>2, <2>3, <2>4 DEF TypeOK, LockInv, InHand, Deletion, Clamping
<1>7. ASSUME NEW c \in Calls, ReadSession(c) PROVE LockInv'
  BY <1>7 DEF ReadSession, Goto, TypeOK, PlaceInv, LockInv, InHand, Deletion, Clamping,
     store, locks, local, history
<1>8. ASSUME NEW c \in Calls, ReadWatermark(c) PROVE LockInv'
  BY <1>8 DEF ReadWatermark, Extract, Goto, Unpersisted, FirstUnpersisted, TypeOK,
     PlaceInv, LockInv, InHand, Deletion, Clamping, store, locks, local, history
<1>9. ASSUME NEW c \in Calls, ReadWatermarkFails(c) PROVE LockInv'
  BY <1>9 DEF ReadWatermarkFails, Extract, Goto, Unpersisted, FirstUnpersisted, TypeOK,
     PlaceInv, LockInv, InHand, Deletion, Clamping, store, locks, local, history
<1>10. ASSUME NEW c \in Calls, AddWindow(c) PROVE LockInv'
  BY <1>10 DEF AddWindow, Goto, TypeOK, PlaceInv, LockInv, InHand, Deletion, Clamping,
     store, locks, local, history
<1>11. ASSUME NEW c \in Calls, Cognify(c) PROVE LockInv'
  BY <1>11 DEF Cognify, Goto, TypeOK, PlaceInv, LockInv, InHand, Deletion, Clamping, store,
     locks, local, history
<1>12. ASSUME NEW c \in Calls, SaveWatermark(c) PROVE LockInv'
  BY <1>12 DEF SaveWatermark, Goto, TypeOK, PlaceInv, LockInv, InHand, Deletion, Clamping,
     store, locks, local, history
<1>13. ASSUME NEW c \in Calls, ForgetContext(c) PROVE LockInv'
  BY <1>13 DEF ForgetContext, Goto, TypeOK, PlaceInv, LockInv, InHand, Deletion, Clamping,
     store, locks, local, history
<1>14. ASSUME NEW c \in Calls, DropSession(c) PROVE LockInv'
  BY <1>14 DEF DropSession, Goto, TypeOK, PlaceInv, LockInv, InHand, Deletion, Clamping,
     store, locks, local, history
<1>15. ASSUME NEW c \in Calls, Match(c) PROVE LockInv'
  <2>1. PICK p \in {"leave", "delete"} : pc' = [pc EXCEPT ![c] = p]
    BY <1>15 DEF Match, Goto
  <2>2. pc[c] = "match" /\ UNCHANGED <<ds, locked, updating>>
    BY <1>15 DEF Match, locks
  <2> QED
    BY <2>1, <2>2 DEF TypeOK, LockInv, InHand, Deletion, Clamping
<1>16. ASSUME NEW c \in Calls, DeleteTurn(c) PROVE LockInv'
  BY <1>16 DEF DeleteTurn, Goto, TypeOK, PlaceInv, LockInv, InHand, Deletion, Clamping,
     store, locks, local, history
<1>17. ASSUME NEW c \in Calls, EnterClamp(c) PROVE LockInv'
  BY <1>17 DEF EnterClamp, Goto, TypeOK, PlaceInv, LockInv, InHand, Deletion, Clamping,
     store, locks, local, history
<1>18. ASSUME NEW c \in Calls, CountSurvivors(c) PROVE LockInv'
  BY <1>18 DEF CountSurvivors, Goto, TypeOK, PlaceInv, LockInv, InHand, Deletion, Clamping,
     store, locks, local, history
<1>19. ASSUME NEW c \in Calls, Weigh(c) PROVE LockInv'
  <2>1. CASE pc' = [pc EXCEPT ![c] = "lower"] /\ UNCHANGED updating
    BY <1>19, <2>1 DEF Weigh, TypeOK, LockInv, InHand, Deletion, Clamping
  <2>2. CASE pc' = [pc EXCEPT ![c] = "leave"] /\ updating' = NoCall
    <3>1. updating = c /\ UNCHANGED <<ds, locked>>
      BY <1>19 DEF Weigh, LockInv
    <3> QED
      BY <2>2, <3>1 DEF TypeOK, LockInv, InHand, Deletion, Clamping
  <2> QED
    BY <1>19, <2>1, <2>2 DEF Weigh, Goto
<1>20. ASSUME NEW c \in Calls, Lower(c) PROVE LockInv'
  BY <1>20 DEF Lower, Goto, TypeOK, PlaceInv, LockInv, InHand, Deletion, Clamping, store,
     locks, local, history
<1>21. ASSUME NEW c \in Calls, Leave(c) PROVE LockInv'
  BY <1>21 DEF Leave, Goto, TypeOK, PlaceInv, LockInv, InHand, Deletion, Clamping, store,
     locks, local, history
<1>22. ASSUME NEW c \in Calls, End(c) PROVE LockInv'
  BY <1>22 DEF End, Goto, TypeOK, PlaceInv, LockInv, InHand, Deletion, Clamping, store,
     locks, local, history
<1>23. ASSUME NEW c \in Calls, Fail(c) PROVE LockInv'
  <2>1. PICK p \in {"leave", "drop", "match"} :
            /\ pc' = [pc EXCEPT ![c] = p]
            /\ p = "drop" => pc[c] = "context"
            /\ p = "match" => pc[c] = "drop"
    BY <1>23 DEF Fail, Goto
  <2>2. /\ pc[c] # "idle" /\ UNCHANGED <<ds, locked>>
        /\ updating' = IF updating = c THEN NoCall ELSE updating
    BY <1>23 DEF Fail, FreedBy, InHand, Deletion, Clamping
  <2> QED
    BY <2>1, <2>2 DEF TypeOK, LockInv, InHand, Deletion, Clamping
<1>24. ASSUME Restart PROVE LockInv'
  BY <1>24 DEF Restart, TypeOK, PlaceInv, LockInv, InHand, Deletion, Clamping, store,
     locks, local, history
<1>25. CASE UNCHANGED vars
  BY <1>25 DEF vars, TypeOK, PlaceInv, LockInv, InHand, Deletion, Clamping, store, locks,
     local, history
<1> QED
  BY <1>1, <1>2, <1>3, <1>4, <1>5, <1>6, <1>7, <1>8, <1>9, <1>10, <1>11, <1>12, <1>13,
     <1>14, <1>15, <1>16, <1>17, <1>18, <1>19, <1>20, <1>21, <1>22, <1>23, <1>24, <1>25 DEF
     Next, Step, Start, Finished

LEMMA GoneStep ==
    TypeOK /\ GoneInv /\ [Next]_vars => GoneInv'
<1> SUFFICES ASSUME TypeOK, GoneInv, [Next]_vars PROVE GoneInv'
  OBVIOUS
<1> USE PersistAssumption
<1>1. ASSUME NEW t \in Turns, Ask(t) PROVE GoneInv'
  BY <1>1 DEF Ask, TypeOK, GoneInv, InHand, Deletion, Clamping, store, locks, local,
     history
<1>2. ASSUME NEW c \in Calls, NEW d \in Datasets, ImproveOne(c, d) PROVE GoneInv'
  BY <1>2 DEF ImproveOne, Begin, Goto, TypeOK, GoneInv, InHand, Deletion, Clamping, store,
     locks, local, history
<1>3. ASSUME NEW c \in Calls, NEW d \in Datasets, ImproveSeveral(c, d) PROVE GoneInv'
  BY <1>3 DEF ImproveSeveral, Begin, Goto, TypeOK, GoneInv, InHand, Deletion, Clamping,
     store, locks, local, history
<1>4. ASSUME NEW c \in Calls, NEW d \in Datasets, DeleteDocument(c, d) PROVE GoneInv'
  BY <1>4 DEF DeleteDocument, Begin, Goto, TypeOK, GoneInv, InHand, Deletion, Clamping,
     store, locks, local, history
<1>5. ASSUME NEW c \in Calls, NEW d \in Datasets, DeleteDataset(c, d) PROVE GoneInv'
  BY <1>5 DEF DeleteDataset, Begin, Goto, TypeOK, GoneInv, InHand, Deletion, Clamping,
     store, locks, local, history
<1>6. ASSUME NEW c \in Calls, TakeLock(c) PROVE GoneInv'
  BY <1>6 DEF TakeLock, Goto, TypeOK, GoneInv, InHand, Deletion, Clamping, store, locks,
     local, history
<1>7. ASSUME NEW c \in Calls, ReadSession(c) PROVE GoneInv'
  BY <1>7 DEF ReadSession, Goto, TypeOK, GoneInv, InHand, Deletion, Clamping, store, locks,
     local, history
<1>8. ASSUME NEW c \in Calls, ReadWatermark(c) PROVE GoneInv'
  BY <1>8 DEF ReadWatermark, Extract, Goto, Unpersisted, FirstUnpersisted, TypeOK, GoneInv,
     InHand, Deletion, Clamping, store, locks, local, history
<1>9. ASSUME NEW c \in Calls, ReadWatermarkFails(c) PROVE GoneInv'
  BY <1>9 DEF ReadWatermarkFails, Extract, Goto, Unpersisted, FirstUnpersisted, TypeOK,
     GoneInv, InHand, Deletion, Clamping, store, locks, local, history
<1>10. ASSUME NEW c \in Calls, AddWindow(c) PROVE GoneInv'
  BY <1>10 DEF AddWindow, Goto, TypeOK, GoneInv, InHand, Deletion, Clamping, store, locks,
     local, history
<1>11. ASSUME NEW c \in Calls, Cognify(c) PROVE GoneInv'
  BY <1>11 DEF Cognify, Goto, TypeOK, GoneInv, InHand, Deletion, Clamping, store, locks,
     local, history
<1>12. ASSUME NEW c \in Calls, SaveWatermark(c) PROVE GoneInv'
  BY <1>12 DEF SaveWatermark, Goto, TypeOK, GoneInv, InHand, Deletion, Clamping, store,
     locks, local, history
<1>13. ASSUME NEW c \in Calls, ForgetContext(c) PROVE GoneInv'
  BY <1>13 DEF ForgetContext, Goto, TypeOK, GoneInv, InHand, Deletion, Clamping, store,
     locks, local, history
<1>14. ASSUME NEW c \in Calls, DropSession(c) PROVE GoneInv'
  BY <1>14 DEF DropSession, Goto, TypeOK, GoneInv, InHand, Deletion, Clamping, store,
     locks, local, history
<1>15. ASSUME NEW c \in Calls, Match(c) PROVE GoneInv'
  BY <1>15 DEF Match, Goto, TypeOK, GoneInv, InHand, Deletion, Clamping, store, locks,
     local, history
<1>16. ASSUME NEW c \in Calls, DeleteTurn(c) PROVE GoneInv'
  BY <1>16 DEF DeleteTurn, Goto, TypeOK, GoneInv, InHand, Deletion, Clamping, store, locks,
     local, history
<1>17. ASSUME NEW c \in Calls, EnterClamp(c) PROVE GoneInv'
  BY <1>17 DEF EnterClamp, Goto, TypeOK, GoneInv, InHand, Deletion, Clamping, store, locks,
     local, history
<1>18. ASSUME NEW c \in Calls, CountSurvivors(c) PROVE GoneInv'
  BY <1>18 DEF CountSurvivors, Goto, TypeOK, GoneInv, InHand, Deletion, Clamping, store,
     locks, local, history
<1>19. ASSUME NEW c \in Calls, Weigh(c) PROVE GoneInv'
  BY <1>19 DEF Weigh, Goto, TypeOK, GoneInv, InHand, Deletion, Clamping, store, locks,
     local, history
<1>20. ASSUME NEW c \in Calls, Lower(c) PROVE GoneInv'
  BY <1>20 DEF Lower, Goto, TypeOK, GoneInv, InHand, Deletion, Clamping, store, locks,
     local, history
<1>21. ASSUME NEW c \in Calls, Leave(c) PROVE GoneInv'
  BY <1>21 DEF Leave, Goto, TypeOK, GoneInv, InHand, Deletion, Clamping, store, locks,
     local, history
<1>22. ASSUME NEW c \in Calls, End(c) PROVE GoneInv'
  BY <1>22 DEF End, Goto, TypeOK, GoneInv, InHand, Deletion, Clamping, store, locks, local,
     history
<1>23. ASSUME NEW c \in Calls, Fail(c) PROVE GoneInv'
  BY <1>23 DEF Fail, FreedBy, Goto, TypeOK, GoneInv, InHand, Deletion, Clamping, store,
     locks, local, history
<1>24. ASSUME Restart PROVE GoneInv'
  BY <1>24 DEF Restart, TypeOK, GoneInv, InHand, Deletion, Clamping, store, locks, local,
     history
<1>25. CASE UNCHANGED vars
  BY <1>25 DEF vars, TypeOK, GoneInv, InHand, Deletion, Clamping, store, locks, local,
     history
<1> QED
  BY <1>1, <1>2, <1>3, <1>4, <1>5, <1>6, <1>7, <1>8, <1>9, <1>10, <1>11, <1>12, <1>13,
     <1>14, <1>15, <1>16, <1>17, <1>18, <1>19, <1>20, <1>21, <1>22, <1>23, <1>24, <1>25 DEF
     Next, Step, Start, Finished

-----------------------------------------------------------------------------
LEMMA KeepFrame ==
  ASSUME KeepInv, UNCHANGED <<session, watermark, added, graph, gone>>,
         \A e \in Calls : pc'[e] \in InHand =>
             /\ pc'[e] = pc[e] /\ read'[e] = read[e]
             /\ window'[e] = window[e] /\ ds'[e] = ds[e]
  PROVE  KeepInv'
BY DEF KeepInv, CountedArePersisted, Persisted, IsPrefix, InHand

(* The window starts behind the turns that are known to be persisted. *)
LEMMA KeepExtract ==
  ASSUME TypeOK, KeepInv, gone = {}, NEW c \in Calls, NEW n \in Nat, n \in {0, watermark},
         Extract(c, n)
  PROVE  KeepInv'
<1>1. PICK p \in {"leave", "add"} : pc' = [pc EXCEPT ![c] = p]
  BY DEF Extract, Goto
<1>2. /\ pc[c] = "compare" /\ window' = [window EXCEPT ![c] = Unpersisted(c, n)]
      /\ UNCHANGED <<session, watermark, added, graph, gone, read, ds>>
  BY DEF Extract, store
<1>3. IsPrefix(read[c], session)
  BY <1>2 DEF KeepInv, InHand
<1>4. \A i \in 1..Len(read[c]) : read[c][i] \in Unpersisted(c, n) \cup Persisted
  <2> SUFFICES ASSUME NEW i \in 1..Len(read[c]), read[c][i] \notin Unpersisted(c, n)
               PROVE  read[c][i] \in Persisted
    OBVIOUS
  <2>1. Len(read[c]) \in Nat /\ Len(session) \in Nat /\ watermark \in Nat
    BY DEF TypeOK
  <2>2. i < FirstUnpersisted(n, Len(read[c]))
    BY <2>1 DEF Unpersisted, FirstUnpersisted
  <2>3. i <= watermark
    BY <2>1, <2>2 DEF FirstUnpersisted
  <2> QED
    BY <1>3, <2>1, <2>3 DEF IsPrefix, KeepInv, CountedArePersisted
<1>5. CountedArePersisted' /\ watermark' <= Len(session')
  BY <1>2 DEF KeepInv, CountedArePersisted, Persisted
<1>6. window'[c] = Unpersisted(c, n)
  BY <1>2 DEF TypeOK
<1> QED
  BY <1>1, <1>2, <1>3, <1>4, <1>5, <1>6 DEF KeepInv, TypeOK, InHand, Persisted

LEMMA KeepStep ==
    TypeOK /\ PlaceInv /\ GoneInv /\ KeepInv /\ [Next]_vars => KeepInv'
<1> SUFFICES ASSUME TypeOK, PlaceInv, GoneInv, KeepInv, [Next]_vars PROVE KeepInv'
  OBVIOUS
<1> USE PersistAssumption
<1>1. ASSUME NEW t \in Turns, Ask(t) PROVE KeepInv'
  <2> SUFFICES ASSUME gone = {} PROVE KeepInv'
    BY <1>1 DEF Ask, KeepInv, history
  <2>1. /\ Len(session') = Len(session) + 1
        /\ \A i \in 1..Len(session) : session'[i] = session[i]
    BY <1>1, AppendProperties DEF Ask, TypeOK
  <2>2. UNCHANGED <<watermark, added, graph, gone, pc, read, window, ds>>
    BY <1>1 DEF Ask, local, history
  <2>3. Len(session) \in Nat /\ \A e \in Calls : Len(read[e]) \in Nat
    BY DEF TypeOK
  <2>4. CountedArePersisted' /\ watermark' <= Len(session')
    <3>1. watermark <= Len(session) /\ watermark \in Nat
      BY DEF KeepInv, TypeOK
    <3>2. Persisted' = Persisted
      BY <2>2 DEF Persisted
    <3>3. ASSUME NEW i \in 1..Len(session'), i <= watermark PROVE session'[i] \in Persisted
      BY <2>1, <2>3, <3>1, <3>3 DEF KeepInv, CountedArePersisted
    <3> QED
      BY <2>1, <2>2, <2>3, <3>1, <3>2, <3>3 DEF CountedArePersisted
  <2>5. \A e \in Calls : pc[e] \in InHand => IsPrefix(read[e], session')
    BY <2>1, <2>3 DEF KeepInv, IsPrefix
  <2> QED
    BY <2>2, <2>4, <2>5 DEF KeepInv, Persisted
<1>2. ASSUME NEW c \in Calls, NEW d \in Datasets, ImproveOne(c, d) PROVE KeepInv'
  <2>1. PICK p \in {"lock", "done"} : pc' = [pc EXCEPT ![c] = p]
    BY <1>2 DEF ImproveOne, Begin, Goto
  <2>2. ds' = [ds EXCEPT ![c] = d] /\ UNCHANGED <<read, window>>
    BY <1>2 DEF ImproveOne, Begin, Goto
  <2>3. \A e \in Calls : pc'[e] \in InHand =>
            /\ pc'[e] = pc[e] /\ read'[e] = read[e]
            /\ window'[e] = window[e] /\ ds'[e] = ds[e]
    BY <2>1, <2>2 DEF TypeOK, InHand
  <2> QED
    BY <1>2, <2>3, KeepFrame DEF ImproveOne, Begin, Goto, store, history
<1>3. ASSUME NEW c \in Calls, NEW d \in Datasets, ImproveSeveral(c, d) PROVE KeepInv'
  <2>1. PICK p \in {"lock"} : pc' = [pc EXCEPT ![c] = p]
    BY <1>3 DEF ImproveSeveral, Begin, Goto
  <2>2. ds' = [ds EXCEPT ![c] = d] /\ UNCHANGED <<read, window>>
    BY <1>3 DEF ImproveSeveral, Begin, Goto
  <2>3. \A e \in Calls : pc'[e] \in InHand =>
            /\ pc'[e] = pc[e] /\ read'[e] = read[e]
            /\ window'[e] = window[e] /\ ds'[e] = ds[e]
    BY <2>1, <2>2 DEF TypeOK, InHand
  <2> QED
    BY <1>3, <2>3, KeepFrame DEF ImproveSeveral, Begin, Goto, store, history
<1>4. ASSUME NEW c \in Calls, NEW d \in Datasets, DeleteDocument(c, d) PROVE KeepInv'
  <2>1. PICK p \in {"lock"} : pc' = [pc EXCEPT ![c] = p]
    BY <1>4 DEF DeleteDocument, Begin, Goto
  <2>2. ds' = [ds EXCEPT ![c] = d] /\ UNCHANGED <<read, window>>
    BY <1>4 DEF DeleteDocument, Begin, Goto
  <2>3. \A e \in Calls : pc'[e] \in InHand =>
            /\ pc'[e] = pc[e] /\ read'[e] = read[e]
            /\ window'[e] = window[e] /\ ds'[e] = ds[e]
    BY <2>1, <2>2 DEF TypeOK, InHand
  <2> QED
    BY <1>4, <2>3, KeepFrame DEF DeleteDocument, Begin, Goto, store, history
<1>5. ASSUME NEW c \in Calls, NEW d \in Datasets, DeleteDataset(c, d) PROVE KeepInv'
  <2>1. PICK p \in {"lock"} : pc' = [pc EXCEPT ![c] = p]
    BY <1>5 DEF DeleteDataset, Begin, Goto
  <2>2. ds' = [ds EXCEPT ![c] = d] /\ UNCHANGED <<read, window>>
    BY <1>5 DEF DeleteDataset, Begin, Goto
  <2>3. \A e \in Calls : pc'[e] \in InHand =>
            /\ pc'[e] = pc[e] /\ read'[e] = read[e]
            /\ window'[e] = window[e] /\ ds'[e] = ds[e]
    BY <2>1, <2>2 DEF TypeOK, InHand
  <2> QED
    BY <1>5, <2>3, KeepFrame DEF DeleteDataset, Begin, Goto, store, history
<1>6. ASSUME NEW c \in Calls, TakeLock(c) PROVE KeepInv'
  <2>1. PICK p \in {"extract", "context", "match"} : pc' = [pc EXCEPT ![c] = p]
    BY <1>6 DEF TakeLock, Goto
  <2>2. UNCHANGED <<read, window, ds>>
    BY <1>6 DEF TakeLock, Goto
  <2>3. \A e \in Calls : pc'[e] \in InHand =>
            /\ pc'[e] = pc[e] /\ read'[e] = read[e]
            /\ window'[e] = window[e] /\ ds'[e] = ds[e]
    BY <2>1, <2>2 DEF TypeOK, InHand
  <2> QED
    BY <1>6, <2>3, KeepFrame DEF TakeLock, Goto, store, history
<1>7. ASSUME NEW c \in Calls, ReadSession(c) PROVE KeepInv'
  <2> SUFFICES ASSUME gone = {} PROVE KeepInv'
    BY <1>7 DEF ReadSession, KeepInv, history
  <2>1. PICK p \in {"leave", "compare"} : pc' = [pc EXCEPT ![c] = p]
    BY <1>7 DEF ReadSession, Goto
  <2>2. /\ read' = [read EXCEPT ![c] = session]
        /\ UNCHANGED <<session, watermark, added, graph, gone, window, ds>>
    BY <1>7 DEF ReadSession, store, history
  <2>3. CountedArePersisted' /\ watermark' <= Len(session')
    BY <2>2 DEF KeepInv, CountedArePersisted, Persisted
  <2>4. IsPrefix(session, session)
    BY DEF IsPrefix, TypeOK
  <2> QED
    BY <2>1, <2>2, <2>3, <2>4 DEF KeepInv, TypeOK, InHand, Persisted
<1>8. ASSUME NEW c \in Calls, ReadWatermark(c) PROVE KeepInv'
  <2> SUFFICES ASSUME gone = {} PROVE KeepInv'
    BY <1>8 DEF ReadWatermark, Extract, KeepInv
  <2>1. PICK n \in {0, watermark} : Extract(c, n)
    BY <1>8 DEF ReadWatermark
  <2> QED
    BY <2>1, KeepExtract DEF TypeOK
<1>9. ASSUME NEW c \in Calls, ReadWatermarkFails(c) PROVE KeepInv'
  <2> SUFFICES ASSUME gone = {} PROVE KeepInv'
    BY <1>9 DEF ReadWatermarkFails, Extract, KeepInv
  <2>1. PICK n \in {0, watermark} : Extract(c, n)
    BY <1>9 DEF ReadWatermarkFails
  <2> QED
    BY <2>1, KeepExtract DEF TypeOK
<1>10. ASSUME NEW c \in Calls, AddWindow(c) PROVE KeepInv'
  <2> SUFFICES ASSUME gone = {} PROVE KeepInv'
    BY <1>10 DEF AddWindow, KeepInv, history
  <2>1. /\ pc[c] = "add" /\ pc' = [pc EXCEPT ![c] = "cognify"]
        /\ added' = [added EXCEPT ![ds[c]] = @ \cup ({window[c]} \ graph[ds[c]])]
        /\ UNCHANGED <<session, watermark, graph, gone, read, window, ds>>
    BY <1>10 DEF AddWindow, Goto, history
  <2>2. ds[c] \in Datasets
    BY <2>1 DEF PlaceInv
  <2>3. \A d \in Datasets : added[d] \subseteq added'[d]
    BY <2>1, <2>2 DEF TypeOK
  <2>4. window[c] \in added'[ds[c]] \cup graph[ds[c]]
    BY <2>1, <2>2 DEF TypeOK
  <2>5. \A e \in Calls : pc'[e] = "cognify" => window'[e] \in added'[ds'[e]] \cup graph'[ds'[e]]
    <3> SUFFICES ASSUME NEW e \in Calls, pc'[e] = "cognify"
                 PROVE  window'[e] \in added'[ds'[e]] \cup graph'[ds'[e]]
      OBVIOUS
    <3>1. CASE e = c
      BY <3>1, <2>1, <2>4
    <3>2. CASE e # c
      <4>1. pc[e] = "cognify" /\ ds[e] \in Datasets
        BY <3>2, <2>1 DEF TypeOK, PlaceInv
      <4> QED
        BY <4>1, <2>1, <2>3 DEF KeepInv
    <3> QED
      BY <3>1, <3>2
  <2>6. CountedArePersisted' /\ watermark' <= Len(session')
    BY <2>1 DEF KeepInv, CountedArePersisted, Persisted
  <2> QED
    BY <2>1, <2>5, <2>6 DEF KeepInv, Persisted, TypeOK, InHand
<1>11. ASSUME NEW c \in Calls, Cognify(c) PROVE KeepInv'
  <2> SUFFICES ASSUME gone = {} PROVE KeepInv'
    BY <1>11 DEF Cognify, KeepInv, history
  <2>1. /\ pc[c] = "cognify" /\ pc' = [pc EXCEPT ![c] = "save"]
        /\ graph' = [graph EXCEPT ![ds[c]] = @ \cup added[ds[c]]]
        /\ added' = [added EXCEPT ![ds[c]] = {}]
        /\ UNCHANGED <<session, watermark, gone, read, window, ds>>
    BY <1>11 DEF Cognify, Goto, history
  <2>2. ds[c] \in Datasets
    BY <2>1 DEF PlaceInv
  <2>3. \A d \in Datasets : /\ graph[d] \subseteq graph'[d]
                             /\ added[d] \cup graph[d] = added'[d] \cup graph'[d]
    BY <2>1, <2>2 DEF TypeOK
  <2>4. Persisted \subseteq Persisted'
    BY <2>3 DEF Persisted
  <2>5. window[c] \in graph'[ds[c]]
    BY <2>1, <2>2 DEF KeepInv, TypeOK
  <2>6. window[c] \subseteq Persisted'
    BY <2>2, <2>5 DEF Persisted
  <2>7. CountedArePersisted' /\ watermark' <= Len(session')
    BY <2>1, <2>4 DEF KeepInv, CountedArePersisted
  <2>8. \A e \in Calls : pc'[e] \in InHand => IsPrefix(read'[e], session')
    BY <2>1 DEF KeepInv, TypeOK, InHand
  <2>9. \A e \in Calls : pc'[e] \in {"add", "cognify"} =>
            \A i \in 1..Len(read'[e]) : read'[e][i] \in window'[e] \cup Persisted'
    BY <2>1, <2>4 DEF KeepInv, TypeOK
  <2>10. \A e \in Calls : pc'[e] = "cognify" => window'[e] \in added'[ds'[e]] \cup graph'[ds'[e]]
    <3> SUFFICES ASSUME NEW e \in Calls, pc'[e] = "cognify"
                 PROVE  window'[e] \in added'[ds'[e]] \cup graph'[ds'[e]]
      OBVIOUS
    <3>1. pc[e] = "cognify" /\ ds[e] \in Datasets
      BY <2>1 DEF TypeOK, PlaceInv
    <3> QED
      BY <3>1, <2>1, <2>3 DEF KeepInv
  <2>11. \A e \in Calls : pc'[e] = "save" =>
            \A i \in 1..Len(read'[e]) : read'[e][i] \in Persisted'
    BY <2>1, <2>4, <2>6 DEF KeepInv, TypeOK
  <2> QED
    BY <2>7, <2>8, <2>9, <2>10, <2>11 DEF KeepInv
<1>12. ASSUME NEW c \in Calls, SaveWatermark(c) PROVE KeepInv'
  <2> SUFFICES ASSUME gone = {} PROVE KeepInv'
    BY <1>12 DEF SaveWatermark, KeepInv, history
  <2>1. /\ pc[c] = "save" /\ pc' = [pc EXCEPT ![c] = "leave"] /\ watermark' = Len(read[c])
        /\ UNCHANGED <<session, added, graph, gone, read, window, ds>>
    BY <1>12 DEF SaveWatermark, Goto, history
  <2>2. IsPrefix(read[c], session) /\ \A i \in 1..Len(read[c]) : read[c][i] \in Persisted
    BY <2>1 DEF KeepInv, InHand
  <2>3. Len(read[c]) \in Nat /\ Len(session) \in Nat
    BY DEF TypeOK
  <2>4. CountedArePersisted' /\ watermark' <= Len(session')
    BY <2>1, <2>2, <2>3 DEF IsPrefix, CountedArePersisted, Persisted
  <2> QED
    BY <2>1, <2>4 DEF KeepInv, Persisted, TypeOK, InHand
<1>13. ASSUME NEW c \in Calls, ForgetContext(c) PROVE KeepInv'
  <2> SUFFICES ASSUME gone = {} PROVE KeepInv'
    BY <1>13 DEF ForgetContext, KeepInv, history
  <2>1. /\ pc' = [pc EXCEPT ![c] = "drop"] /\ watermark' = 0
        /\ UNCHANGED <<session, added, graph, gone, read, window, ds>>
    BY <1>13 DEF ForgetContext, Goto, history
  <2>2. CountedArePersisted' /\ watermark' <= Len(session')
    BY <2>1 DEF CountedArePersisted, TypeOK
  <2> QED
    BY <2>1, <2>2 DEF KeepInv, Persisted, TypeOK, InHand
<1>14. ASSUME NEW c \in Calls, DropSession(c) PROVE KeepInv'
  <2> SUFFICES ASSUME gone' = {} PROVE KeepInv'
    BY DEF KeepInv
  <2>1. /\ pc' = [pc EXCEPT ![c] = "match"] /\ watermark' = 0 /\ session' = <<>>
        /\ gone' = gone \cup Members(session)
        /\ UNCHANGED <<added, graph, read, window, ds>>
    BY <1>14 DEF DropSession, Goto
  <2>2. gone = {} /\ Members(session) = {}
    BY <2>1
  <2>3. Len(session) = 0
    <3>1. Len(session) \in Nat
      BY DEF TypeOK
    <3>2. 1 \notin 1..Len(session)
      BY <2>2 DEF Members
    <3> QED
      BY <3>1, <3>2
  <2>4. session' = session
    BY <2>1, <2>3 DEF TypeOK
  <2>5. CountedArePersisted' /\ watermark' <= Len(session')
    BY <2>1, <2>3, <2>4 DEF CountedArePersisted
  <2> QED
    BY <2>1, <2>2, <2>4, <2>5 DEF KeepInv, Persisted, TypeOK, InHand
<1>15. ASSUME NEW c \in Calls, Match(c) PROVE KeepInv'
  <2>1. PICK p \in {"leave", "delete"} : pc' = [pc EXCEPT ![c] = p]
    BY <1>15 DEF Match, Goto
  <2>2. UNCHANGED <<read, window, ds>>
    BY <1>15 DEF Match, Goto
  <2>3. \A e \in Calls : pc'[e] \in InHand =>
            /\ pc'[e] = pc[e] /\ read'[e] = read[e]
            /\ window'[e] = window[e] /\ ds'[e] = ds[e]
    BY <2>1, <2>2 DEF TypeOK, InHand
  <2> QED
    BY <1>15, <2>3, KeepFrame DEF Match, Goto, store, history
<1>16. ASSUME NEW c \in Calls, DeleteTurn(c) PROVE KeepInv'
  <2> SUFFICES ASSUME gone' = {} PROVE KeepInv'
    BY DEF KeepInv
  <2>1. UNCHANGED <<session, gone>>
    BY <1>16 DEF DeleteTurn
  <2>2. PICK p \in {"delete", "clamp", "leave"} : pc' = [pc EXCEPT ![c] = p]
    BY <1>16 DEF DeleteTurn, Goto
  <2>3. UNCHANGED <<watermark, added, graph, read, window, ds>>
    BY <1>16 DEF DeleteTurn
  <2>4. \A e \in Calls : pc'[e] \in InHand =>
            /\ pc'[e] = pc[e] /\ read'[e] = read[e]
            /\ window'[e] = window[e] /\ ds'[e] = ds[e]
    BY <2>2, <2>3 DEF TypeOK, InHand
  <2> QED
    BY <2>1, <2>3, <2>4, KeepFrame
<1>17. ASSUME NEW c \in Calls, EnterClamp(c) PROVE KeepInv'
  <2>1. PICK p \in {"count"} : pc' = [pc EXCEPT ![c] = p]
    BY <1>17 DEF EnterClamp, Goto
  <2>2. UNCHANGED <<read, window, ds>>
    BY <1>17 DEF EnterClamp, Goto
  <2>3. \A e \in Calls : pc'[e] \in InHand =>
            /\ pc'[e] = pc[e] /\ read'[e] = read[e]
            /\ window'[e] = window[e] /\ ds'[e] = ds[e]
    BY <2>1, <2>2 DEF TypeOK, InHand
  <2> QED
    BY <1>17, <2>3, KeepFrame DEF EnterClamp, Goto, store, history
<1>18. ASSUME NEW c \in Calls, CountSurvivors(c) PROVE KeepInv'
  <2>1. PICK p \in {"weigh"} : pc' = [pc EXCEPT ![c] = p]
    BY <1>18 DEF CountSurvivors, Goto
  <2>2. read' = [read EXCEPT ![c] = session] /\ UNCHANGED <<window, ds>>
    BY <1>18 DEF CountSurvivors, Goto
  <2>3. \A e \in Calls : pc'[e] \in InHand =>
            /\ pc'[e] = pc[e] /\ read'[e] = read[e]
            /\ window'[e] = window[e] /\ ds'[e] = ds[e]
    BY <2>1, <2>2 DEF TypeOK, InHand
  <2> QED
    BY <1>18, <2>3, KeepFrame DEF CountSurvivors, Goto, store, history
<1>19. ASSUME NEW c \in Calls, Weigh(c) PROVE KeepInv'
  <2>1. PICK p \in {"lower", "leave"} : pc' = [pc EXCEPT ![c] = p]
    BY <1>19 DEF Weigh, Goto
  <2>2. UNCHANGED <<read, window, ds>>
    BY <1>19 DEF Weigh, Goto
  <2>3. \A e \in Calls : pc'[e] \in InHand =>
            /\ pc'[e] = pc[e] /\ read'[e] = read[e]
            /\ window'[e] = window[e] /\ ds'[e] = ds[e]
    BY <2>1, <2>2 DEF TypeOK, InHand
  <2> QED
    BY <1>19, <2>3, KeepFrame DEF Weigh, Goto, store, history
<1>20. ASSUME NEW c \in Calls, Lower(c) PROVE KeepInv'
  <2>1. gone # {} /\ gone' = gone
    BY <1>20 DEF Lower, GoneInv, history
  <2> QED
    BY <2>1 DEF KeepInv
<1>21. ASSUME NEW c \in Calls, Leave(c) PROVE KeepInv'
  <2>1. PICK p \in {"rest"} : pc' = [pc EXCEPT ![c] = p]
    BY <1>21 DEF Leave, Goto
  <2>2. read' = [read EXCEPT ![c] = <<>>] /\ window' = [window EXCEPT ![c] = {}] /\ UNCHANGED <<ds>>
    BY <1>21 DEF Leave, Goto
  <2>3. \A e \in Calls : pc'[e] \in InHand =>
            /\ pc'[e] = pc[e] /\ read'[e] = read[e]
            /\ window'[e] = window[e] /\ ds'[e] = ds[e]
    BY <2>1, <2>2 DEF TypeOK, InHand
  <2> QED
    BY <1>21, <2>3, KeepFrame DEF Leave, Goto, store, history
<1>22. ASSUME NEW c \in Calls, End(c) PROVE KeepInv'
  <2>1. PICK p \in {"done"} : pc' = [pc EXCEPT ![c] = p]
    BY <1>22 DEF End, Goto
  <2>2. UNCHANGED <<read, window, ds>>
    BY <1>22 DEF End, Goto
  <2>3. \A e \in Calls : pc'[e] \in InHand =>
            /\ pc'[e] = pc[e] /\ read'[e] = read[e]
            /\ window'[e] = window[e] /\ ds'[e] = ds[e]
    BY <2>1, <2>2 DEF TypeOK, InHand
  <2> QED
    BY <1>22, <2>3, KeepFrame DEF End, Goto, store, history
<1>23. ASSUME NEW c \in Calls, Fail(c) PROVE KeepInv'
  <2>1. PICK p \in {"leave", "drop", "match"} : pc' = [pc EXCEPT ![c] = p]
    BY <1>23 DEF Fail, FreedBy, Goto
  <2>2. UNCHANGED <<read, window, ds>>
    BY <1>23 DEF Fail, FreedBy, Goto
  <2>3. \A e \in Calls : pc'[e] \in InHand =>
            /\ pc'[e] = pc[e] /\ read'[e] = read[e]
            /\ window'[e] = window[e] /\ ds'[e] = ds[e]
    BY <2>1, <2>2 DEF TypeOK, InHand
  <2> QED
    BY <1>23, <2>3, KeepFrame DEF Fail, FreedBy, Goto, store, history
<1>24. ASSUME Restart PROVE KeepInv'
  <2>1. \A e \in Calls : pc'[e] \notin InHand
    BY <1>24 DEF Restart, InHand
  <2> QED
    BY <1>24, <2>1, KeepFrame DEF Restart, store
<1>25. CASE UNCHANGED vars
  BY <1>25 DEF vars, KeepInv, CountedArePersisted, Persisted, IsPrefix, store, locks,
     local, history
<1> QED
  BY <1>1, <1>2, <1>3, <1>4, <1>5, <1>6, <1>7, <1>8, <1>9, <1>10, <1>11, <1>12, <1>13,
     <1>14, <1>15, <1>16, <1>17, <1>18, <1>19, <1>20, <1>21, <1>22, <1>23, <1>24, <1>25 DEF
     Next, Step, Start, Finished

-----------------------------------------------------------------------------
LEMMA FitFrame ==
  ASSUME FitInv, UNCHANGED <<session, watermark>>, crossed => crossed', faults' = 0 => faults = 0,
         \A e \in Calls : pc'[e] \in InHand \cup {"weigh", "lower"} =>
             pc[e] \in InHand \cup {"weigh", "lower"} /\ read'[e] = read[e],
         \A e \in Calls : pc[e] \in Clamping /\ deleted[e] => pc'[e] \in Clamping /\ deleted'[e]
  PROVE  FitInv'
BY DEF FitInv

LEMMA FitStep ==
    TypeOK /\ PlaceInv /\ LockInv /\ GoneInv /\ FitInv /\ [Next]_vars => FitInv'
<1> SUFFICES ASSUME TypeOK, PlaceInv, LockInv, GoneInv, FitInv, [Next]_vars PROVE FitInv'
  OBVIOUS
<1> USE PersistAssumption
<1>1. ASSUME NEW t \in Turns, Ask(t) PROVE FitInv'
  <2>1. Len(session') = Len(session) + 1 /\ Len(session) \in Nat
    BY <1>1, AppendProperties DEF Ask, TypeOK
  <2>2. watermark \in Nat /\ \A e \in Calls : Len(read[e]) \in Nat
    BY DEF TypeOK
  <2> QED
    BY <1>1, <2>1, <2>2 DEF Ask, FitInv, local, history
<1>2. ASSUME NEW c \in Calls, NEW d \in Datasets, ImproveOne(c, d) PROVE FitInv'
  <2>1. PICK p \in {"lock", "done"} : pc' = [pc EXCEPT ![c] = p]
    BY <1>2 DEF ImproveOne, Begin, Goto
  <2>2. pc[c] = "idle" /\ UNCHANGED <<read, deleted>>
    BY <1>2 DEF ImproveOne, Begin, Goto
  <2>3. \A e \in Calls : pc'[e] \in InHand \cup {"weigh", "lower"} =>
            pc[e] \in InHand \cup {"weigh", "lower"} /\ read'[e] = read[e]
    BY <2>1, <2>2 DEF TypeOK, InHand
  <2>4. \A e \in Calls : pc[e] \in Clamping /\ deleted[e] => pc'[e] \in Clamping /\ deleted'[e]
    BY <2>1, <2>2 DEF TypeOK, Clamping
  <2> QED
    BY <1>2, <2>3, <2>4, FitFrame DEF ImproveOne, Begin, Goto, store, history
<1>3. ASSUME NEW c \in Calls, NEW d \in Datasets, ImproveSeveral(c, d) PROVE FitInv'
  <2>1. PICK p \in {"lock"} : pc' = [pc EXCEPT ![c] = p]
    BY <1>3 DEF ImproveSeveral, Begin, Goto
  <2>2. pc[c] = "idle" /\ UNCHANGED <<read, deleted>>
    BY <1>3 DEF ImproveSeveral, Begin, Goto
  <2>3. \A e \in Calls : pc'[e] \in InHand \cup {"weigh", "lower"} =>
            pc[e] \in InHand \cup {"weigh", "lower"} /\ read'[e] = read[e]
    BY <2>1, <2>2 DEF TypeOK, InHand
  <2>4. \A e \in Calls : pc[e] \in Clamping /\ deleted[e] => pc'[e] \in Clamping /\ deleted'[e]
    BY <2>1, <2>2 DEF TypeOK, Clamping
  <2> QED
    BY <1>3, <2>3, <2>4, FitFrame DEF ImproveSeveral, Begin, Goto, store, history
<1>4. ASSUME NEW c \in Calls, NEW d \in Datasets, DeleteDocument(c, d) PROVE FitInv'
  <2>1. PICK p \in {"lock"} : pc' = [pc EXCEPT ![c] = p]
    BY <1>4 DEF DeleteDocument, Begin, Goto
  <2>2. pc[c] = "idle" /\ UNCHANGED <<read, deleted>>
    BY <1>4 DEF DeleteDocument, Begin, Goto
  <2>3. \A e \in Calls : pc'[e] \in InHand \cup {"weigh", "lower"} =>
            pc[e] \in InHand \cup {"weigh", "lower"} /\ read'[e] = read[e]
    BY <2>1, <2>2 DEF TypeOK, InHand
  <2>4. \A e \in Calls : pc[e] \in Clamping /\ deleted[e] => pc'[e] \in Clamping /\ deleted'[e]
    BY <2>1, <2>2 DEF TypeOK, Clamping
  <2> QED
    BY <1>4, <2>3, <2>4, FitFrame DEF DeleteDocument, Begin, Goto, store, history
<1>5. ASSUME NEW c \in Calls, NEW d \in Datasets, DeleteDataset(c, d) PROVE FitInv'
  <2>1. PICK p \in {"lock"} : pc' = [pc EXCEPT ![c] = p]
    BY <1>5 DEF DeleteDataset, Begin, Goto
  <2>2. pc[c] = "idle" /\ UNCHANGED <<read, deleted>>
    BY <1>5 DEF DeleteDataset, Begin, Goto
  <2>3. \A e \in Calls : pc'[e] \in InHand \cup {"weigh", "lower"} =>
            pc[e] \in InHand \cup {"weigh", "lower"} /\ read'[e] = read[e]
    BY <2>1, <2>2 DEF TypeOK, InHand
  <2>4. \A e \in Calls : pc[e] \in Clamping /\ deleted[e] => pc'[e] \in Clamping /\ deleted'[e]
    BY <2>1, <2>2 DEF TypeOK, Clamping
  <2> QED
    BY <1>5, <2>3, <2>4, FitFrame DEF DeleteDataset, Begin, Goto, store, history
<1>6. ASSUME NEW c \in Calls, TakeLock(c) PROVE FitInv'
  <2>1. PICK p \in {"extract", "context", "match"} : pc' = [pc EXCEPT ![c] = p]
    BY <1>6 DEF TakeLock, Goto
  <2>2. pc[c] = "lock" /\ UNCHANGED <<read, deleted>>
    BY <1>6 DEF TakeLock, Goto
  <2>3. \A e \in Calls : pc'[e] \in InHand \cup {"weigh", "lower"} =>
            pc[e] \in InHand \cup {"weigh", "lower"} /\ read'[e] = read[e]
    BY <2>1, <2>2 DEF TypeOK, InHand
  <2>4. \A e \in Calls : pc[e] \in Clamping /\ deleted[e] => pc'[e] \in Clamping /\ deleted'[e]
    BY <2>1, <2>2 DEF TypeOK, Clamping
  <2> QED
    BY <1>6, <2>3, <2>4, FitFrame DEF TakeLock, Goto, store, history
<1>7. ASSUME NEW c \in Calls, ReadSession(c) PROVE FitInv'
  <2>1. PICK p \in {"leave", "compare"} : pc' = [pc EXCEPT ![c] = p]
    BY <1>7 DEF ReadSession, Goto
  <2>2. /\ pc[c] = "extract" /\ read' = [read EXCEPT ![c] = session]
        /\ UNCHANGED <<session, watermark, deleted, crossed, faults>>
    BY <1>7 DEF ReadSession, store, history
  <2>3. Len(session) \in Nat
    BY DEF TypeOK
  <2>4. \A e \in Calls : pc[e] \in Clamping /\ deleted[e] => pc'[e] \in Clamping /\ deleted'[e]
    BY <2>1, <2>2 DEF TypeOK, Clamping
  <2>5. \A e \in Calls : pc'[e] \in InHand \cup {"weigh", "lower"} =>
            \/ pc[e] \in InHand \cup {"weigh", "lower"} /\ read'[e] = read[e]
            \/ read'[e] = session
    BY <2>1, <2>2 DEF TypeOK, InHand
  <2> QED
    BY <2>2, <2>3, <2>4, <2>5 DEF FitInv
<1>8. ASSUME NEW c \in Calls, ReadWatermark(c) PROVE FitInv'
  <2>1. PICK p \in {"add", "leave"} : pc' = [pc EXCEPT ![c] = p]
    BY <1>8 DEF ReadWatermark, Extract, Goto
  <2>2. pc[c] = "compare" /\ UNCHANGED <<read, deleted>>
    BY <1>8 DEF ReadWatermark, Extract, Goto
  <2>3. \A e \in Calls : pc'[e] \in InHand \cup {"weigh", "lower"} =>
            pc[e] \in InHand \cup {"weigh", "lower"} /\ read'[e] = read[e]
    BY <2>1, <2>2 DEF TypeOK, InHand
  <2>4. \A e \in Calls : pc[e] \in Clamping /\ deleted[e] => pc'[e] \in Clamping /\ deleted'[e]
    BY <2>1, <2>2 DEF TypeOK, Clamping
  <2> QED
    BY <1>8, <2>3, <2>4, FitFrame DEF ReadWatermark, Extract, Goto, store, history
<1>9. ASSUME NEW c \in Calls, ReadWatermarkFails(c) PROVE FitInv'
  <2>1. faults' # 0
    BY <1>9 DEF ReadWatermarkFails, TypeOK
  <2> QED
    BY <2>1 DEF FitInv
<1>10. ASSUME NEW c \in Calls, AddWindow(c) PROVE FitInv'
  <2>1. PICK p \in {"cognify"} : pc' = [pc EXCEPT ![c] = p]
    BY <1>10 DEF AddWindow, Goto
  <2>2. pc[c] = "add" /\ UNCHANGED <<read, deleted>>
    BY <1>10 DEF AddWindow, Goto
  <2>3. \A e \in Calls : pc'[e] \in InHand \cup {"weigh", "lower"} =>
            pc[e] \in InHand \cup {"weigh", "lower"} /\ read'[e] = read[e]
    BY <2>1, <2>2 DEF TypeOK, InHand
  <2>4. \A e \in Calls : pc[e] \in Clamping /\ deleted[e] => pc'[e] \in Clamping /\ deleted'[e]
    BY <2>1, <2>2 DEF TypeOK, Clamping
  <2> QED
    BY <1>10, <2>3, <2>4, FitFrame DEF AddWindow, Goto, store, history
<1>11. ASSUME NEW c \in Calls, Cognify(c) PROVE FitInv'
  <2>1. PICK p \in {"save"} : pc' = [pc EXCEPT ![c] = p]
    BY <1>11 DEF Cognify, Goto
  <2>2. pc[c] = "cognify" /\ UNCHANGED <<read, deleted>>
    BY <1>11 DEF Cognify, Goto
  <2>3. \A e \in Calls : pc'[e] \in InHand \cup {"weigh", "lower"} =>
            pc[e] \in InHand \cup {"weigh", "lower"} /\ read'[e] = read[e]
    BY <2>1, <2>2 DEF TypeOK, InHand
  <2>4. \A e \in Calls : pc[e] \in Clamping /\ deleted[e] => pc'[e] \in Clamping /\ deleted'[e]
    BY <2>1, <2>2 DEF TypeOK, Clamping
  <2> QED
    BY <1>11, <2>3, <2>4, FitFrame DEF Cognify, Goto, store, history
<1>12. ASSUME NEW c \in Calls, SaveWatermark(c) PROVE FitInv'
  <2> SUFFICES ASSUME ~crossed, faults = 0 PROVE FitInv'
    BY <1>12 DEF SaveWatermark, FitInv, history
  <2>1. /\ pc[c] = "save" /\ pc' = [pc EXCEPT ![c] = "leave"] /\ watermark' = Len(read[c])
        /\ UNCHANGED <<session, read>>
    BY <1>12 DEF SaveWatermark, Goto
  <2> QED
    BY <2>1 DEF FitInv, TypeOK, InHand
<1>13. ASSUME NEW c \in Calls, ForgetContext(c) PROVE FitInv'
  <2> SUFFICES ASSUME ~crossed, faults = 0 PROVE FitInv'
    BY <1>13 DEF ForgetContext, FitInv, history
  <2>1. /\ pc' = [pc EXCEPT ![c] = "drop"] /\ watermark' = 0 /\ UNCHANGED <<session, read>>
    BY <1>13 DEF ForgetContext, Goto
  <2>2. Len(session) \in Nat
    BY DEF TypeOK
  <2> QED
    BY <2>1, <2>2 DEF FitInv, TypeOK, InHand
<1>14. ASSUME NEW c \in Calls, DropSession(c) PROVE FitInv'
  <2> SUFFICES ASSUME ~crossed', faults = 0 PROVE FitInv'
    BY <1>14 DEF DropSession, FitInv
  <2>1. /\ pc[c] = "drop" /\ pc' = [pc EXCEPT ![c] = "match"]
        /\ session' = <<>> /\ watermark' = 0 /\ UNCHANGED <<read, ds, job, home>>
    BY <1>14 DEF DropSession, Goto
  <2>2. \A e \in Calls : pc[e] \notin InHand
    BY <1>14 DEF DropSession, Crosses
  <2>3. ASSUME NEW e \in Calls, pc[e] \in {"weigh", "lower"} PROVE FALSE
    <3>1. home = ds[c] /\ home \in Datasets
      BY <2>1 DEF PlaceInv
    <3>2. home \in {ds[e], NoDataset}
      BY <2>3 DEF PlaceInv, Clamping
    <3>3. ds[e] = ds[c]
      BY <3>1, <3>2
    <3>4. locked[ds[c]] = c /\ locked[ds[e]] = e
      BY <2>1, <2>3 DEF LockInv, Deletion, Clamping
    <3> QED
      BY <2>1, <2>3, <3>3, <3>4
  <2>4. \A e \in Calls : pc'[e] \notin InHand \cup {"weigh", "lower"}
    BY <2>1, <2>2, <2>3 DEF TypeOK, InHand
  <2>5. Len(session') = 0
    BY <2>1
  <2> QED
    BY <2>1, <2>4, <2>5 DEF FitInv
<1>15. ASSUME NEW c \in Calls, Match(c) PROVE FitInv'
  <2>1. PICK p \in {"leave", "delete"} : pc' = [pc EXCEPT ![c] = p]
    BY <1>15 DEF Match, Goto
  <2>2. pc[c] = "match" /\ UNCHANGED <<read, deleted>>
    BY <1>15 DEF Match, Goto
  <2>3. \A e \in Calls : pc'[e] \in InHand \cup {"weigh", "lower"} =>
            pc[e] \in InHand \cup {"weigh", "lower"} /\ read'[e] = read[e]
    BY <2>1, <2>2 DEF TypeOK, InHand
  <2>4. \A e \in Calls : pc[e] \in Clamping /\ deleted[e] => pc'[e] \in Clamping /\ deleted'[e]
    BY <2>1, <2>2 DEF TypeOK, Clamping
  <2> QED
    BY <1>15, <2>3, <2>4, FitFrame DEF Match, Goto, store, history
<1>16. ASSUME NEW c \in Calls, DeleteTurn(c) PROVE FitInv'
  <2>1. PICK p \in {"delete", "clamp", "leave"} :
            /\ pc' = [pc EXCEPT ![c] = p]
            /\ p = "leave" => ~deleted'[c]
    BY <1>16 DEF DeleteTurn, Goto
  <2>2. /\ pc[c] = "delete" /\ updating = NoCall
        /\ UNCHANGED <<watermark, read, faults>>
    BY <1>16 DEF DeleteTurn
  <2>3. CASE UNCHANGED <<session, deleted, crossed>>
    <3>1. \A e \in Calls : pc'[e] \in InHand \cup {"weigh", "lower"} =>
              pc[e] \in InHand \cup {"weigh", "lower"} /\ read'[e] = read[e]
      BY <2>1, <2>2 DEF TypeOK, InHand
    <3>2. \A e \in Calls : pc[e] \in Clamping /\ deleted[e] => pc'[e] \in Clamping /\ deleted'[e]
      BY <2>1, <2>2, <2>3 DEF TypeOK, Clamping
    <3> QED
      BY <2>2, <2>3, <3>1, <3>2, FitFrame
  <2>4. CASE /\ deleted' = [deleted EXCEPT ![c] = TRUE]
             /\ crossed' = (crossed \/ Crosses)
    <3> SUFFICES ASSUME ~crossed' PROVE FitInv'
      BY DEF FitInv
    <3>1. \A e \in Calls : pc[e] \notin InHand
      BY <2>4 DEF Crosses
    <3>2. \A e \in Calls : pc[e] \notin {"weigh", "lower"}
      BY <2>2, PersistAssumption DEF LockInv
    <3>3. \A e \in Calls : pc'[e] \notin InHand \cup {"weigh", "lower"}
      BY <2>1, <3>1, <3>2 DEF TypeOK, InHand
    <3>4. deleted'[c] /\ pc'[c] \in Clamping
      BY <2>1, <2>4 DEF TypeOK, Clamping
    <3> QED
      BY <3>3, <3>4 DEF FitInv
  <2> QED
    BY <1>16, <2>3, <2>4 DEF DeleteTurn
<1>17. ASSUME NEW c \in Calls, EnterClamp(c) PROVE FitInv'
  <2>1. PICK p \in {"count"} : pc' = [pc EXCEPT ![c] = p]
    BY <1>17 DEF EnterClamp, Goto
  <2>2. pc[c] = "clamp" /\ UNCHANGED <<read, deleted>>
    BY <1>17 DEF EnterClamp, Goto
  <2>3. \A e \in Calls : pc'[e] \in InHand \cup {"weigh", "lower"} =>
            pc[e] \in InHand \cup {"weigh", "lower"} /\ read'[e] = read[e]
    BY <2>1, <2>2 DEF TypeOK, InHand
  <2>4. \A e \in Calls : pc[e] \in Clamping /\ deleted[e] => pc'[e] \in Clamping /\ deleted'[e]
    BY <2>1, <2>2 DEF TypeOK, Clamping
  <2> QED
    BY <1>17, <2>3, <2>4, FitFrame DEF EnterClamp, Goto, store, history
<1>18. ASSUME NEW c \in Calls, CountSurvivors(c) PROVE FitInv'
  <2>1. PICK p \in {"weigh"} : pc' = [pc EXCEPT ![c] = p]
    BY <1>18 DEF CountSurvivors, Goto
  <2>2. /\ pc[c] = "count" /\ read' = [read EXCEPT ![c] = session]
        /\ UNCHANGED <<session, watermark, deleted, crossed, faults>>
    BY <1>18 DEF CountSurvivors, store, history
  <2>3. Len(session) \in Nat
    BY DEF TypeOK
  <2>4. \A e \in Calls : pc[e] \in Clamping /\ deleted[e] => pc'[e] \in Clamping /\ deleted'[e]
    BY <2>1, <2>2 DEF TypeOK, Clamping
  <2>5. \A e \in Calls : pc'[e] \in InHand \cup {"weigh", "lower"} =>
            \/ pc[e] \in InHand \cup {"weigh", "lower"} /\ read'[e] = read[e]
            \/ read'[e] = session
    BY <2>1, <2>2 DEF TypeOK, InHand
  <2> QED
    BY <2>2, <2>3, <2>4, <2>5 DEF FitInv
<1>19. ASSUME NEW c \in Calls, Weigh(c) PROVE FitInv'
  <2> SUFFICES ASSUME ~crossed, faults = 0 PROVE FitInv'
    BY <1>19 DEF Weigh, FitInv, history
  <2>1. pc[c] = "weigh" /\ UNCHANGED <<session, watermark, read, deleted>>
    BY <1>19 DEF Weigh, store
  <2>2. watermark \in Nat /\ Len(read[c]) \in Nat /\ Len(session) \in Nat
    BY DEF TypeOK
  <2>3. CASE pc' = [pc EXCEPT ![c] = "lower"]
    <3>1. pc'[c] \in Clamping /\ deleted'[c]
      BY <2>1, <2>3 DEF GoneInv, TypeOK, Clamping
    <3> QED
      BY <2>1, <2>3, <3>1 DEF FitInv, TypeOK, InHand
  <2>4. CASE watermark <= Len(read[c]) /\ pc' = [pc EXCEPT ![c] = "leave"]
    <3>1. watermark <= Len(session)
      BY <2>1, <2>2, <2>4 DEF FitInv
    <3> QED
      BY <2>1, <2>4, <3>1 DEF FitInv, TypeOK, InHand
  <2> QED
    BY <1>19, <2>2, <2>3, <2>4 DEF Weigh, Goto
<1>20. ASSUME NEW c \in Calls, Lower(c) PROVE FitInv'
  <2> SUFFICES ASSUME ~crossed, faults = 0 PROVE FitInv'
    BY <1>20 DEF Lower, FitInv, history
  <2>1. /\ pc[c] = "lower" /\ pc' = [pc EXCEPT ![c] = "leave"] /\ watermark' = Len(read[c])
        /\ UNCHANGED <<session, read>>
    BY <1>20 DEF Lower, Goto
  <2> QED
    BY <2>1 DEF FitInv, TypeOK, InHand
<1>21. ASSUME NEW c \in Calls, Leave(c) PROVE FitInv'
  <2>1. PICK p \in {"rest"} : pc' = [pc EXCEPT ![c] = p]
    BY <1>21 DEF Leave, Goto
  <2>2. /\ pc[c] = "leave" /\ read' = [read EXCEPT ![c] = <<>>]
        /\ deleted' = [deleted EXCEPT ![c] = FALSE]
    BY <1>21 DEF Leave, Goto
  <2>3. \A e \in Calls : pc'[e] \in InHand \cup {"weigh", "lower"} =>
            pc[e] \in InHand \cup {"weigh", "lower"} /\ read'[e] = read[e]
    BY <2>1, <2>2 DEF TypeOK, InHand
  <2>4. \A e \in Calls : pc[e] \in Clamping /\ deleted[e] => pc'[e] \in Clamping /\ deleted'[e]
    BY <2>1, <2>2 DEF TypeOK, Clamping
  <2> QED
    BY <1>21, <2>3, <2>4, FitFrame DEF Leave, Goto, store, history
<1>22. ASSUME NEW c \in Calls, End(c) PROVE FitInv'
  <2>1. PICK p \in {"done"} : pc' = [pc EXCEPT ![c] = p]
    BY <1>22 DEF End, Goto
  <2>2. pc[c] = "rest" /\ UNCHANGED <<read, deleted>>
    BY <1>22 DEF End, Goto
  <2>3. \A e \in Calls : pc'[e] \in InHand \cup {"weigh", "lower"} =>
            pc[e] \in InHand \cup {"weigh", "lower"} /\ read'[e] = read[e]
    BY <2>1, <2>2 DEF TypeOK, InHand
  <2>4. \A e \in Calls : pc[e] \in Clamping /\ deleted[e] => pc'[e] \in Clamping /\ deleted'[e]
    BY <2>1, <2>2 DEF TypeOK, Clamping
  <2> QED
    BY <1>22, <2>3, <2>4, FitFrame DEF End, Goto, store, history
<1>23. ASSUME NEW c \in Calls, Fail(c) PROVE FitInv'
  <2>1. faults' # 0
    BY <1>23 DEF Fail, TypeOK
  <2> QED
    BY <2>1 DEF FitInv
<1>24. ASSUME Restart PROVE FitInv'
  <2>1. faults' # 0
    BY <1>24 DEF Restart, TypeOK
  <2> QED
    BY <2>1 DEF FitInv
<1>25. CASE UNCHANGED vars
  BY <1>25 DEF vars, FitInv, store, locks, local, history
<1> QED
  BY <1>1, <1>2, <1>3, <1>4, <1>5, <1>6, <1>7, <1>8, <1>9, <1>10, <1>11, <1>12, <1>13,
     <1>14, <1>15, <1>16, <1>17, <1>18, <1>19, <1>20, <1>21, <1>22, <1>23, <1>24, <1>25 DEF
     Next, Step, Start, Finished

-----------------------------------------------------------------------------
LEMMA UndisturbedBefore ==
  ASSUME UNCHANGED <<job, ds>>, gone' = {} => gone = {}, faults' = 0 => faults = 0
  PROVE  Undisturbed' => Undisturbed
BY DEF Undisturbed

LEMMA UndisturbedBegin ==
  ASSUME TypeOK, PlaceInv, NEW c \in Calls, NEW j \in Jobs, NEW d \in Datasets, Begin(c, j, d)
  PROVE  Undisturbed' => Undisturbed
<1>1. /\ job[c] = "none" /\ job' = [job EXCEPT ![c] = j] /\ ds' = [ds EXCEPT ![c] = d]
      /\ UNCHANGED <<gone, faults>>
  BY DEF Begin, PlaceInv, history
<1>2. \A e \in Calls : e # c => job'[e] = job[e] /\ ds'[e] = ds[e]
  BY <1>1 DEF TypeOK
<1> SUFFICES ASSUME Undisturbed' PROVE Undisturbed
  OBVIOUS
<1>3. gone = {} /\ faults = 0
  BY <1>1 DEF Undisturbed
<1>4. ASSUME NEW e \in Calls PROVE job[e] # "delete dataset"
  <2>1. CASE e = c
    BY <1>1, <2>1
  <2>2. CASE e # c
    BY <1>2, <2>2 DEF Undisturbed
  <2> QED
    BY <2>1, <2>2
<1>5. ASSUME NEW b \in Calls, NEW e \in Calls, job[b] = "improve", job[e] = "improve"
      PROVE  ds[b] = ds[e]
  <2>1. b # c /\ e # c
    BY <1>1, <1>5
  <2>2. job'[b] = "improve" /\ job'[e] = "improve" /\ ds'[b] = ds[b] /\ ds'[e] = ds[e]
    BY <1>2, <1>5, <2>1
  <2>3. ds'[b] = ds'[e]
    BY <2>2 DEF Undisturbed
  <2> QED
    BY <2>2, <2>3
<1> QED
  BY <1>3, <1>4, <1>5 DEF Undisturbed

(* The lock of the one dataset: one improve at a time. *)
LEMMA OneImprove ==
  ASSUME TypeOK, PlaceInv, LockInv, Undisturbed, NEW b \in Calls, NEW c \in Calls,
         pc[b] \in {"extract"} \cup InHand, pc[c] \in {"extract"} \cup InHand
  PROVE  b = c
<1>1. job[b] = "improve" /\ job[c] = "improve"
  BY DEF PlaceInv
<1>2. ds[b] = ds[c]
  BY <1>1 DEF Undisturbed
<1> QED
  BY <1>2 DEF LockInv

(* A call that has turns in hand had them, and one that has put them in a *)
(* document keeps them until its watermark is saved.                      *)
KeepsHand(e) ==
    /\ pc'[e] \in InHand => pc'[e] = pc[e] /\ read'[e] = read[e] /\ window'[e] = window[e]
    /\ pc[e] \in {"cognify", "save"} => pc'[e] = pc[e]

LEMMA OnceFrame ==
  ASSUME OnceInv, Undisturbed' => Undisturbed, Stored' = Stored,
         session' = session, watermark' = watermark,
         \A e \in Calls : KeepsHand(e)
  PROVE  OnceInv'
<1> SUFFICES ASSUME Undisturbed, Undisturbed' PROVE OnceInv'
  BY DEF OnceInv
<1>1. \A i, j \in 1..Len(session') : session'[i] = session'[j] => i = j
  BY DEF OnceInv
<1>2. ASSUME NEW e \in Calls, pc'[e] \in InHand
      PROVE  /\ watermark' <= Len(read'[e])
             /\ pc'[e] = "add" =>
                    window'[e] = {read'[e][i] : i \in watermark' + 1..Len(read'[e])}
             /\ pc'[e] \in {"cognify", "save"} =>
                    \A D \in Stored' : D \subseteq UpTo(read'[e], Len(read'[e]))
  <2>1. pc'[e] = pc[e] /\ read'[e] = read[e] /\ window'[e] = window[e]
    BY <1>2 DEF KeepsHand
  <2> QED
    BY <1>2, <2>1 DEF OnceInv
<1>3. ASSUME \A e \in Calls : pc'[e] \notin {"cognify", "save"}
      PROVE  \A D \in Stored' : D \subseteq UpTo(session', watermark')
  <2>1. \A e \in Calls : pc[e] \notin {"cognify", "save"}
    BY <1>3 DEF KeepsHand
  <2> QED
    BY <2>1 DEF OnceInv
<1>4. \A D, E \in Stored' : D = E \/ D \cap E = {}
  BY DEF OnceInv
<1>5. \A e \in Calls : pc'[e] \in {"add", "cognify", "save"} => pc'[e] \in InHand
  BY DEF InHand
<1> QED
  BY <1>1, <1>2, <1>3, <1>4, <1>5 DEF OnceInv

LEMMA OnceStep ==
    TypeOK /\ PlaceInv /\ LockInv /\ GoneInv /\ KeepInv /\ OnceInv /\ [Next]_vars =>
       OnceInv'
<1> SUFFICES ASSUME TypeOK, PlaceInv, LockInv, GoneInv, KeepInv, OnceInv, [Next]_vars PROVE OnceInv'
  OBVIOUS
<1> USE PersistAssumption
<1>1. ASSUME NEW t \in Turns, Ask(t) PROVE OnceInv'
  <2> SUFFICES ASSUME Undisturbed PROVE OnceInv'
    <3>1. Undisturbed' => Undisturbed
      BY <1>1, UndisturbedBefore DEF Ask, local, history
    <3> QED
      BY <3>1 DEF OnceInv
  <2>1. /\ Len(session') = Len(session) + 1 /\ Len(session) \in Nat
        /\ \A i \in 1..Len(session) : session'[i] = session[i]
        /\ session'[Len(session) + 1] = t
    BY <1>1, AppendProperties DEF Ask, TypeOK
  <2>2. UNCHANGED <<watermark, pc, read, window>> /\ Stored' = Stored
    BY <1>1 DEF Ask, local, Stored
  <2>3. watermark \in Nat /\ watermark <= Len(session)
    BY DEF TypeOK, KeepInv, Undisturbed
  <2>4. \A i \in 1..Len(session) : session[i] # t
    BY <1>1 DEF Ask, Members
  <2>5. \A i, j \in 1..Len(session') : session'[i] = session'[j] => i = j
    <3> SUFFICES ASSUME NEW i \in 1..Len(session) + 1, NEW j \in 1..Len(session) + 1,
                        session'[i] = session'[j]
                 PROVE  i = j
      BY <2>1
    <3>1. CASE i \in 1..Len(session) /\ j \in 1..Len(session)
      BY <3>1, <2>1 DEF OnceInv
    <3>2. CASE i = Len(session) + 1 \/ j = Len(session) + 1
      BY <3>2, <2>1, <2>4
    <3> QED
      BY <3>1, <3>2, <2>1
  <2>6. UpTo(session', watermark) = UpTo(session, watermark)
    BY <2>1, <2>3 DEF UpTo
  <2> QED
    BY <2>2, <2>5, <2>6 DEF OnceInv
<1>2. ASSUME NEW c \in Calls, NEW d \in Datasets, ImproveOne(c, d) PROVE OnceInv'
  <2>1. PICK p \in {"lock", "done"} : pc' = [pc EXCEPT ![c] = p]
    BY <1>2 DEF ImproveOne, Begin, Goto
  <2>2. pc[c] = "idle" /\ UNCHANGED <<read, window>>
    BY <1>2 DEF ImproveOne, Begin, Goto
  <2>3. \A e \in Calls : KeepsHand(e)
    BY <2>1, <2>2 DEF TypeOK, InHand, KeepsHand
  <2>4. Undisturbed' => Undisturbed
    BY <1>2, UndisturbedBegin DEF ImproveOne, Jobs, Begin
  <2>5. Stored' = Stored /\ session' = session /\ watermark' = watermark
    BY <1>2 DEF ImproveOne, Begin, Goto, store, Stored
  <2> QED
    BY <2>3, <2>4, <2>5, OnceFrame
<1>3. ASSUME NEW c \in Calls, NEW d \in Datasets, ImproveSeveral(c, d) PROVE OnceInv'
  <2>1. PICK p \in {"lock"} : pc' = [pc EXCEPT ![c] = p]
    BY <1>3 DEF ImproveSeveral, Begin, Goto
  <2>2. pc[c] = "idle" /\ UNCHANGED <<read, window>>
    BY <1>3 DEF ImproveSeveral, Begin, Goto
  <2>3. \A e \in Calls : KeepsHand(e)
    BY <2>1, <2>2 DEF TypeOK, InHand, KeepsHand
  <2>4. Undisturbed' => Undisturbed
    BY <1>3, UndisturbedBegin DEF ImproveSeveral, Jobs, Begin
  <2>5. Stored' = Stored /\ session' = session /\ watermark' = watermark
    BY <1>3 DEF ImproveSeveral, Begin, Goto, store, Stored
  <2> QED
    BY <2>3, <2>4, <2>5, OnceFrame
<1>4. ASSUME NEW c \in Calls, NEW d \in Datasets, DeleteDocument(c, d) PROVE OnceInv'
  <2>1. PICK p \in {"lock"} : pc' = [pc EXCEPT ![c] = p]
    BY <1>4 DEF DeleteDocument, Begin, Goto
  <2>2. pc[c] = "idle" /\ UNCHANGED <<read, window>>
    BY <1>4 DEF DeleteDocument, Begin, Goto
  <2>3. \A e \in Calls : KeepsHand(e)
    BY <2>1, <2>2 DEF TypeOK, InHand, KeepsHand
  <2>4. Undisturbed' => Undisturbed
    BY <1>4, UndisturbedBegin DEF DeleteDocument, Jobs, Begin
  <2>5. Stored' = Stored /\ session' = session /\ watermark' = watermark
    BY <1>4 DEF DeleteDocument, Begin, Goto, store, Stored
  <2> QED
    BY <2>3, <2>4, <2>5, OnceFrame
<1>5. ASSUME NEW c \in Calls, NEW d \in Datasets, DeleteDataset(c, d) PROVE OnceInv'
  <2>1. PICK p \in {"lock"} : pc' = [pc EXCEPT ![c] = p]
    BY <1>5 DEF DeleteDataset, Begin, Goto
  <2>2. pc[c] = "idle" /\ UNCHANGED <<read, window>>
    BY <1>5 DEF DeleteDataset, Begin, Goto
  <2>3. \A e \in Calls : KeepsHand(e)
    BY <2>1, <2>2 DEF TypeOK, InHand, KeepsHand
  <2>4. Undisturbed' => Undisturbed
    BY <1>5, UndisturbedBegin DEF DeleteDataset, Jobs, Begin
  <2>5. Stored' = Stored /\ session' = session /\ watermark' = watermark
    BY <1>5 DEF DeleteDataset, Begin, Goto, store, Stored
  <2> QED
    BY <2>3, <2>4, <2>5, OnceFrame
<1>6. ASSUME NEW c \in Calls, TakeLock(c) PROVE OnceInv'
  <2>1. PICK p \in {"extract", "context", "match"} : pc' = [pc EXCEPT ![c] = p]
    BY <1>6 DEF TakeLock, Goto
  <2>2. pc[c] = "lock" /\ UNCHANGED <<read, window>>
    BY <1>6 DEF TakeLock, Goto
  <2>3. \A e \in Calls : KeepsHand(e)
    BY <2>1, <2>2 DEF TypeOK, InHand, KeepsHand
  <2>4. Undisturbed' => Undisturbed
    BY <1>6, UndisturbedBefore DEF TakeLock, history
  <2>5. Stored' = Stored /\ session' = session /\ watermark' = watermark
    BY <1>6 DEF TakeLock, Goto, store, Stored
  <2> QED
    BY <2>3, <2>4, <2>5, OnceFrame
<1>7. ASSUME NEW c \in Calls, ReadSession(c) PROVE OnceInv'
  <2> SUFFICES ASSUME Undisturbed PROVE OnceInv'
    <3>1. Undisturbed' => Undisturbed
      BY <1>7, UndisturbedBefore DEF ReadSession, history
    <3> QED
      BY <3>1 DEF OnceInv
  <2>1. PICK p \in {"leave", "compare"} : pc' = [pc EXCEPT ![c] = p]
    BY <1>7 DEF ReadSession, Goto
  <2>2. /\ pc[c] = "extract" /\ read' = [read EXCEPT ![c] = session]
        /\ UNCHANGED <<session, watermark, window>>
    BY <1>7 DEF ReadSession, store
  <2>3. Stored' = Stored
    BY <1>7 DEF ReadSession, store, Stored
  <2>4. \A e \in Calls : pc[e] \notin InHand
    BY <2>2, OneImprove DEF InHand
  <2>5. \A e \in Calls : pc'[e] \in InHand => e = c /\ pc'[e] = "compare"
    BY <2>1, <2>4 DEF TypeOK, InHand
  <2>6. watermark <= Len(session) /\ read'[c] = session
    BY <2>2 DEF KeepInv, Undisturbed, TypeOK
  <2>7. \A D \in Stored : D \subseteq UpTo(session, watermark)
    BY <2>4 DEF OnceInv, InHand
  <2> QED
    BY <2>2, <2>3, <2>5, <2>6, <2>7 DEF OnceInv, InHand
<1>8. ASSUME NEW c \in Calls, ReadWatermark(c) PROVE OnceInv'
  <2> SUFFICES ASSUME Undisturbed PROVE OnceInv'
    <3>1. Undisturbed' => Undisturbed
      BY <1>8, UndisturbedBefore DEF ReadWatermark, Extract
    <3> QED
      BY <3>1 DEF OnceInv
  <2>1. PICK p \in {"leave", "add"} : pc' = [pc EXCEPT ![c] = p]
    BY <1>8 DEF ReadWatermark, Extract, Goto
  <2>2. /\ pc[c] = "compare" /\ window' = [window EXCEPT ![c] = Unpersisted(c, watermark)]
        /\ UNCHANGED <<session, watermark, read>>
    BY <1>8 DEF ReadWatermark, Extract, store
  <2>3. Stored' = Stored
    BY <1>8 DEF ReadWatermark, Extract, store, Stored
  <2>4. \A e \in Calls : pc[e] \in InHand => e = c
    BY <2>2, OneImprove DEF InHand
  <2>5. \A e \in Calls : pc'[e] \in InHand => e = c /\ pc'[e] = "add"
    BY <2>1, <2>4 DEF TypeOK, InHand
  <2>6. watermark <= Len(read[c]) /\ watermark \in Nat /\ Len(read[c]) \in Nat
    BY <2>2 DEF OnceInv, InHand, TypeOK
  <2>7. window'[c] = {read[c][i] : i \in watermark + 1..Len(read[c])}
    BY <2>2, <2>6 DEF TypeOK, Unpersisted, FirstUnpersisted
  <2>8. \A D \in Stored : D \subseteq UpTo(session, watermark)
    BY <2>2, <2>4 DEF OnceInv, InHand
  <2> QED
    BY <2>2, <2>3, <2>5, <2>6, <2>7, <2>8 DEF OnceInv, InHand
<1>9. ASSUME NEW c \in Calls, ReadWatermarkFails(c) PROVE OnceInv'
  <2>1. faults' # 0
    BY <1>9 DEF ReadWatermarkFails, TypeOK
  <2> QED
    BY <2>1 DEF OnceInv, Undisturbed
<1>10. ASSUME NEW c \in Calls, AddWindow(c) PROVE OnceInv'
  <2> SUFFICES ASSUME Undisturbed PROVE OnceInv'
    <3>1. Undisturbed' => Undisturbed
      BY <1>10, UndisturbedBefore DEF AddWindow, history
    <3> QED
      BY <3>1 DEF OnceInv
  <2>1. /\ pc[c] = "add" /\ pc' = [pc EXCEPT ![c] = "cognify"]
        /\ added' = [added EXCEPT ![ds[c]] = @ \cup ({window[c]} \ graph[ds[c]])]
        /\ UNCHANGED <<session, watermark, graph, read, window>>
    BY <1>10 DEF AddWindow, Goto
  <2>2. \A e \in Calls : pc[e] \in InHand => e = c
    BY <2>1, OneImprove DEF InHand
  <2>3. \A e \in Calls : pc'[e] \in InHand => e = c
    BY <2>1, <2>2 DEF TypeOK
  <2>4. pc'[c] = "cognify"
    BY <2>1 DEF TypeOK
  <2>5. Stored' \subseteq Stored \cup {window[c]}
    BY <2>1 DEF Stored, TypeOK
  <2>6. /\ watermark <= Len(read[c]) /\ watermark \in Nat /\ Len(read[c]) \in Nat
        /\ window[c] = {read[c][i] : i \in watermark + 1..Len(read[c])}
        /\ Len(session) \in Nat
    BY <2>1 DEF OnceInv, InHand, TypeOK
  <2>7. \A D \in Stored : D \subseteq UpTo(session, watermark)
    BY <2>1, <2>2 DEF OnceInv, InHand
  <2>8. Len(read[c]) <= Len(session) /\ \A i \in 1..Len(read[c]) : read[c][i] = session[i]
    BY <2>1 DEF KeepInv, Undisturbed, InHand, IsPrefix
  <2>9. UpTo(session, watermark) \subseteq UpTo(read[c], Len(read[c]))
    BY <2>6, <2>8 DEF UpTo
  <2>10. window[c] \subseteq UpTo(read[c], Len(read[c]))
    BY <2>6 DEF UpTo
  <2>11. window[c] \cap UpTo(session, watermark) = {}
    <3> SUFFICES ASSUME NEW i \in watermark + 1..Len(read[c]), NEW j \in 1..watermark,
                        read[c][i] = session[j]
                 PROVE  FALSE
      BY <2>6 DEF UpTo
    <3>1. i \in 1..Len(session) /\ j \in 1..Len(session) /\ session[i] = session[j]
      BY <2>6, <2>8
    <3> QED
      BY <3>1, <2>6 DEF OnceInv
  <2>12. \A D \in Stored' : D \subseteq UpTo(read[c], Len(read[c]))
    BY <2>5, <2>7, <2>9, <2>10
  <2>13. \A D, E \in Stored' : D = E \/ D \cap E = {}
    <3>1. \A D, E \in Stored : D = E \/ D \cap E = {}
      BY DEF OnceInv
    <3>2. \A D \in Stored : D \cap window[c] = {}
      BY <2>7, <2>11
    <3> QED
      BY <3>1, <3>2, <2>5
  <2> QED
    BY <2>1, <2>3, <2>4, <2>6, <2>12, <2>13 DEF OnceInv, InHand
<1>11. ASSUME NEW c \in Calls, Cognify(c) PROVE OnceInv'
  <2> SUFFICES ASSUME Undisturbed PROVE OnceInv'
    <3>1. Undisturbed' => Undisturbed
      BY <1>11, UndisturbedBefore DEF Cognify, history
    <3> QED
      BY <3>1 DEF OnceInv
  <2>1. /\ pc[c] = "cognify" /\ pc' = [pc EXCEPT ![c] = "save"]
        /\ graph' = [graph EXCEPT ![ds[c]] = @ \cup added[ds[c]]]
        /\ added' = [added EXCEPT ![ds[c]] = {}]
        /\ UNCHANGED <<session, watermark, read, window>>
    BY <1>11 DEF Cognify, Goto
  <2>2. ds[c] \in Datasets
    BY <2>1 DEF PlaceInv
  <2>3. \A d \in Datasets : added'[d] \cup graph'[d] = added[d] \cup graph[d]
    BY <2>1, <2>2 DEF TypeOK
  <2>4. Stored' = Stored
    BY <2>3 DEF Stored
  <2>5. \A e \in Calls : pc[e] \in InHand => e = c
    BY <2>1, OneImprove DEF InHand
  <2>6. pc'[c] = "save" /\ \A e \in Calls : pc'[e] \in InHand => e = c
    BY <2>1, <2>5 DEF TypeOK
  <2>7. /\ watermark <= Len(read[c])
        /\ \A D \in Stored : D \subseteq UpTo(read[c], Len(read[c]))
    BY <2>1 DEF OnceInv, InHand
  <2> QED
    BY <2>1, <2>4, <2>6, <2>7 DEF OnceInv, InHand
<1>12. ASSUME NEW c \in Calls, SaveWatermark(c) PROVE OnceInv'
  <2> SUFFICES ASSUME Undisturbed PROVE OnceInv'
    <3>1. Undisturbed' => Undisturbed
      BY <1>12, UndisturbedBefore DEF SaveWatermark, history
    <3> QED
      BY <3>1 DEF OnceInv
  <2>1. /\ pc[c] = "save" /\ pc' = [pc EXCEPT ![c] = "leave"] /\ watermark' = Len(read[c])
        /\ UNCHANGED <<session, added, graph, read, window>>
    BY <1>12 DEF SaveWatermark, Goto
  <2>2. \A e \in Calls : pc[e] \in InHand => e = c
    BY <2>1, OneImprove DEF InHand
  <2>3. \A e \in Calls : pc'[e] \notin InHand
    BY <2>1, <2>2 DEF TypeOK, InHand
  <2>4. Stored' = Stored
    BY <2>1 DEF Stored
  <2>5. \A i \in 1..Len(read[c]) : read[c][i] = session[i]
    BY <2>1 DEF KeepInv, Undisturbed, InHand, IsPrefix
  <2>6. UpTo(read[c], Len(read[c])) = UpTo(session, Len(read[c]))
    BY <2>5 DEF UpTo
  <2>7. \A D \in Stored : D \subseteq UpTo(session, Len(read[c]))
    BY <2>1, <2>6 DEF OnceInv
  <2> QED
    BY <2>1, <2>3, <2>4, <2>7 DEF OnceInv, InHand
<1>13. ASSUME NEW c \in Calls, ForgetContext(c) PROVE OnceInv'
  <2>1. job'[c] = "delete dataset"
    BY <1>13 DEF ForgetContext, PlaceInv
  <2> QED
    BY <2>1 DEF OnceInv, Undisturbed
<1>14. ASSUME NEW c \in Calls, DropSession(c) PROVE OnceInv'
  <2>1. job'[c] = "delete dataset"
    BY <1>14 DEF DropSession, PlaceInv
  <2> QED
    BY <2>1 DEF OnceInv, Undisturbed
<1>15. ASSUME NEW c \in Calls, Match(c) PROVE OnceInv'
  <2>1. PICK p \in {"leave", "delete"} : pc' = [pc EXCEPT ![c] = p]
    BY <1>15 DEF Match, Goto
  <2>2. pc[c] = "match" /\ UNCHANGED <<read, window>>
    BY <1>15 DEF Match, Goto
  <2>3. \A e \in Calls : KeepsHand(e)
    BY <2>1, <2>2 DEF TypeOK, InHand, KeepsHand
  <2>4. Undisturbed' => Undisturbed
    BY <1>15, UndisturbedBefore DEF Match, history
  <2>5. Stored' = Stored /\ session' = session /\ watermark' = watermark
    BY <1>15 DEF Match, Goto, store, Stored
  <2> QED
    BY <2>3, <2>4, <2>5, OnceFrame
<1>16. ASSUME NEW c \in Calls, DeleteTurn(c) PROVE OnceInv'
  <2>1. CASE gone' # {}
    BY <2>1 DEF OnceInv, Undisturbed
  <2>2. CASE gone' = {}
    <3>1. /\ UNCHANGED <<session, gone>>
          /\ UNCHANGED <<watermark, added, graph, read, window, job, ds, faults>>
      BY <1>16, <2>2 DEF DeleteTurn
    <3>2. pc[c] = "delete" /\ pc' = [pc EXCEPT ![c] = pc'[c]]
          /\ pc'[c] \in {"delete", "clamp", "leave"}
      BY <1>16 DEF DeleteTurn, Goto, TypeOK
    <3>3. \A e \in Calls : KeepsHand(e)
      BY <3>1, <3>2 DEF TypeOK, InHand, KeepsHand
    <3>4. Undisturbed' => Undisturbed
      BY <3>1, UndisturbedBefore
    <3>5. Stored' = Stored /\ session' = session /\ watermark' = watermark
      BY <3>1 DEF Stored
    <3> QED
      BY <3>3, <3>4, <3>5, OnceFrame
  <2> QED
    BY <2>1, <2>2
<1>17. ASSUME NEW c \in Calls, EnterClamp(c) PROVE OnceInv'
  <2>1. gone' # {}
    BY <1>17 DEF EnterClamp, GoneInv, history
  <2> QED
    BY <2>1 DEF OnceInv, Undisturbed
<1>18. ASSUME NEW c \in Calls, CountSurvivors(c) PROVE OnceInv'
  <2>1. gone' # {}
    BY <1>18 DEF CountSurvivors, GoneInv, history
  <2> QED
    BY <2>1 DEF OnceInv, Undisturbed
<1>19. ASSUME NEW c \in Calls, Weigh(c) PROVE OnceInv'
  <2>1. gone' # {}
    BY <1>19 DEF Weigh, GoneInv, history
  <2> QED
    BY <2>1 DEF OnceInv, Undisturbed
<1>20. ASSUME NEW c \in Calls, Lower(c) PROVE OnceInv'
  <2>1. gone' # {}
    BY <1>20 DEF Lower, GoneInv, history
  <2> QED
    BY <2>1 DEF OnceInv, Undisturbed
<1>21. ASSUME NEW c \in Calls, Leave(c) PROVE OnceInv'
  <2>1. PICK p \in {"rest"} : pc' = [pc EXCEPT ![c] = p]
    BY <1>21 DEF Leave, Goto
  <2>2. pc[c] = "leave" /\ read' = [read EXCEPT ![c] = <<>>] /\ window' = [window EXCEPT ![c] = {}]
    BY <1>21 DEF Leave, Goto
  <2>3. \A e \in Calls : KeepsHand(e)
    BY <2>1, <2>2 DEF TypeOK, InHand, KeepsHand
  <2>4. Undisturbed' => Undisturbed
    BY <1>21, UndisturbedBefore DEF Leave, history
  <2>5. Stored' = Stored /\ session' = session /\ watermark' = watermark
    BY <1>21 DEF Leave, Goto, store, Stored
  <2> QED
    BY <2>3, <2>4, <2>5, OnceFrame
<1>22. ASSUME NEW c \in Calls, End(c) PROVE OnceInv'
  <2>1. PICK p \in {"done"} : pc' = [pc EXCEPT ![c] = p]
    BY <1>22 DEF End, Goto
  <2>2. pc[c] = "rest" /\ UNCHANGED <<read, window>>
    BY <1>22 DEF End, Goto
  <2>3. \A e \in Calls : KeepsHand(e)
    BY <2>1, <2>2 DEF TypeOK, InHand, KeepsHand
  <2>4. Undisturbed' => Undisturbed
    BY <1>22, UndisturbedBefore DEF End, history
  <2>5. Stored' = Stored /\ session' = session /\ watermark' = watermark
    BY <1>22 DEF End, Goto, store, Stored
  <2> QED
    BY <2>3, <2>4, <2>5, OnceFrame
<1>23. ASSUME NEW c \in Calls, Fail(c) PROVE OnceInv'
  <2>1. faults' # 0
    BY <1>23 DEF Fail, TypeOK
  <2> QED
    BY <2>1 DEF OnceInv, Undisturbed
<1>24. ASSUME Restart PROVE OnceInv'
  <2>1. faults' # 0
    BY <1>24 DEF Restart, TypeOK
  <2> QED
    BY <2>1 DEF OnceInv, Undisturbed
<1>25. CASE UNCHANGED vars
  <2>1. Stored' = Stored /\ session' = session /\ watermark' = watermark
    BY <1>25 DEF vars, store, Stored
  <2>2. \A e \in Calls : KeepsHand(e)
    BY <1>25 DEF vars, local, KeepsHand
  <2>3. Undisturbed' => Undisturbed
    BY <1>25, UndisturbedBefore DEF vars, local, history
  <2> QED
    BY <2>1, <2>2, <2>3, OnceFrame
<1> QED
  BY <1>1, <1>2, <1>3, <1>4, <1>5, <1>6, <1>7, <1>8, <1>9, <1>10, <1>11, <1>12, <1>13,
     <1>14, <1>15, <1>16, <1>17, <1>18, <1>19, <1>20, <1>21, <1>22, <1>23, <1>24, <1>25 DEF
     Next, Step, Start, Finished

-----------------------------------------------------------------------------
(* What is kept by every step: types, places, locks, and the three parts   *)
(* about turns.                                                            *)
PersistInv == TypeOK /\ PlaceInv /\ LockInv /\ GoneInv /\ KeepInv /\ FitInv /\ OnceInv

THEOREM PersistInvariant == Spec => []PersistInv
<1>1. Init => PersistInv
  BY TypeInit, PartsInit DEF PersistInv
<1>2. PersistInv /\ [Next]_vars => PersistInv'
  <2> SUFFICES ASSUME PersistInv, [Next]_vars PROVE PersistInv'
    OBVIOUS
  <2> USE DEF PersistInv
  <2>1. TypeOK'
    BY TypeStep
  <2>2. PlaceInv'
    BY PlaceStep
  <2>3. LockInv'
    BY LockStep
  <2>4. GoneInv'
    BY GoneStep
  <2>5. KeepInv'
    BY KeepStep
  <2>6. FitInv'
    BY FitStep
  <2>7. OnceInv'
    BY OnceStep
  <2> QED
    BY <2>1, <2>2, <2>3, <2>4, <2>5, <2>6, <2>7
<1> QED
  BY <1>1, <1>2, PTL DEF Spec

(* Every variable keeps its type. *)
THEOREM TypeCorrect == Spec => []TypeOK
<1>1. PersistInv => TypeOK
  BY DEF PersistInv
<1> QED
  BY <1>1, PersistInvariant, PTL

(* As long as no turn leaves the session, every turn below the watermark   *)
(* is in the graph: improve skips nothing (extract_user_sessions and       *)
(* cognify_session), whatever fails or overtakes.                          *)
THEOREM KeptPersisted == Spec => []KeptArePersisted
<1>1. PersistInv => KeptArePersisted
  BY DEF PersistInv, KeepInv, KeptArePersisted
<1> QED
  BY <1>1, PersistInvariant, PTL

(* Without a failure or a removal, improves into one dataset put no turn   *)
(* into two documents.                                                     *)
THEOREM NothingIsTwice == Spec => []NothingTwice
<1>1. PersistInv => NothingTwice
  <2> SUFFICES ASSUME PersistInv, Undisturbed,
                      NEW d \in Datasets, NEW D \in added[d] \cup graph[d],
                      NEW E \in added[d] \cup graph[d]
               PROVE  D = E \/ D \cap E = {}
    BY DEF NothingTwice, Undisturbed
  <2>1. D \in Stored /\ E \in Stored
    BY DEF Stored
  <2> QED
    BY <2>1 DEF PersistInv, OnceInv
<1> QED
  BY <1>1, PersistInvariant, PTL

(* A deletion that crosses no improve leaves a watermark that is not above *)
(* the turns that are left (_invalidate_session_entries).                  *)
THEOREM WatermarkStaysFit == Spec => []WatermarkFits
<1>1. PersistInv => WatermarkFits
  BY DEF PersistInv, FitInv, WatermarkFits
<1> QED
  BY <1>1, PersistInvariant, PTL
=============================================================================
