-------------------------- MODULE WorkspaceProofs --------------------------
(***************************************************************************)
(* The wires, the boards and the canvas of the engineering workspace:      *)
(* what is in memory, in the stores and in the session file agree, however *)
(* requests, saves and restarts fall.                                      *)
(***************************************************************************)
EXTENDS Workspace, FiniteSetTheorems, TLAPS

-----------------------------------------------------------------------------
(* The canvas: the invariant                                               *)

\* Pictures of the canvas whose sound wires end at parts.
PartMaps == UNION {[S -> Parts] : S \in SUBSET (used \cap NodeIds)}
EdgeMaps == UNION {[S -> Edges] : S \in SUBSET (used \cap EdgeIds)}
Pictures == {s \in [parts : PartMaps, edges : EdgeMaps] : Joined(s)}
Canvases == {c \in [status : CanvasStatuses, parts : PartMaps, edges : EdgeMaps] : Joined(c)}

CanvasInv ==
    /\ used \subseteq NodeIds \cup EdgeIds /\ unsaved \subseteq used
    /\ canvas = NoCanvas \/ canvas \in Canvases
    /\ session \in {NoCanvas, TornSession} \/ session \in Canvases
    /\ undo \in Seq(Pictures) /\ redo \in Seq(Pictures)
    /\ SessionIsWhatWasDone
    /\ HistoryIsBounded

LEMMA PartMap ==
  \A f : f \in PartMaps <=> /\ f = [i \in DOMAIN f |-> f[i]] /\ DOMAIN f \subseteq used \cap NodeIds
                            /\ \A i \in DOMAIN f : f[i] \in Parts
  BY DEF PartMaps

LEMMA EdgeMap ==
  \A f : f \in EdgeMaps <=> /\ f = [i \in DOMAIN f |-> f[i]] /\ DOMAIN f \subseteq used \cap EdgeIds
                            /\ \A i \in DOMAIN f : f[i] \in Edges
  BY DEF EdgeMaps

LEMMA PicturesGrow ==
  ASSUME used \subseteq used'
  PROVE  Pictures \subseteq Pictures' /\ Canvases \subseteq Canvases' /\ PartMaps \subseteq PartMaps'
         /\ EdgeMaps \subseteq EdgeMaps'
<1>1. PartMaps \subseteq PartMaps' /\ EdgeMaps \subseteq EdgeMaps'
  BY DEF PartMaps, EdgeMaps
<1>2. Pictures \subseteq Pictures' /\ Canvases \subseteq Canvases'
  BY <1>1 DEF Pictures, Canvases, Joined
<1> QED
  BY <1>1, <1>2

LEMMA SeqOfMore ==
  ASSUME NEW S, NEW T, S \subseteq T, NEW s \in Seq(S)
  PROVE  s \in Seq(T)
<1>1. Len(s) \in Nat /\ s \in [1 .. Len(s) -> S]
  OBVIOUS
<1>2. s \in [1 .. Len(s) -> T]
  BY <1>1
<1> QED
  BY <1>1, <1>2

LEMMA CanvasIsReal ==
  ASSUME CanvasInv, Exists
  PROVE  canvas \in Canvases /\ Snapshot \in Pictures
<1>1. canvas \in Canvases
  BY DEF CanvasInv, Exists
<1>2. Snapshot \in Pictures
  BY <1>1 DEF Snapshot, Canvases, Pictures, Joined
<1> QED
  BY <1>1, <1>2

LEMMA NoneIsReal == NoCanvas \notin Canvases /\ TornSession \notin Canvases
  BY DEF NoCanvas, TornSession, Canvases, CanvasStatuses

\* What is saved is as it is in memory.
LEMMA SavedIsCanvas ==
  ASSUME canvas' \in Canvases', Persisted
  PROVE  SessionIsWhatWasDone' /\ session' \in Canvases' /\ unsaved' = {}
<1>1. session' \in Canvases' /\ session' = canvas' /\ unsaved' = {}
  BY DEF Persisted
<1>2. session' \notin {NoCanvas, TornSession}
  BY <1>1 DEF NoCanvas, TornSession, Canvases, CanvasStatuses
<1> QED
  BY <1>1, <1>2 DEF SessionIsWhatWasDone, Drawn, Without

\* Two pictures are drawn alike if they have the same parts, but for where
\* these are placed, and the same wires.
LEMMA DrawnAlike ==
  ASSUME NEW c, NEW d, NEW S, NEW T,
         DOMAIN c.parts \ S = DOMAIN d.parts \ T, DOMAIN c.edges \ S = DOMAIN d.edges \ T,
         \A i \in DOMAIN d.parts \ T : [c.parts[i] EXCEPT !.placed = TRUE] = [d.parts[i] EXCEPT !.placed = TRUE],
         \A i \in DOMAIN d.edges \ T : c.edges[i] = d.edges[i]
  PROVE  Drawn(c, S) = Drawn(d, T)
<1>1. Without(c.edges, S) = Without(d.edges, T)
  BY DEF Without
<1>2. [i \in DOMAIN c.parts \ S |-> [c.parts[i] EXCEPT !.placed = TRUE]]
      = [i \in DOMAIN d.parts \ T |-> [d.parts[i] EXCEPT !.placed = TRUE]]
  OBVIOUS
<1> QED
  BY <1>1, <1>2 DEF Drawn

LEMMA RecordedKeepsHistory ==
  ASSUME CanvasInv, Exists, Recorded, used \subseteq used'
  PROVE  undo' \in Seq(Pictures') /\ redo' \in Seq(Pictures') /\ HistoryIsBounded'
<1> DEFINE longer == Append(undo, Snapshot)
<1>1. undo \in Seq(Pictures') /\ Snapshot \in Pictures'
  BY CanvasIsReal, PicturesGrow, SeqOfMore DEF CanvasInv
<1>2. longer \in Seq(Pictures') /\ Len(longer) = Len(undo) + 1 /\ Len(undo) \in Nat
  BY <1>1
<1>3. undo' = IF Len(longer) > HistoryLimit THEN Tail(longer) ELSE longer
  BY DEF Recorded, Push
<1>4. Len(undo) <= HistoryLimit
  <2>1. Len(redo) \in Nat
    BY DEF CanvasInv
  <2> QED
    BY <1>2, <2>1, LimitAssumption DEF CanvasInv, HistoryIsBounded
<1> HIDE DEF longer
<1>5. CASE Len(longer) > HistoryLimit
  <2>1. longer # <<>>
    BY <1>2
  <2>2. Tail(longer) \in Seq(Pictures') /\ Len(Tail(longer)) = Len(undo)
    BY <1>2, <2>1
  <2> QED
    BY <1>2, <1>3, <1>4, <1>5, <2>2 DEF Recorded, HistoryIsBounded
<1>6. CASE ~(Len(longer) > HistoryLimit)
  BY <1>2, <1>3, <1>6, LimitAssumption DEF Recorded, HistoryIsBounded
<1> QED
  BY <1>5, <1>6

LEMMA SameHistory ==
  ASSUME CanvasInv, UNCHANGED <<undo, redo>>, used \subseteq used'
  PROVE  undo' \in Seq(Pictures') /\ redo' \in Seq(Pictures') /\ HistoryIsBounded'
<1>1. undo \in Seq(Pictures') /\ redo \in Seq(Pictures')
  BY PicturesGrow, SeqOfMore DEF CanvasInv
<1> QED
  BY <1>1 DEF CanvasInv, HistoryIsBounded

-----------------------------------------------------------------------------
(* The canvas: the requests                                                *)

LEMMA CanvasParts ==
  ASSUME NEW c \in Canvases
  PROVE  /\ c.status \in CanvasStatuses /\ c.parts \in PartMaps /\ c.edges \in EdgeMaps /\ Joined(c)
         /\ c = [status |-> c.status, parts |-> c.parts, edges |-> c.edges]
  BY DEF Canvases

LEMMA NewCanvas ==
  ASSUME NEW status \in CanvasStatuses, NEW parts, NEW edges,
         parts = [i \in DOMAIN parts |-> parts[i]], DOMAIN parts \subseteq used' \cap NodeIds,
         \A i \in DOMAIN parts : parts[i] \in Parts,
         edges = [i \in DOMAIN edges |-> edges[i]], DOMAIN edges \subseteq used' \cap EdgeIds,
         \A i \in DOMAIN edges : edges[i] \in Edges,
         \A i \in DOMAIN edges : edges[i].valid => {edges[i].source, edges[i].target} \subseteq DOMAIN parts,
         canvas' = [status |-> status, parts |-> parts, edges |-> edges]
  PROVE  canvas' \in Canvases'
<1>1. parts \in [DOMAIN parts -> Parts] /\ edges \in [DOMAIN edges -> Edges]
  OBVIOUS
<1>2. parts \in PartMaps' /\ edges \in EdgeMaps'
  BY <1>1 DEF PartMaps, EdgeMaps
<1> QED
  BY <1>2 DEF Canvases, Joined

\* What is known of a canvas and its maps.
LEMMA CanvasIs ==
  ASSUME CanvasInv, Exists
  PROVE  /\ canvas = [status |-> canvas.status, parts |-> canvas.parts, edges |-> canvas.edges]
         /\ canvas.status \in CanvasStatuses
         /\ canvas.parts = [i \in DOMAIN canvas.parts |-> canvas.parts[i]]
         /\ DOMAIN canvas.parts \subseteq used \cap NodeIds
         /\ \A i \in DOMAIN canvas.parts : canvas.parts[i] \in Parts
         /\ canvas.edges = [i \in DOMAIN canvas.edges |-> canvas.edges[i]]
         /\ DOMAIN canvas.edges \subseteq used \cap EdgeIds
         /\ \A i \in DOMAIN canvas.edges : canvas.edges[i] \in Edges
         /\ \A i \in DOMAIN canvas.edges :
              canvas.edges[i].valid => {canvas.edges[i].source, canvas.edges[i].target} \subseteq DOMAIN canvas.parts
  BY CanvasIsReal, CanvasParts, PartMap, EdgeMap DEF Joined

\* A part that is added.
LEMMA AddNodeMakesCanvas ==
  ASSUME CanvasInv, Exists, NEW component \in Components, NEW placed \in BOOLEAN, NEW id \in NodeIds,
         used' = used \cup {id}, canvas' = [canvas EXCEPT !.parts = With(@, id, NewPart(component, placed))]
  PROVE  canvas' \in Canvases'
<1> DEFINE parts == With(canvas.parts, id, NewPart(component, placed))
<1>1. /\ DOMAIN parts = DOMAIN canvas.parts \cup {id} /\ parts = [i \in DOMAIN parts |-> parts[i]]
      /\ \A i \in DOMAIN parts : parts[i] \in Parts
  BY CanvasIs DEF With, NewPart, Parts
<1>2. canvas' = [status |-> canvas.status, parts |-> parts, edges |-> canvas.edges]
  BY CanvasIs
<1> HIDE DEF parts
<1> QED
  BY <1>1, <1>2, CanvasIs, NewCanvas

LEMMA UpdateNodeMakesCanvas ==
  ASSUME CanvasInv, Exists, NEW id \in DOMAIN canvas.parts, UNCHANGED used,
         NEW part \in Parts, canvas' = [canvas EXCEPT !.parts = [@ EXCEPT ![id] = part]]
  PROVE  canvas' \in Canvases'
<1> DEFINE parts == [canvas.parts EXCEPT ![id] = part]
<1>1. /\ DOMAIN parts = DOMAIN canvas.parts /\ parts = [i \in DOMAIN parts |-> parts[i]]
      /\ \A i \in DOMAIN parts : parts[i] \in Parts
  BY CanvasIs
<1>2. canvas' = [status |-> canvas.status, parts |-> parts, edges |-> canvas.edges]
  BY CanvasIs
<1> HIDE DEF parts
<1> QED
  BY <1>1, <1>2, CanvasIs, NewCanvas

\* A part goes with its wires.
LEMMA DeleteNodesMakesCanvas ==
  ASSUME CanvasInv, Exists, NEW ids, UNCHANGED used,
         canvas' = [status |-> canvas.status, parts |-> Without(canvas.parts, ids),
                    edges |-> EdgesClearOf(canvas.edges, ids)]
  PROVE  canvas' \in Canvases'
<1> DEFINE parts == Without(canvas.parts, ids)
           edges == EdgesClearOf(canvas.edges, ids)
<1>1. /\ DOMAIN parts = DOMAIN canvas.parts \ ids /\ parts = [i \in DOMAIN parts |-> parts[i]]
      /\ \A i \in DOMAIN parts : parts[i] \in Parts
  BY CanvasIs DEF Without
<1>2. /\ DOMAIN edges \subseteq DOMAIN canvas.edges /\ edges = [i \in DOMAIN edges |-> edges[i]]
      /\ \A i \in DOMAIN edges : /\ edges[i] = canvas.edges[i]
                                 /\ edges[i].source \notin ids /\ edges[i].target \notin ids
  BY DEF EdgesClearOf, Without
<1>3. canvas' = [status |-> canvas.status, parts |-> parts, edges |-> edges]
  OBVIOUS
<1> HIDE DEF parts, edges
<1>4. /\ \A i \in DOMAIN edges : edges[i] \in Edges
      /\ \A i \in DOMAIN edges : edges[i].valid => {edges[i].source, edges[i].target} \subseteq DOMAIN parts
  BY <1>1, <1>2, CanvasIs
<1>5. /\ DOMAIN parts \subseteq used' \cap NodeIds /\ DOMAIN edges \subseteq used' \cap EdgeIds
      /\ canvas.status \in CanvasStatuses
  BY <1>1, <1>2, CanvasIs
<1> QED
  BY <1>1, <1>2, <1>3, <1>4, <1>5, NewCanvas

\* Copies of some parts beside what there was.
LEMMA CopiedMakesCanvas ==
  ASSUME CanvasInv, Exists, NEW ids \in SUBSET DOMAIN canvas.parts, NEW copy \in [ids -> NodeIds \ used],
         Copied(ids, copy)
  PROVE  /\ canvas' \in Canvases' /\ used' = used \cup {copy[i] : i \in ids} /\ used' \subseteq used \cup NodeIds
         /\ canvas'.edges = canvas.edges
         /\ DOMAIN canvas'.parts = DOMAIN canvas.parts \cup {copy[i] : i \in ids}
         /\ \A i \in DOMAIN canvas.parts : canvas'.parts[i] = canvas.parts[i]
<1> DEFINE new == {copy[i] : i \in ids}
           original(j) == CHOOSE i \in ids : copy[i] = j
           parts == [j \in DOMAIN canvas.parts \cup new |->
                       IF j \in DOMAIN canvas.parts THEN canvas.parts[j]
                       ELSE [canvas.parts[original(j)] EXCEPT !.reported = FALSE]]
<1>3. canvas' = [status |-> canvas.status, parts |-> parts, edges |-> canvas.edges]
  BY CanvasIs DEF Copied
<1>4. new \subseteq NodeIds /\ used' = used \cup new
  BY DEF Copied
<1>5. ASSUME NEW j \in new PROVE original(j) \in DOMAIN canvas.parts
  <2>1. \E i \in ids : copy[i] = j
    OBVIOUS
  <2> QED
    BY <2>1
<1> HIDE DEF original, new
<1>6. DOMAIN parts = DOMAIN canvas.parts \cup new /\ parts = [j \in DOMAIN parts |-> parts[j]]
  OBVIOUS
<1>7. \A j \in DOMAIN parts : parts[j] \in Parts
  <2> SUFFICES ASSUME NEW j \in DOMAIN canvas.parts \cup new PROVE parts[j] \in Parts
    BY <1>6
  <2>1. CASE j \in DOMAIN canvas.parts
    BY <2>1, CanvasIs
  <2>2. CASE j \notin DOMAIN canvas.parts
    <3>1. canvas.parts[original(j)] \in Parts
      BY <1>5, <2>2, CanvasIs
    <3>2. [canvas.parts[original(j)] EXCEPT !.reported = FALSE] \in Parts
      BY <3>1 DEF Parts
    <3> QED
      BY <2>2, <3>2
  <2> QED
    BY <2>1, <2>2
<1> HIDE DEF parts
<1>8. DOMAIN parts \subseteq used' \cap NodeIds /\ DOMAIN canvas.edges \subseteq used' \cap EdgeIds
  BY <1>4, <1>6, CanvasIs
<1>9. \A i \in DOMAIN canvas.edges :
        canvas.edges[i].valid => {canvas.edges[i].source, canvas.edges[i].target} \subseteq DOMAIN parts
  BY <1>6, CanvasIs
<1>10. canvas' \in Canvases'
  BY <1>3, <1>6, <1>7, <1>8, <1>9, CanvasIs, NewCanvas
<1>11. \A i \in DOMAIN canvas.parts : parts[i] = canvas.parts[i]
  BY DEF parts
<1> QED
  BY <1>3, <1>4, <1>6, <1>10, <1>11 DEF new

\* A wire is marked sound only if it ends at parts that are there.
LEMMA AddWireMakesCanvas ==
  ASSUME CanvasInv, Exists, NEW source \in NodeIds, NEW target \in NodeIds, NEW protocol, NEW samePin,
         NEW id \in EdgeIds, WireAdded(id, source, target, protocol, samePin)
  PROVE  /\ canvas' \in Canvases' /\ used' = used \cup {id} /\ canvas'.parts = canvas.parts
         /\ DOMAIN canvas'.edges = DOMAIN canvas.edges \cup {id}
         /\ \A i \in DOMAIN canvas.edges : i # id => canvas'.edges[i] = canvas.edges[i]
<1> DEFINE edge == [source |-> source, target |-> target,
                    valid |-> Sound(canvas.parts, source, target, protocol, samePin)]
           edges == With(canvas.edges, id, edge)
<1>1. edge \in Edges /\ (edge.valid => {edge.source, edge.target} \subseteq DOMAIN canvas.parts)
  BY DEF Edges, Sound
<1>2. canvas' = [status |-> canvas.status, parts |-> canvas.parts, edges |-> edges] /\ used' = used \cup {id}
  BY CanvasIs DEF WireAdded
<1> HIDE DEF edge
<1>3. /\ DOMAIN edges = DOMAIN canvas.edges \cup {id} /\ edges = [i \in DOMAIN edges |-> edges[i]]
      /\ \A i \in DOMAIN edges : edges[i] \in Edges
      /\ \A i \in DOMAIN edges : edges[i].valid => {edges[i].source, edges[i].target} \subseteq DOMAIN canvas.parts
  BY <1>1, CanvasIs DEF With
<1>4. \A i \in DOMAIN canvas.edges : i # id => edges[i] = canvas.edges[i]
  BY DEF With
<1> HIDE DEF edges
<1>5. DOMAIN canvas.parts \subseteq used' \cap NodeIds /\ DOMAIN edges \subseteq used' \cap EdgeIds
  BY <1>2, <1>3, CanvasIs
<1>6. canvas' \in Canvases'
  BY <1>2, <1>3, <1>5, CanvasIs, NewCanvas
<1> QED
  BY <1>2, <1>3, <1>4, <1>6

LEMMA DeleteWiresMakesCanvas ==
  ASSUME CanvasInv, Exists, NEW ids, UNCHANGED used, canvas' = [canvas EXCEPT !.edges = Without(@, ids)]
  PROVE  canvas' \in Canvases'
<1> DEFINE edges == Without(canvas.edges, ids)
<1>1. /\ DOMAIN edges \subseteq DOMAIN canvas.edges /\ edges = [i \in DOMAIN edges |-> edges[i]]
      /\ \A i \in DOMAIN edges : edges[i] = canvas.edges[i]
  BY DEF Without
<1>2. canvas' = [status |-> canvas.status, parts |-> canvas.parts, edges |-> edges]
  BY CanvasIs
<1> HIDE DEF edges
<1>3. /\ \A i \in DOMAIN edges : edges[i] \in Edges
      /\ \A i \in DOMAIN edges : edges[i].valid => {edges[i].source, edges[i].target} \subseteq DOMAIN canvas.parts
      /\ DOMAIN edges \subseteq used' \cap EdgeIds
  BY <1>1, CanvasIs
<1> QED
  BY <1>1, <1>2, <1>3, CanvasIs, NewCanvas

LEMMA SetStatusMakesCanvas ==
  ASSUME CanvasInv, Exists, NEW status \in CanvasStatuses, UNCHANGED used,
         canvas' = [canvas EXCEPT !.status = status]
  PROVE  canvas' \in Canvases'
<1>1. canvas' = [status |-> status, parts |-> canvas.parts, edges |-> canvas.edges]
  BY CanvasIs
<1> QED
  BY <1>1, CanvasIs, NewCanvas

LEMMA ReportsMakeCanvas ==
  ASSUME CanvasInv, Exists, NEW status \in CanvasStatuses, NEW reported \in BOOLEAN, UNCHANGED used,
         canvas' = [status |-> status, parts |-> AllReported(reported), edges |-> canvas.edges]
  PROVE  canvas' \in Canvases'
<1> DEFINE parts == AllReported(reported)
<1>1. /\ DOMAIN parts = DOMAIN canvas.parts /\ parts = [i \in DOMAIN parts |-> parts[i]]
      /\ \A i \in DOMAIN parts : parts[i] \in Parts
  BY CanvasIs DEF AllReported, Parts
<1>2. canvas' = [status |-> status, parts |-> parts, edges |-> canvas.edges]
  OBVIOUS
<1> HIDE DEF parts
<1>3. /\ DOMAIN parts \subseteq used' \cap NodeIds /\ DOMAIN canvas.edges \subseteq used' \cap EdgeIds
      /\ \A i \in DOMAIN canvas.edges : canvas.edges[i] \in Edges
      /\ canvas.edges = [i \in DOMAIN canvas.edges |-> canvas.edges[i]]
      /\ \A i \in DOMAIN canvas.edges :
           canvas.edges[i].valid => {canvas.edges[i].source, canvas.edges[i].target} \subseteq DOMAIN parts
  BY <1>1, CanvasIs
<1> QED
  BY <1>1, <1>2, <1>3, NewCanvas

\* What saves what it made.
LEMMA SavingKeepsCanvas ==
  ASSUME CanvasInv, canvas' \in Canvases', Persisted, used \subseteq used',
         used' \subseteq used \cup NodeIds \cup EdgeIds,
         undo' \in Seq(Pictures'), redo' \in Seq(Pictures'), HistoryIsBounded'
  PROVE  CanvasInv'
  BY SavedIsCanvas DEF CanvasInv

\* A picture that was put away is put back.
LEMMA RestoreMakesCanvas ==
  ASSUME CanvasInv, Exists, NEW s \in Pictures, UNCHANGED used, Restore(s)
  PROVE  canvas' \in Canvases' /\ Persisted
<1>1. s.parts \in PartMaps /\ s.edges \in EdgeMaps /\ Joined(s)
  BY DEF Pictures
<1>2. canvas' = [status |-> canvas.status, parts |-> s.parts, edges |-> s.edges]
  BY CanvasIs DEF Restore
<1>3. [status |-> canvas.status, parts |-> s.parts, edges |-> s.edges] \in Canvases
  BY <1>1, CanvasIs DEF Canvases, Joined
<1>4. Canvases' = Canvases
  BY DEF Canvases, PartMaps, EdgeMaps
<1> QED
  BY <1>2, <1>3, <1>4 DEF Restore, Persisted

LEMMA StackTop ==
  ASSUME NEW S, NEW stack \in Seq(S), stack # <<>>
  PROVE  Front(stack) \in Seq(S) /\ Last(stack) \in S /\ Len(Front(stack)) = Len(stack) - 1 /\ Len(stack) \in Nat
<1>1. Len(stack) \in Nat \ {0} /\ Last(stack) \in S
  BY DEF Last
<1>2. /\ Front(stack) = [i \in 1 .. Len(stack) - 1 |-> stack[i]]
  BY <1>1 DEF Front
<1> QED
  BY <1>1, <1>2

LEMMA UndoRedoKeepCanvas ==
  ASSUME CanvasInv, UndoCanvas \/ RedoCanvas
  PROVE  CanvasInv'
<1>1. Exists /\ Snapshot \in Pictures /\ UNCHANGED used /\ Len(undo) + Len(redo) <= HistoryLimit
  BY CanvasIsReal DEF UndoCanvas, RedoCanvas, CanvasInv, HistoryIsBounded
<1>2. Pictures' = Pictures /\ used' \subseteq used \cup NodeIds \cup EdgeIds
  BY <1>1 DEF Pictures, PartMaps, EdgeMaps, Joined
<1>3. ASSUME NEW from \in Seq(Pictures), NEW to \in Seq(Pictures), from # <<>>
      PROVE  /\ Front(from) \in Seq(Pictures) /\ Append(to, Snapshot) \in Seq(Pictures)
             /\ Last(from) \in Pictures
             /\ Len(Front(from)) + Len(Append(to, Snapshot)) = Len(from) + Len(to)
             /\ Len(from) \in Nat /\ Len(to) \in Nat /\ Len(Front(from)) \in Nat /\ Len(Append(to, Snapshot)) \in Nat
  BY <1>1, <1>3, StackTop
<1>4. CASE UndoCanvas
  <2>1. undo # <<>> /\ undo' = Front(undo) /\ redo' = Append(redo, Snapshot) /\ Restore(Last(undo))
    BY <1>4 DEF UndoCanvas
  <2>2. undo \in Seq(Pictures) /\ redo \in Seq(Pictures)
    BY DEF CanvasInv
  <2>3. canvas' \in Canvases' /\ Persisted
    BY <1>1, <1>3, <2>1, <2>2, RestoreMakesCanvas
  <2>4. undo' \in Seq(Pictures) /\ redo' \in Seq(Pictures)
    BY <1>3, <2>1, <2>2
  <2>5. Len(undo') + Len(redo') = Len(undo) + Len(redo)
    BY <1>3, <2>1, <2>2
  <2>6. undo' \in Seq(Pictures') /\ redo' \in Seq(Pictures') /\ HistoryIsBounded'
    BY <1>1, <1>2, <2>4, <2>5 DEF HistoryIsBounded
  <2> QED
    BY <1>1, <1>2, <2>3, <2>6, SavingKeepsCanvas
<1>5. CASE RedoCanvas
  <2>1. redo # <<>> /\ redo' = Front(redo) /\ undo' = Append(undo, Snapshot) /\ Restore(Last(redo))
    BY <1>5 DEF RedoCanvas
  <2>2. undo \in Seq(Pictures) /\ redo \in Seq(Pictures)
    BY DEF CanvasInv
  <2>3. canvas' \in Canvases' /\ Persisted
    BY <1>1, <1>3, <2>1, <2>2, RestoreMakesCanvas
  <2>4. undo' \in Seq(Pictures) /\ redo' \in Seq(Pictures)
    BY <1>3, <2>1, <2>2
  <2>5. Len(undo') + Len(redo') = Len(undo) + Len(redo)
    <3>1. /\ Len(redo') + Len(undo') = Len(redo) + Len(undo)
          /\ Len(redo) \in Nat /\ Len(undo) \in Nat /\ Len(redo') \in Nat /\ Len(undo') \in Nat
      BY <1>3, <2>1, <2>2
    <3> QED
      BY <3>1
  <2>6. undo' \in Seq(Pictures') /\ redo' \in Seq(Pictures') /\ HistoryIsBounded'
    BY <1>1, <1>2, <2>4, <2>5 DEF HistoryIsBounded
  <2> QED
    BY <1>1, <1>2, <2>3, <2>6, SavingKeepsCanvas
<1> QED
  BY <1>4, <1>5

\* What a refused request leaves behind is not drawn.
LEMMA RefusedKeepsCanvas ==
  ASSUME CanvasInv, Exists, canvas' \in Canvases', Drawn(canvas', unsaved') = Drawn(canvas, unsaved),
         UNCHANGED session, used \subseteq used', used' \subseteq used \cup NodeIds \cup EdgeIds,
         unsaved' \subseteq used',
         undo' \in Seq(Pictures'), redo' \in Seq(Pictures'), HistoryIsBounded'
  PROVE  CanvasInv'
<1>1. session \notin {NoCanvas, TornSession} /\ Drawn(session, {}) = Drawn(canvas, unsaved)
  BY DEF CanvasInv, SessionIsWhatWasDone
<1>2. Drawn(session', {}) = Drawn(canvas', unsaved')
  BY <1>1
<1>3. SessionIsWhatWasDone'
  BY <1>1, <1>2 DEF SessionIsWhatWasDone, Exists, Drawn, Without
<1>4. session' \in Canvases'
  BY <1>1, PicturesGrow DEF CanvasInv
<1> QED
  BY <1>3, <1>4 DEF CanvasInv

\* Neither are the copies of a refused duplicate, nor the wire that could not be routed.
LEMMA LeftBehindKeepsCanvas ==
  ASSUME CanvasInv, Exists, Recorded, UNCHANGED session, canvas' \in Canvases',
         NEW new \in SUBSET (NodeIds \cup EdgeIds), new \cap used = {},
         used' = used \cup new, unsaved' = unsaved \cup new,
         DOMAIN canvas.parts \subseteq DOMAIN canvas'.parts, DOMAIN canvas'.parts \subseteq DOMAIN canvas.parts \cup new,
         DOMAIN canvas.edges \subseteq DOMAIN canvas'.edges, DOMAIN canvas'.edges \subseteq DOMAIN canvas.edges \cup new,
         \A i \in DOMAIN canvas.parts : canvas'.parts[i] = canvas.parts[i],
         \A i \in DOMAIN canvas.edges : canvas'.edges[i] = canvas.edges[i]
  PROVE  CanvasInv'
<1>1. DOMAIN canvas.parts \subseteq used /\ DOMAIN canvas.edges \subseteq used /\ unsaved \subseteq used
  BY CanvasIs DEF CanvasInv
<1>2. /\ DOMAIN canvas'.parts \ unsaved' = DOMAIN canvas.parts \ unsaved
      /\ DOMAIN canvas'.edges \ unsaved' = DOMAIN canvas.edges \ unsaved
  BY <1>1
<1>3. \A i \in DOMAIN canvas.parts \ unsaved :
        [canvas'.parts[i] EXCEPT !.placed = TRUE] = [canvas.parts[i] EXCEPT !.placed = TRUE]
  OBVIOUS
<1>4. PICK c, d, S, T : c = canvas' /\ d = canvas /\ S = unsaved' /\ T = unsaved
  OBVIOUS
<1>5. Drawn(c, S) = Drawn(d, T)
  BY <1>2, <1>3, <1>4, DrawnAlike
<1>6. Drawn(canvas', unsaved') = Drawn(canvas, unsaved)
  BY <1>4, <1>5
<1>7. used \subseteq used' /\ used' \subseteq used \cup NodeIds \cup EdgeIds /\ unsaved' \subseteq used'
  BY <1>1
<1> QED
  BY <1>6, <1>7, RecordedKeepsHistory, RefusedKeepsCanvas

LEMMA DuplicateNodesRefusedKeepsCanvas ==
  ASSUME CanvasInv, NEW ids \in SUBSET NodeIds, DuplicateNodesRefused(ids)
  PROVE  CanvasInv'
<1>1. Exists /\ Recorded /\ UNCHANGED session
  BY DEF DuplicateNodesRefused
<1> DEFINE there == ids \cap DOMAIN canvas.parts
<1>2. PICK before \in SUBSET Placed(there) : \E copy \in Copies(before) :
        Copied(before, copy) /\ unsaved' = unsaved \cup {copy[i] : i \in before}
  BY DEF DuplicateNodesRefused
<1>3. PICK copy \in [before -> NodeIds \ used] :
        Copied(before, copy) /\ unsaved' = unsaved \cup {copy[i] : i \in before}
  BY <1>2 DEF Copies
<1>4. before \in SUBSET DOMAIN canvas.parts
  BY <1>2 DEF Placed
<1> DEFINE new == {copy[i] : i \in before}
<1>5. new \in SUBSET (NodeIds \cup EdgeIds) /\ new \cap used = {}
  OBVIOUS
<1>6. /\ canvas' \in Canvases' /\ used' = used \cup new
      /\ canvas'.edges = canvas.edges /\ DOMAIN canvas'.parts = DOMAIN canvas.parts \cup new
      /\ \A i \in DOMAIN canvas.parts : canvas'.parts[i] = canvas.parts[i]
  BY <1>1, <1>3, <1>4, CopiedMakesCanvas
<1>7. unsaved' = unsaved \cup new
  BY <1>3
<1> HIDE DEF new
<1> QED
  BY <1>1, <1>5, <1>6, <1>7, LeftBehindKeepsCanvas

LEMMA AddWireRefusedKeepsCanvas ==
  ASSUME CanvasInv, NEW s \in NodeIds, NEW d \in NodeIds, NEW protocol, NEW samePin,
         AddWireRefused(s, d, protocol, samePin)
  PROVE  CanvasInv'
<1>1. Exists /\ Recorded /\ UNCHANGED session
  BY DEF AddWireRefused
<1>2. PICK id \in EdgeIds \ used : WireAdded(id, s, d, protocol, samePin) /\ unsaved' = unsaved \cup {id}
  BY DEF AddWireRefused
<1>3. /\ canvas' \in Canvases' /\ used' = used \cup {id} /\ canvas'.parts = canvas.parts
      /\ DOMAIN canvas'.edges = DOMAIN canvas.edges \cup {id}
      /\ \A i \in DOMAIN canvas.edges : i # id => canvas'.edges[i] = canvas.edges[i]
  BY <1>1, <1>2, AddWireMakesCanvas
<1>4. id \notin DOMAIN canvas.edges
  BY <1>1, <1>2, CanvasIs
<1> QED
  BY <1>1, <1>2, <1>3, <1>4, LeftBehindKeepsCanvas

LEMMA UpdateNodeRefusedKeepsCanvas ==
  ASSUME CanvasInv, NEW id \in NodeIds, NEW placed \in BOOLEAN, UpdateNodeRefused(id, placed)
  PROVE  CanvasInv'
<1>1. Exists /\ id \in DOMAIN canvas.parts /\ Recorded /\ UNCHANGED <<session, used, unsaved>>
  BY DEF UpdateNodeRefused, NotPersisted
<1> DEFINE part == [canvas.parts[id] EXCEPT !.placed = placed]
           parts == [canvas.parts EXCEPT ![id] = part]
<1>2. canvas' = [status |-> canvas.status, parts |-> parts, edges |-> canvas.edges]
  BY <1>1, CanvasIs DEF UpdateNodeRefused
<1>3. part \in Parts /\ [part EXCEPT !.placed = TRUE] = [canvas.parts[id] EXCEPT !.placed = TRUE]
  <2>1. canvas.parts[id] \in Parts
    BY <1>1, CanvasIs
  <2> QED
    BY <2>1 DEF Parts
<1> HIDE DEF part
<1>4. /\ DOMAIN parts = DOMAIN canvas.parts /\ parts = [i \in DOMAIN parts |-> parts[i]]
      /\ \A i \in DOMAIN parts : parts[i] = IF i = id THEN part ELSE canvas.parts[i]
  BY <1>1, CanvasIs
<1> HIDE DEF parts
<1>5. /\ DOMAIN parts \subseteq used' \cap NodeIds /\ DOMAIN canvas.edges \subseteq used' \cap EdgeIds
      /\ \A i \in DOMAIN parts : parts[i] \in Parts
      /\ \A i \in DOMAIN canvas.edges :
           canvas.edges[i].valid => {canvas.edges[i].source, canvas.edges[i].target} \subseteq DOMAIN parts
  BY <1>1, <1>3, <1>4, CanvasIs
<1>6. canvas' \in Canvases'
  BY <1>1, <1>2, <1>4, <1>5, CanvasIs, NewCanvas
<1>7. Drawn(canvas', unsaved') = Drawn(canvas, unsaved)
  <2>1. PICK c, d, S : c = canvas' /\ d = canvas /\ S = unsaved /\ S = unsaved'
    BY <1>1
  <2>2. c.parts = parts /\ c.edges = d.edges
    BY <1>2, <2>1
  <2>3. \A i \in DOMAIN d.parts \ S : [c.parts[i] EXCEPT !.placed = TRUE] = [d.parts[i] EXCEPT !.placed = TRUE]
    BY <1>3, <1>4, <2>1, <2>2
  <2>4. DOMAIN c.parts \ S = DOMAIN d.parts \ S
    BY <1>4, <2>1, <2>2
  <2>5. Drawn(c, S) = Drawn(d, S)
    BY <2>2, <2>3, <2>4, DrawnAlike
  <2> QED
    BY <2>1, <2>5
<1>8. unsaved' \subseteq used' /\ used' \subseteq used \cup NodeIds \cup EdgeIds
  BY <1>1 DEF CanvasInv
<1> QED
  BY <1>1, <1>6, <1>7, <1>8, RecordedKeepsHistory, RefusedKeepsCanvas

LEMMA RunRefusedKeepsCanvas ==
  ASSUME CanvasInv, RunRefused
  PROVE  CanvasInv'
<1>1. /\ Exists /\ UNCHANGED <<undo, redo, session, used, unsaved>>
      /\ canvas' = [canvas EXCEPT !.status = "running"]
  BY DEF RunRefused, NotPersisted
<1>2. canvas' \in Canvases'
  BY <1>1, SetStatusMakesCanvas DEF CanvasStatuses
<1>3. canvas'.parts = canvas.parts /\ canvas'.edges = canvas.edges
  BY <1>1, CanvasIs
<1>4. Drawn(canvas', unsaved') = Drawn(canvas, unsaved)
  BY <1>1, <1>3 DEF Drawn
<1>5. unsaved' \subseteq used' /\ used' \subseteq used \cup NodeIds \cup EdgeIds
  BY <1>1 DEF CanvasInv
<1> QED
  BY <1>1, <1>2, <1>4, <1>5, SameHistory, RefusedKeepsCanvas

LEMMA AddNodeRefusedKeepsCanvas ==
  ASSUME CanvasInv, AddNodeRefused
  PROVE  CanvasInv'
<1>1. Exists /\ Recorded /\ UNCHANGED <<canvas, session, used, unsaved>>
  BY DEF AddNodeRefused, NotPersisted
<1>2. canvas' \in Canvases'
  BY <1>1, CanvasIsReal, PicturesGrow
<1>3. unsaved' \subseteq used' /\ used' \subseteq used \cup NodeIds \cup EdgeIds
  BY <1>1 DEF CanvasInv
<1>4. Drawn(canvas', unsaved') = Drawn(canvas, unsaved)
  BY <1>1
<1> QED
  BY <1>1, <1>2, <1>3, <1>4, RecordedKeepsHistory, RefusedKeepsCanvas

LEMMA CreateCanvasKeepsCanvas ==
  ASSUME CanvasInv, CreateCanvas
  PROVE  CanvasInv'
<1>1. /\ canvas' = [status |-> "created", parts |-> <<>>, edges |-> <<>>] /\ Persisted
      /\ undo' = <<>> /\ redo' = <<>> /\ UNCHANGED used
  BY DEF CreateCanvas
<1>2. DOMAIN <<>> = {} /\ <<>> = [i \in DOMAIN <<>> |-> <<>>[i]] /\ "created" \in CanvasStatuses
  BY DEF CanvasStatuses
<1>3. canvas' \in Canvases'
  BY <1>1, <1>2, NewCanvas
<1>4. undo' \in Seq(Pictures') /\ redo' \in Seq(Pictures') /\ HistoryIsBounded'
  BY <1>1, LimitAssumption DEF HistoryIsBounded
<1> QED
  BY <1>1, <1>3, <1>4, SavingKeepsCanvas

-----------------------------------------------------------------------------
LEMMA RecordingKeepsCanvas ==
  ASSUME CanvasInv, Exists, canvas' \in Canvases', Persisted, Recorded, used \subseteq used',
         used' \subseteq used \cup NodeIds \cup EdgeIds
  PROVE  CanvasInv'
  BY RecordedKeepsHistory, SavingKeepsCanvas

LEMMA StatusKeepsCanvas ==
  ASSUME CanvasInv, NEW status \in CanvasStatuses, SetStatus(status)
  PROVE  CanvasInv'
<1>1. Exists /\ canvas' = [canvas EXCEPT !.status = status] /\ Persisted /\ UNCHANGED <<undo, redo, used>>
  BY DEF SetStatus
<1>2. canvas' \in Canvases'
  BY <1>1, SetStatusMakesCanvas
<1> QED
  BY <1>1, <1>2, SameHistory, SavingKeepsCanvas

LEMMA CanvasRequestKeepsCanvas ==
  ASSUME CanvasInv, CanvasRequest
  PROVE  CanvasInv'
<1>1. CASE CreateCanvas \/ AddNodeRefused \/ UndoCanvas \/ RedoCanvas \/ RunRefused
  BY <1>1, CreateCanvasKeepsCanvas, AddNodeRefusedKeepsCanvas, UndoRedoKeepCanvas, RunRefusedKeepsCanvas
<1>2. ASSUME NEW c \in Components, NEW placed \in BOOLEAN, AddNode(c, placed) PROVE CanvasInv'
  <2>1. PICK id \in NodeIds \ used : /\ used' = used \cup {id}
                                    /\ canvas' = [canvas EXCEPT !.parts = With(@, id, NewPart(c, placed))]
    BY <1>2 DEF AddNode
  <2>2. Exists /\ Recorded /\ Persisted
    BY <1>2 DEF AddNode
  <2>3. canvas' \in Canvases'
    BY <2>1, <2>2, AddNodeMakesCanvas
  <2> QED
    BY <2>1, <2>2, <2>3, RecordingKeepsCanvas
<1>3. ASSUME NEW id \in NodeIds, NEW placed \in BOOLEAN, UpdateNode(id, placed) PROVE CanvasInv'
  <2>1. Exists /\ id \in DOMAIN canvas.parts /\ Recorded /\ Persisted /\ UNCHANGED used
    BY <1>3 DEF UpdateNode
  <2> DEFINE part == [canvas.parts[id] EXCEPT !.placed = placed, !.patched = TRUE]
  <2>2. part \in Parts
    <3>1. canvas.parts[id] \in Parts
      BY <2>1, CanvasIs
    <3> QED
      BY <3>1 DEF Parts
  <2>3. canvas' = [canvas EXCEPT !.parts = [@ EXCEPT ![id] = part]]
    BY <1>3, <2>1, CanvasIs DEF UpdateNode
  <2> HIDE DEF part
  <2>4. canvas' \in Canvases'
    BY <2>1, <2>2, <2>3, UpdateNodeMakesCanvas
  <2> QED
    BY <2>1, <2>4, RecordingKeepsCanvas
<1>4. ASSUME NEW id \in NodeIds, NEW placed \in BOOLEAN, UpdateNodeRefused(id, placed) PROVE CanvasInv'
  BY <1>4, UpdateNodeRefusedKeepsCanvas
<1>5. ASSUME NEW ids \in SUBSET NodeIds, DeleteNodes(ids) PROVE CanvasInv'
  <2>1. Exists /\ Recorded /\ Persisted /\ UNCHANGED used
    BY <1>5 DEF DeleteNodes
  <2>2. canvas' = [status |-> canvas.status, parts |-> Without(canvas.parts, ids),
                   edges |-> EdgesClearOf(canvas.edges, ids)]
    BY <1>5, <2>1, CanvasIs DEF DeleteNodes
  <2>3. canvas' \in Canvases'
    BY <2>1, <2>2, DeleteNodesMakesCanvas
  <2> QED
    BY <2>1, <2>3, RecordingKeepsCanvas
<1>6. ASSUME NEW ids \in SUBSET NodeIds, DuplicateNodes(ids) PROVE CanvasInv'
  <2>1. Exists /\ Recorded /\ Persisted
    BY <1>6 DEF DuplicateNodes
  <2> DEFINE there == ids \cap DOMAIN canvas.parts
  <2>2. PICK copy \in [there -> NodeIds \ used] : Copied(there, copy)
    BY <1>6 DEF DuplicateNodes, Copies
  <2>3. canvas' \in Canvases' /\ used \subseteq used' /\ used' \subseteq used \cup NodeIds
    BY <2>1, <2>2, CopiedMakesCanvas
  <2> QED
    BY <2>1, <2>3, RecordingKeepsCanvas
<1>7. ASSUME NEW s \in NodeIds, NEW d \in NodeIds, NEW protocol \in Protocols, NEW samePin \in BOOLEAN,
             AddWire(s, d, protocol, samePin)
      PROVE  CanvasInv'
  <2>1. Exists /\ Recorded /\ Persisted
    BY <1>7 DEF AddWire
  <2>2. PICK id \in EdgeIds \ used : WireAdded(id, s, d, protocol, samePin)
    BY <1>7 DEF AddWire
  <2>3. canvas' \in Canvases' /\ used' = used \cup {id}
    BY <2>1, <2>2, AddWireMakesCanvas
  <2> QED
    BY <2>1, <2>2, <2>3, RecordingKeepsCanvas
<1>8. ASSUME NEW ids \in SUBSET EdgeIds, DeleteWires(ids) PROVE CanvasInv'
  <2>1. /\ Exists /\ Recorded /\ Persisted /\ UNCHANGED used
        /\ canvas' = [canvas EXCEPT !.edges = Without(@, ids)]
    BY <1>8 DEF DeleteWires
  <2>2. canvas' \in Canvases'
    BY <2>1, DeleteWiresMakesCanvas
  <2> QED
    BY <2>1, <2>2, RecordingKeepsCanvas
<1>9. CASE Connected \/ Disconnected \/ RunCanvas \/ PauseCanvas
  <2>1. {"connected", "running", "paused", "stopped"} \subseteq CanvasStatuses
    BY DEF CanvasStatuses
  <2>2. \E status \in {"connected", "running", "paused", "stopped"} : SetStatus(status)
    BY <1>9 DEF Connected, Disconnected, RunCanvas, PauseCanvas
  <2> QED
    BY <2>1, <2>2, StatusKeepsCanvas
<1>10. CASE ResetCanvas
  <2>1. Exists /\ Persisted /\ UNCHANGED <<undo, redo, used>>
    BY <1>10 DEF ResetCanvas
  <2>2. canvas' = [status |-> "connected", parts |-> AllReported(FALSE), edges |-> canvas.edges]
    BY <1>10, <2>1, CanvasIs DEF ResetCanvas
  <2>3. canvas' \in Canvases'
    BY <2>1, <2>2, ReportsMakeCanvas DEF CanvasStatuses
  <2> QED
    BY <2>1, <2>3, SameHistory, SavingKeepsCanvas
<1>11. CASE StepCanvas
  <2>1. Exists /\ Persisted /\ UNCHANGED <<undo, redo, used>>
    BY <1>11 DEF StepCanvas, Exists, NoCanvas
  <2> DEFINE status == IF canvas.status = "connected" THEN "running" ELSE canvas.status
  <2>2. canvas' = [status |-> status, parts |-> AllReported(TRUE), edges |-> canvas.edges]
    BY <1>11, <2>1, CanvasIs DEF StepCanvas
  <2>3. status \in CanvasStatuses
    BY <2>1, CanvasIs DEF CanvasStatuses
  <2> HIDE DEF status
  <2>4. canvas' \in Canvases'
    BY <2>1, <2>2, <2>3, ReportsMakeCanvas
  <2> QED
    BY <2>1, <2>4, SameHistory, SavingKeepsCanvas
<1> QED
  BY <1>1, <1>2, <1>3, <1>4, <1>5, <1>6, <1>7, <1>8, <1>9, <1>10, <1>11,
     DuplicateNodesRefusedKeepsCanvas, AddWireRefusedKeepsCanvas DEF CanvasRequest

\* A new service has what the session file has.
LEMMA RestartKeepsCanvas ==
  ASSUME CanvasInv, NEW torn \in BOOLEAN, CanvasRestart(torn)
  PROVE  CanvasInv'
<1>1. Canvases' = Canvases /\ Pictures' = Pictures /\ used' = used /\ unsaved' = {}
  BY DEF CanvasRestart, Canvases, Pictures, PartMaps, EdgeMaps
<1>2. session' \in {NoCanvas, TornSession} \/ session' \in Canvases
  BY DEF CanvasInv, CanvasRestart
<1>3. canvas' = IF session' = TornSession THEN NoCanvas ELSE session
  BY DEF CanvasRestart
<1>4. session' # TornSession => session' = session
  BY DEF CanvasRestart
<1>5. canvas' = NoCanvas \/ (canvas' \in Canvases /\ session' = canvas')
  BY <1>2, <1>3, <1>4 DEF NoCanvas, TornSession
<1>6. SessionIsWhatWasDone'
  BY <1>1, <1>5, NoneIsReal DEF SessionIsWhatWasDone, Exists, Drawn
<1>7. undo' \in Seq(Pictures') /\ redo' \in Seq(Pictures') /\ HistoryIsBounded'
  BY LimitAssumption DEF CanvasRestart, HistoryIsBounded
<1> QED
  BY <1>1, <1>2, <1>5, <1>6, <1>7 DEF CanvasInv

LEMMA CanvasStarts ==
  ASSUME CanvasInit
  PROVE  CanvasInv
<1>1. canvas = NoCanvas /\ session = NoCanvas /\ undo = <<>> /\ redo = <<>> /\ used = {} /\ unsaved = {}
  BY DEF CanvasInit
<1> QED
  BY <1>1, LimitAssumption DEF CanvasInv, SessionIsWhatWasDone, Exists, HistoryIsBounded

LEMMA CanvasUnchanged ==
  ASSUME CanvasInv, UNCHANGED canvasVars
  PROVE  CanvasInv'
<1>1. UNCHANGED <<canvas, undo, redo, session, used, unsaved>>
  BY DEF canvasVars
<1>2. Canvases' = Canvases /\ Pictures' = Pictures
  BY <1>1 DEF Canvases, Pictures, PartMaps, EdgeMaps
<1>3. SessionIsWhatWasDone' /\ HistoryIsBounded'
  BY <1>1 DEF CanvasInv, SessionIsWhatWasDone, HistoryIsBounded, Exists, Drawn
<1> QED
  BY <1>1, <1>2, <1>3 DEF CanvasInv

LEMMA CanvasStep ==
  ASSUME CanvasInv, [WorkspaceNext]_workspaceVars
  PROVE  CanvasInv'
<1>1. \/ CanvasRequest
      \/ UNCHANGED canvasVars
      \/ \E torn \in BOOLEAN : CanvasRestart(torn)
  BY DEF WorkspaceNext, workspaceVars, Request, Step, Restart
<1> QED
  BY <1>1, CanvasRequestKeepsCanvas, RestartKeepsCanvas, CanvasUnchanged

LEMMA CanvasAlways == WorkspaceSpec => []CanvasInv
<1>1. WorkspaceInit => CanvasInv
  BY CanvasStarts DEF WorkspaceInit
<1>2. CanvasInv /\ [WorkspaceNext]_workspaceVars => CanvasInv'
  BY CanvasStep
<1> QED
  BY <1>1, <1>2, PTL DEF WorkspaceSpec

\* A wire of the canvas that is shown as sound ends at two parts of it,
\* whatever was deleted, copied, taken back or redone since it was drawn and
\* however often the service was started from its session file.
THEOREM WiresEndAtParts == WorkspaceSpec => []SoundWiresEndAtParts
<1>1. CanvasInv => SoundWiresEndAtParts
  BY CanvasIsReal DEF SoundWiresEndAtParts, Canvases
<1> QED
  BY <1>1, CanvasAlways, PTL

\* The session file holds the parts, what was set on them and the wires that
\* the requests left on the canvas, and no more; it lags behind the memory only
\* in what requests that raised left there, until the next one that saves.
THEOREM SessionHoldsWhatWasDone == WorkspaceSpec => []SessionIsWhatWasDone
<1>1. CanvasInv => SessionIsWhatWasDone
  BY DEF CanvasInv
<1> QED
  BY <1>1, CanvasAlways, PTL

\* Undo and redo together never hold more than the history's limit, although
\* neither looks at it when it moves an entry to the other.
THEOREM HistoryStaysBounded == WorkspaceSpec => []HistoryIsBounded
<1>1. CanvasInv => HistoryIsBounded
  BY DEF CanvasInv
<1> QED
  BY <1>1, CanvasAlways, PTL

-----------------------------------------------------------------------------
(* The wires: the invariant                                                *)

WireMaps == UNION {[S -> Wire] : S \in SUBSET WireIds}

\* What a request has made so far; a link has a number from 1.
Requests == [step : {"numbered", "linked"}, wire : Wire, number : Nat \ {0}]
Makings == {m \in Requests : m.step = "numbered" => m.wire.link = 0}

WiresInv ==
    /\ wires \in WireMaps
    /\ drawn \subseteq WireIds /\ DOMAIN wires \subseteq drawn
    /\ wireFile \in [Workspaces -> WireMaps]
    /\ \A ws \in Workspaces : DOMAIN wireFile[ws] \subseteq drawn
    /\ making \in [Threads -> {NoWire} \cup Makings]

\* The graph is always the one a new manager would make of the wires.
GraphIsLoaded == graph = GraphOf(wires)

LinksInv ==
    /\ IsFiniteSet(DOMAIN links) /\ DOMAIN links \subseteq Nat \ {0}
    /\ NoLinkLeftBehind

WiringInv == WiresInv /\ GraphIsLoaded /\ LinksInv /\ DefaultWiresAreStored

LEMMA WireMap ==
  \A f : f \in WireMaps <=> /\ f = [i \in DOMAIN f |-> f[i]] /\ DOMAIN f \subseteq WireIds
                            /\ \A i \in DOMAIN f : f[i] \in Wire
  BY DEF WireMaps

LEMMA NothingIsAMap == <<>> \in WireMaps /\ DOMAIN <<>> = {}
<1>1. DOMAIN <<>> = {} /\ <<>> = [i \in DOMAIN <<>> |-> <<>>[i]]
  OBVIOUS
<1> QED
  BY <1>1, WireMap

LEMMA WithWireIs ==
  ASSUME NEW f \in WireMaps, NEW id \in WireIds, NEW w \in Wire
  PROVE  /\ WithWire(f, id, w) \in WireMaps /\ DOMAIN WithWire(f, id, w) = DOMAIN f \cup {id}
         /\ WithWire(f, id, w)[id] = w /\ \A i \in DOMAIN f \ {id} : WithWire(f, id, w)[i] = f[i]
<1> DEFINE g == WithWire(f, id, w)
<1>1. /\ DOMAIN g = DOMAIN f \cup {id} /\ g = [i \in DOMAIN g |-> g[i]]
      /\ g[id] = w /\ \A i \in DOMAIN f \ {id} : g[i] = f[i]
  BY DEF WithWire
<1> HIDE DEF g
<1>2. g \in WireMaps
  BY <1>1, WireMap
<1> QED
  BY <1>1, <1>2 DEF g

LEMMA WithoutWireIs ==
  ASSUME NEW f \in WireMaps, NEW id
  PROVE  /\ WithoutWire(f, id) \in WireMaps /\ DOMAIN WithoutWire(f, id) = DOMAIN f \ {id}
         /\ \A i \in DOMAIN f \ {id} : WithoutWire(f, id)[i] = f[i]
<1> DEFINE g == WithoutWire(f, id)
<1>1. /\ DOMAIN g = DOMAIN f \ {id} /\ g = [i \in DOMAIN g |-> g[i]]
      /\ \A i \in DOMAIN f \ {id} : g[i] = f[i]
  BY DEF WithoutWire
<1> HIDE DEF g
<1>2. g \in WireMaps
  BY <1>1, WireMap
<1> QED
  BY <1>1, <1>2 DEF g

LEMMA WireEnds ==
  ASSUME NEW w \in Wire
  PROVE  /\ w.a \in Pins /\ w.b \in Pins /\ w.workspace \in Workspaces /\ w.link \in Nat
         /\ {w.a, w.b} \in {{p, q} : p, q \in Pins}
  BY DEF Wire

-----------------------------------------------------------------------------
(* The wires: the graph                                                    *)

PinPairs == {{p, q} : p, q \in Pins}
Joins(w, p, q) == (w.a = p /\ w.b = q) \/ (w.b = p /\ w.a = q)
Between(f, e) == {i \in DOMAIN f : {f[i].a, f[i].b} = e}

LEMMA GraphIs ==
  \A f : GraphOf(f) = [ids |-> DOMAIN f, adj |-> GraphOf(f).adj, edgeIds |-> [e \in PinPairs |-> Between(f, e)]]
  BY DEF GraphOf, PinPairs, Between

LEMMA NeighboursAre ==
  /\ \A f : GraphOf(f).adj = [p \in Pins |-> GraphOf(f).adj[p]]
  /\ \A f : \A p \in Pins : \A q : q \in GraphOf(f).adj[p] <=> \E i \in DOMAIN f : Joins(f[i], p, q)
<1>1. ASSUME NEW f PROVE GraphOf(f).adj = [p \in Pins |-> GraphOf(f).adj[p]]
  BY DEF GraphOf
<1>2. ASSUME NEW f, NEW p \in Pins, NEW q
      PROVE  q \in GraphOf(f).adj[p] <=> \E i \in DOMAIN f : Joins(f[i], p, q)
  <2>1. GraphOf(f).adj[p] = {f[id].b : id \in {i \in DOMAIN f : f[i].a = p}}
                            \cup {f[id].a : id \in {i \in DOMAIN f : f[i].b = p}}
    BY DEF GraphOf
  <2>2. q \in {f[id].b : id \in {i \in DOMAIN f : f[i].a = p}} <=> \E i \in DOMAIN f : f[i].a = p /\ f[i].b = q
    OBVIOUS
  <2>3. q \in {f[id].a : id \in {i \in DOMAIN f : f[i].b = p}} <=> \E i \in DOMAIN f : f[i].b = p /\ f[i].a = q
    OBVIOUS
  <2> QED
    BY <2>1, <2>2, <2>3 DEF Joins
<1> QED
  BY <1>1, <1>2

\* A wire more, a neighbour more at each of its ends.
LEMMA AddEdgeIsGraph ==
  ASSUME NEW f \in WireMaps, NEW id \in WireIds, id \notin DOMAIN f, NEW w \in Wire
  PROVE  AddEdge(GraphOf(f), id, w) = GraphOf(WithWire(f, id, w))
<1> DEFINE g == WithWire(f, id, w)
           old == GraphOf(f)
           new == GraphOf(g)
<1>1. DOMAIN g = DOMAIN f \cup {id} /\ g[id] = w /\ \A i \in DOMAIN f : g[i] = f[i]
  BY WithWireIs
<1> HIDE DEF g
<1>2. ASSUME NEW p \in Pins
      PROVE  new.adj[p] = old.adj[p] \cup (IF p = w.a THEN {w.b} ELSE {}) \cup (IF p = w.b THEN {w.a} ELSE {})
  <2> SUFFICES ASSUME NEW q
               PROVE  q \in new.adj[p] <=> q \in old.adj[p] \/ Joins(w, p, q)
    BY DEF Joins
  <2>1. q \in new.adj[p] <=> \E i \in DOMAIN g : Joins(g[i], p, q)
    BY NeighboursAre
  <2>2. q \in old.adj[p] <=> \E i \in DOMAIN f : Joins(f[i], p, q)
    BY NeighboursAre
  <2> HIDE DEF old, new
  <2> QED
    BY <1>1, <2>1, <2>2
<1>3. ASSUME NEW e
      PROVE  Between(g, e) = IF {w.a, w.b} = e THEN Between(f, e) \cup {id} ELSE Between(f, e)
  BY <1>1 DEF Between
<1>4. new = [ids |-> DOMAIN f \cup {id}, adj |-> new.adj, edgeIds |-> [e \in PinPairs |-> Between(g, e)]]
  BY <1>1, GraphIs
<1>5. old.ids = DOMAIN f /\ old.edgeIds = [e \in PinPairs |-> Between(f, e)]
  BY GraphIs
<1>6. new.adj = [p \in Pins |-> new.adj[p]]
  BY NeighboursAre
<1> HIDE DEF old, new
<1>7. new.adj = [p \in Pins |-> old.adj[p] \cup (IF p = w.a THEN {w.b} ELSE {}) \cup (IF p = w.b THEN {w.a} ELSE {})]
  BY <1>2, <1>6
<1>8. [e \in PinPairs |-> Between(g, e)] = [old.edgeIds EXCEPT ![{w.a, w.b}] = @ \cup {id}]
  BY <1>3, <1>5
<1>9. new = AddEdge(old, id, w)
  BY <1>4, <1>5, <1>7, <1>8 DEF AddEdge
<1> QED
  BY <1>9 DEF old, new, g

\* Neighbours part only with the last wire between them.
LEMMA RemoveEdgeIsGraph ==
  ASSUME NEW f \in WireMaps, NEW id \in DOMAIN f
  PROVE  RemoveEdge(GraphOf(f), id, f[id]) = GraphOf(WithoutWire(f, id))
<1> DEFINE g == WithoutWire(f, id)
           w == f[id]
           old == GraphOf(f)
           new == GraphOf(g)
<1>1. DOMAIN g = DOMAIN f \ {id} /\ \A i \in DOMAIN f \ {id} : g[i] = f[i]
  BY WithoutWireIs
<1>2. {w.a, w.b} \in PinPairs
  BY WireMap, WireEnds DEF PinPairs
<1>3. id \in DOMAIN f /\ f[id] = w
  OBVIOUS
<1> HIDE DEF g, w
<1>4. ASSUME NEW p \in Pins, NEW q
      PROVE  /\ q \in new.adj[p] <=> \E i \in DOMAIN f \ {id} : Joins(f[i], p, q)
             /\ q \in old.adj[p] <=> \E i \in DOMAIN f : Joins(f[i], p, q)
  <2>1. q \in new.adj[p] <=> \E i \in DOMAIN g : Joins(g[i], p, q)
    BY NeighboursAre
  <2>2. q \in old.adj[p] <=> \E i \in DOMAIN f : Joins(f[i], p, q)
    BY NeighboursAre
  <2> HIDE DEF old, new
  <2> QED
    BY <1>1, <2>1, <2>2
<1>5. ASSUME NEW e
      PROVE  Between(g, e) = IF {w.a, w.b} = e THEN Between(f, e) \ {id} ELSE Between(f, e)
  BY <1>1, <1>3 DEF Between
<1>6. new = [ids |-> DOMAIN f \ {id}, adj |-> new.adj, edgeIds |-> [e \in PinPairs |-> Between(g, e)]]
  BY <1>1, GraphIs
<1>7. old.ids = DOMAIN f /\ old.edgeIds = [e \in PinPairs |-> Between(f, e)]
  BY GraphIs
<1>8. new.adj = [p \in Pins |-> new.adj[p]] /\ old.adj = [p \in Pins |-> old.adj[p]]
  BY NeighboursAre
<1> HIDE DEF old, new
<1>9. [e \in PinPairs |-> Between(g, e)] = [old.edgeIds EXCEPT ![{w.a, w.b}] = @ \ {id}]
  BY <1>5, <1>7
<1>10. StillJoined(old, id, w) <=> \E i \in DOMAIN f \ {id} : {f[i].a, f[i].b} = {w.a, w.b}
  <2>1. old.edgeIds[{w.a, w.b}] = Between(f, {w.a, w.b})
    BY <1>2, <1>7
  <2> QED
    BY <2>1 DEF StillJoined, Between
<1>11. CASE StillJoined(old, id, w)
  <2>1. PICK j \in DOMAIN f \ {id} : {f[j].a, f[j].b} = {w.a, w.b}
    BY <1>10, <1>11
  <2>2. (f[j].a = w.a /\ f[j].b = w.b) \/ (f[j].a = w.b /\ f[j].b = w.a)
    BY <2>1
  <2>3. ASSUME NEW p \in Pins PROVE new.adj[p] = old.adj[p]
    <3> SUFFICES ASSUME NEW q PROVE q \in new.adj[p] <=> q \in old.adj[p]
      OBVIOUS
    <3>1. Joins(w, p, q) => Joins(f[j], p, q)
      BY <2>2 DEF Joins
    <3> QED
      BY <1>3, <1>4, <2>1, <3>1
  <2>4. new.adj = old.adj
    BY <1>8, <2>3
  <2>5. new = RemoveEdge(old, id, w)
    BY <1>6, <1>7, <1>9, <1>11, <2>4 DEF RemoveEdge
  <2> QED
    BY <2>5 DEF old, new, w, g
<1>12. CASE ~StillJoined(old, id, w)
  <2>1. \A j \in DOMAIN f \ {id} : {f[j].a, f[j].b} # {w.a, w.b}
    BY <1>10, <1>12
  <2>2. ASSUME NEW p \in Pins
        PROVE  new.adj[p] = old.adj[p] \ ((IF p = w.a THEN {w.b} ELSE {}) \cup (IF p = w.b THEN {w.a} ELSE {}))
    <3> SUFFICES ASSUME NEW q
                 PROVE  q \in new.adj[p] <=> q \in old.adj[p] /\ ~Joins(w, p, q)
      BY DEF Joins
    <3>1. \A j \in DOMAIN f \ {id} : Joins(f[j], p, q) => ~Joins(w, p, q)
      BY <2>1 DEF Joins
    <3> QED
      BY <1>3, <1>4, <3>1
  <2>3. new.adj = [p \in Pins |-> old.adj[p] \ ((IF p = w.a THEN {w.b} ELSE {}) \cup (IF p = w.b THEN {w.a} ELSE {}))]
    BY <1>8, <2>2
  <2>4. new = RemoveEdge(old, id, w)
    BY <1>6, <1>7, <1>9, <1>12, <2>3 DEF RemoveEdge
  <2> QED
    BY <2>4 DEF old, new, w, g
<1> QED
  BY <1>11, <1>12

\* The graph knows the ends of the wires only.
LEMMA SameEndsSameGraph ==
  ASSUME NEW f, NEW g, DOMAIN f = DOMAIN g,
         \A i \in DOMAIN f : f[i].a = g[i].a /\ f[i].b = g[i].b
  PROVE  GraphOf(f) = GraphOf(g)
<1>1. ASSUME NEW p \in Pins PROVE GraphOf(f).adj[p] = GraphOf(g).adj[p]
  <2> SUFFICES ASSUME NEW q PROVE q \in GraphOf(f).adj[p] <=> q \in GraphOf(g).adj[p]
    OBVIOUS
  <2>1. \A i \in DOMAIN f : Joins(f[i], p, q) <=> Joins(g[i], p, q)
    BY DEF Joins
  <2> QED
    BY <2>1, NeighboursAre
<1>2. GraphOf(f).adj = GraphOf(g).adj
  BY <1>1, NeighboursAre
<1>3. ASSUME NEW e PROVE Between(f, e) = Between(g, e)
  BY DEF Between
<1>4. [e \in PinPairs |-> Between(f, e)] = [e \in PinPairs |-> Between(g, e)]
  BY <1>3
<1> QED
  BY <1>2, <1>4, GraphIs

-----------------------------------------------------------------------------
(* The wires: the store                                                    *)

LEMMA SameDefault ==
  ASSUME NEW f, NEW g,
         \A i : (i \in DOMAIN f /\ f[i].workspace = Default) <=> (i \in DOMAIN g /\ g[i].workspace = Default),
         \A i \in DOMAIN f : f[i].workspace = Default => f[i] = g[i]
  PROVE  OfDefault(f) = OfDefault(g)
<1>1. {i \in DOMAIN f : f[i].workspace = Default} = {i \in DOMAIN g : g[i].workspace = Default}
  OBVIOUS
<1>2. \A i \in {j \in DOMAIN f : f[j].workspace = Default} : <<i, f[i]>> = <<i, g[i]>>
  OBVIOUS
<1> QED
  BY <1>1, <1>2 DEF OfDefault

\* The wires of a project do not show in the store of the default workspace.
LEMMA StoreIsKept ==
  ASSUME WiresInv, DefaultWiresAreStored, NEW ws \in Workspaces, PersistWires(ws),
         wires' \in WireMaps, DOMAIN wires' \subseteq drawn', drawn \subseteq drawn',
         ws # Default => OfDefault(wires') = OfDefault(wires)
  PROVE  /\ wireFile' \in [Workspaces -> WireMaps]
         /\ \A v \in Workspaces : DOMAIN wireFile'[v] \subseteq drawn'
         /\ DefaultWiresAreStored'
<1>1. wireFile' = [wireFile EXCEPT ![ws] = wires'] /\ wireFile \in [Workspaces -> WireMaps]
  BY DEF PersistWires, WiresInv
<1>2. wireFile' \in [Workspaces -> WireMaps] /\ \A v \in Workspaces : wireFile'[v] = IF v = ws THEN wires' ELSE wireFile[v]
  BY <1>1
<1>3. \A v \in Workspaces : DOMAIN wireFile'[v] \subseteq drawn'
  BY <1>2 DEF WiresInv
<1>4. Default \in Workspaces
  BY DEF Workspaces
<1>5. OfDefault(wires') = OfDefault(wireFile'[Default])
  <2>1. CASE ws = Default
    BY <1>2, <1>4, <2>1
  <2>2. CASE ws # Default
    BY <1>2, <1>4, <2>2 DEF DefaultWiresAreStored
  <2> QED
    BY <2>1, <2>2
<1> QED
  BY <1>2, <1>3, <1>5 DEF DefaultWiresAreStored

-----------------------------------------------------------------------------
(* The wires: the requests                                                 *)

\* The wire that is made for a request.
LEMMA NewWireIs ==
  ASSUME NEW s \in EndPoints, NEW d \in EndPoints, NEW ws \in Workspaces
  PROVE  NewWire(s, d, ws) \in Wire /\ NewWire(s, d, ws).link = 0
<1>1. Key(s) \in Pins /\ Key(d) \in Pins
  BY DEF Pins
<1> QED
  BY <1>1 DEF NewWire, Wire, WireDirections, WireStatuses

LEMMA MakingsAre ==
  ASSUME NEW m \in Makings
  PROVE  /\ m.step \in {"numbered", "linked"} /\ m.wire \in Wire /\ m.number \in Nat \ {0}
         /\ m.step = "numbered" => m.wire.link = 0
         /\ m # NoWire
  BY DEF Makings, Requests, NoWire

LEMMA ConnectKeepsWiring ==
  ASSUME WiringInv, NEW t \in Threads, NEW w \in Asked, NEW force \in BOOLEAN, Connect(t, w[1], w[2], w[3], force)
  PROVE  WiringInv'
<1>1. w[1] \in EndPoints /\ w[2] \in EndPoints /\ w[3] \in Workspaces
  BY AskedAssumption
<1> DEFINE step == IF Mirrored(w[1], w[2]) THEN "numbered" ELSE "linked"
           number == Cardinality(DOMAIN links) + 1
           made == [step |-> step, wire |-> NewWire(w[1], w[2], w[3]), number |-> number]
<1>2. /\ making[t] = NoWire /\ making' = [making EXCEPT ![t] = made]
      /\ UNCHANGED <<wires, graph, links, wireFile, drawn, orphans>>
  BY DEF Connect
<1>3. number \in Nat \ {0} /\ step \in {"numbered", "linked"}
  BY FS_CardinalityType DEF WiringInv, LinksInv
<1> HIDE DEF step, number
<1>4. made \in Makings
  BY <1>1, <1>3, NewWireIs DEF Makings, Requests
<1> HIDE DEF made
<1>5. making' \in [Threads -> {NoWire} \cup Makings]
  BY <1>2, <1>4 DEF WiringInv, WiresInv
<1>6. WiresInv' /\ GraphIsLoaded' /\ DefaultWiresAreStored'
  BY <1>2, <1>5 DEF WiringInv, WiresInv, GraphIsLoaded, GraphOf, DefaultWiresAreStored, OfDefault
<1>7. NoLinkLeftBehind'
  <2> SUFFICES ASSUME NEW n \in DOMAIN links \ orphans
               PROVE  \/ \E id \in DOMAIN wires : wires[id].link = n
                      \/ \E u \in Threads : making'[u] # NoWire /\ making'[u].wire.link = n
    BY <1>2 DEF NoLinkLeftBehind
  <2>1. CASE \E id \in DOMAIN wires : wires[id].link = n
    BY <2>1
  <2>2. CASE \E u \in Threads : making[u] # NoWire /\ making[u].wire.link = n
    <3>1. PICK u \in Threads : making[u] # NoWire /\ making[u].wire.link = n
      BY <2>2
    <3>2. making'[u] = making[u]
      BY <1>2, <3>1 DEF WiringInv, WiresInv
    <3> QED
      BY <3>1, <3>2
  <2> QED
    BY <2>1, <2>2 DEF WiringInv, LinksInv, NoLinkLeftBehind
<1> QED
  BY <1>2, <1>6, <1>7 DEF WiringInv, LinksInv

LEMMA LinkedIs ==
  ASSUME NEW m \in Requests, NEW n, [m.wire EXCEPT !.link = n] \in Wire
  PROVE  /\ [m EXCEPT !.step = "linked", !.wire.link = n] \in Requests
         /\ [m EXCEPT !.step = "linked", !.wire.link = n].step = "linked"
         /\ [m EXCEPT !.step = "linked", !.wire.link = n].wire = [m.wire EXCEPT !.link = n]
  BY DEF Requests

\* A link that is made belongs to the wire being made, its number taken or not.
LEMMA MakeLinkKeepsWiring ==
  ASSUME WiringInv, NEW t \in Threads, MakeLink(t)
  PROVE  WiringInv'
<1> DEFINE m == making[t]
           made == [m EXCEPT !.step = "linked", !.wire.link = m.number]
<1>1. /\ m.step = "numbered" /\ making' = [making EXCEPT ![t] = made]
      /\ links' = WithWire(links, m.number, {m.wire.a, m.wire.b})
      /\ UNCHANGED <<wires, graph, wireFile, drawn, orphans>>
  BY DEF MakeLink
<1>2. m \in Makings
  BY <1>1 DEF WiringInv, WiresInv, NoWire
<1>3. m.number \in Nat \ {0} /\ m.wire.link = 0
  BY <1>1, <1>2, MakingsAre
<1>4. made \in Makings /\ made.wire.link = m.number /\ made # NoWire
  <2> DEFINE w == [m.wire EXCEPT !.link = m.number]
  <2>1. m \in Requests /\ m.wire \in Wire
    BY <1>2 DEF Makings, Requests
  <2>2. w \in Wire /\ w.link = m.number
    BY <1>3, <2>1 DEF Wire
  <2> HIDE DEF m
  <2>3. made \in Requests /\ made.step = "linked" /\ made.wire = w
    BY <2>1, <2>2, LinkedIs
  <2> HIDE DEF w, made
  <2>4. made \in Makings
    BY <2>3 DEF Makings, Requests
  <2> QED
    BY <2>2, <2>3, <2>4, MakingsAre
<1> HIDE DEF made
<1>5. making \in [Threads -> {NoWire} \cup Makings]
  BY DEF WiringInv, WiresInv
<1>6. making' \in [Threads -> {NoWire} \cup Makings] /\ making'[t] = made /\ \A u \in Threads \ {t} : making'[u] = making[u]
  BY <1>1, <1>4, <1>5
<1>7. DOMAIN links' = DOMAIN links \cup {m.number}
  BY <1>1 DEF WithWire
<1>8. IsFiniteSet(DOMAIN links') /\ DOMAIN links' \subseteq Nat \ {0}
  BY <1>3, <1>7, FS_AddElement DEF WiringInv, LinksInv
<1>9. WiresInv' /\ GraphIsLoaded' /\ DefaultWiresAreStored'
  BY <1>1, <1>6 DEF WiringInv, WiresInv, GraphIsLoaded, GraphOf, DefaultWiresAreStored, OfDefault
<1>10. NoLinkLeftBehind'
  <2> SUFFICES ASSUME NEW n \in DOMAIN links' \ orphans
               PROVE  \/ \E id \in DOMAIN wires : wires[id].link = n
                      \/ \E u \in Threads : making'[u] # NoWire /\ making'[u].wire.link = n
    BY <1>1 DEF NoLinkLeftBehind
  <2>1. CASE n = m.number
    BY <1>4, <1>6, <2>1
  <2>2. CASE n # m.number
    <3>1. n \in DOMAIN links \ orphans /\ n # 0
      BY <1>7, <2>2 DEF WiringInv, LinksInv
    <3>2. CASE \E id \in DOMAIN wires : wires[id].link = n
      BY <3>2
    <3>3. CASE \E u \in Threads : making[u] # NoWire /\ making[u].wire.link = n
      <4>1. PICK u \in Threads : making[u] # NoWire /\ making[u].wire.link = n
        BY <3>3
      <4>2. u # t
        BY <1>3, <3>1, <4>1
      <4> QED
        BY <1>6, <4>1, <4>2
    <3> QED
      BY <3>1, <3>2, <3>3 DEF WiringInv, LinksInv, NoLinkLeftBehind
  <2> QED
    BY <2>1, <2>2
<1> QED
  BY <1>8, <1>9, <1>10 DEF WiringInv, LinksInv

LEMMA WireIsAdded ==
  ASSUME NEW id \in WireIds, NEW w \in Wire, wires \in WireMaps, id \notin DOMAIN wires,
         wires' = WithWire(wires, id, w)
  PROVE  /\ wires' \in WireMaps /\ DOMAIN wires' = DOMAIN wires \cup {id}
         /\ wires'[id] = w /\ \A i \in DOMAIN wires : wires'[i] = wires[i]
<1>1. /\ DOMAIN wires' = DOMAIN wires \cup {id} /\ wires' = [i \in DOMAIN wires' |-> wires'[i]]
      /\ wires'[id] = w /\ \A i \in DOMAIN wires : wires'[i] = wires[i]
  BY DEF WithWire
<1>2. DOMAIN wires' \subseteq WireIds /\ \A i \in DOMAIN wires' : wires'[i] \in Wire
  BY <1>1, WireMap
<1> QED
  BY <1>1, <1>2, WireMap

LEMMA RecordWireKeepsWiring ==
  ASSUME WiringInv, NEW t \in Threads, RecordWire(t)
  PROVE  WiringInv'
<1> DEFINE w == making[t].wire
<1>1. making[t].step = "linked" /\ UNCHANGED <<links, orphans>>
  BY DEF RecordWire
<1>2. PICK id \in WireIds \ drawn : /\ drawn' = drawn \cup {id}
                                   /\ wires' = WithWire(wires, id, w)
                                   /\ graph' = AddEdge(graph, id, w)
  BY DEF RecordWire
<1>3. making' = [making EXCEPT ![t] = NoWire] /\ PersistWires(w.workspace)
  BY DEF RecordWire
<1>4. w \in Wire /\ w.workspace \in Workspaces
  <2>1. making[t] \in Makings
    BY <1>1 DEF WiringInv, WiresInv, NoWire
  <2> QED
    BY <2>1, MakingsAre, WireEnds
<1>5. making \in [Threads -> {NoWire} \cup Makings]
  BY DEF WiringInv, WiresInv
<1>6. /\ making' \in [Threads -> {NoWire} \cup Makings]
      /\ \A u \in Threads \ {t} : making'[u] = making[u]
  BY <1>3, <1>5
<1> HIDE DEF w
<1>7. wires \in WireMaps /\ id \notin DOMAIN wires
  BY DEF WiringInv, WiresInv
<1>8. /\ wires' \in WireMaps /\ DOMAIN wires' = DOMAIN wires \cup {id}
      /\ wires'[id] = w /\ \A i \in DOMAIN wires : wires'[i] = wires[i]
  <2>1. id \in WireIds /\ wires' = WithWire(wires, id, w)
    BY <1>2
  <2> QED
    BY <1>4, <1>7, <2>1, WireIsAdded
<1>9. GraphIsLoaded'
  BY <1>2, <1>4, <1>7, AddEdgeIsGraph DEF WiringInv, GraphIsLoaded
<1>10. w.workspace # Default => OfDefault(wires') = OfDefault(wires)
  <2> HAVE w.workspace # Default
  <2>1. \A i : (i \in DOMAIN wires' /\ wires'[i].workspace = Default) <=> (i \in DOMAIN wires /\ wires[i].workspace = Default)
    BY <1>8
  <2>2. \A i \in DOMAIN wires' : wires'[i].workspace = Default => wires'[i] = wires[i]
    BY <1>8
  <2> QED
    BY <2>1, <2>2, SameDefault
<1>11. drawn' \subseteq WireIds /\ DOMAIN wires' \subseteq drawn' /\ drawn \subseteq drawn'
  BY <1>2, <1>8 DEF WiringInv, WiresInv
<1>12. WiresInv' /\ DefaultWiresAreStored'
  BY <1>3, <1>4, <1>6, <1>8, <1>10, <1>11, StoreIsKept DEF WiringInv, WiresInv
<1>13. NoLinkLeftBehind'
  <2> SUFFICES ASSUME NEW n \in DOMAIN links \ orphans
               PROVE  \/ \E i \in DOMAIN wires' : wires'[i].link = n
                      \/ \E u \in Threads : making'[u] # NoWire /\ making'[u].wire.link = n
    BY <1>1 DEF NoLinkLeftBehind
  <2>1. CASE \E i \in DOMAIN wires : wires[i].link = n
    BY <1>8, <2>1
  <2>2. CASE \E u \in Threads : making[u] # NoWire /\ making[u].wire.link = n
    <3>1. PICK u \in Threads : making[u] # NoWire /\ making[u].wire.link = n
      BY <2>2
    <3>2. CASE u = t
      BY <1>8, <3>1, <3>2 DEF w
    <3>3. CASE u # t
      BY <1>6, <3>1, <3>3
    <3> QED
      BY <3>2, <3>3
  <2> QED
    BY <2>1, <2>2 DEF WiringInv, LinksInv, NoLinkLeftBehind
<1> QED
  BY <1>1, <1>9, <1>12, <1>13 DEF WiringInv, LinksInv

\* A wire takes the link of its number along, and no other wire needs it less.
LEMMA DisconnectKeepsWiring ==
  ASSUME WiringInv, NEW id, Disconnect(id)
  PROVE  WiringInv'
<1> DEFINE w == wires[id]
<1>1. /\ id \in DOMAIN wires /\ wires' = WithoutWire(wires, id) /\ graph' = RemoveEdge(graph, id, w)
      /\ links' = WithoutWire(links, w.link) /\ PersistWires(w.workspace)
      /\ UNCHANGED <<making, drawn, orphans>>
  BY DEF Disconnect, LinksWithout
<1>2. wires \in WireMaps
  BY DEF WiringInv, WiresInv
<1>3. w \in Wire /\ w.workspace \in Workspaces
  BY <1>1, <1>2, WireMap, WireEnds
<1>4. GraphIsLoaded'
  BY <1>1, <1>2, RemoveEdgeIsGraph DEF WiringInv, GraphIsLoaded
<1> HIDE DEF w
<1>5. /\ wires' \in WireMaps /\ DOMAIN wires' = DOMAIN wires \ {id}
      /\ \A i \in DOMAIN wires \ {id} : wires'[i] = wires[i]
  BY <1>1, <1>2, WithoutWireIs
<1>6. w.workspace # Default => OfDefault(wires') = OfDefault(wires)
  <2> HAVE w.workspace # Default
  <2>1. \A i : (i \in DOMAIN wires' /\ wires'[i].workspace = Default) <=> (i \in DOMAIN wires /\ wires[i].workspace = Default)
    BY <1>5 DEF w
  <2>2. \A i \in DOMAIN wires' : wires'[i].workspace = Default => wires'[i] = wires[i]
    BY <1>5
  <2> QED
    BY <2>1, <2>2, SameDefault
<1>7. DOMAIN wires' \subseteq drawn' /\ drawn \subseteq drawn'
  BY <1>1, <1>5 DEF WiringInv, WiresInv
<1>8. WiresInv' /\ DefaultWiresAreStored'
  BY <1>1, <1>3, <1>5, <1>6, <1>7, StoreIsKept DEF WiringInv, WiresInv
<1>9. DOMAIN links' = DOMAIN links \ {w.link}
  BY <1>1 DEF WithoutWire
<1>10. IsFiniteSet(DOMAIN links') /\ DOMAIN links' \subseteq Nat \ {0}
  BY <1>9, FS_RemoveElement DEF WiringInv, LinksInv
<1>11. NoLinkLeftBehind'
  <2> SUFFICES ASSUME NEW n \in DOMAIN links' \ orphans
               PROVE  \/ \E i \in DOMAIN wires' : wires'[i].link = n
                      \/ \E u \in Threads : making[u] # NoWire /\ making[u].wire.link = n
    BY <1>1 DEF NoLinkLeftBehind
  <2>1. n # w.link /\ n \in DOMAIN links \ orphans
    BY <1>9
  <2>2. CASE \E i \in DOMAIN wires : wires[i].link = n
    BY <1>5, <2>1, <2>2 DEF w
  <2>3. CASE \E u \in Threads : making[u] # NoWire /\ making[u].wire.link = n
    BY <2>3
  <2> QED
    BY <2>1, <2>2, <2>3 DEF WiringInv, LinksInv, NoLinkLeftBehind
<1> QED
  BY <1>4, <1>8, <1>10, <1>11 DEF WiringInv, LinksInv

LEMMA UpdateKeepsWiring ==
  ASSUME WiringInv, NEW id, NEW dir \in Directions, NEW st \in Statuses, UpdateConnection(id, dir, st)
  PROVE  WiringInv'
<1> DEFINE w == [wires[id] EXCEPT !.direction = dir, !.status = st]
<1>1. id \in DOMAIN wires /\ PersistWires(wires[id].workspace) /\ UNCHANGED <<graph, links, making, drawn, orphans>>
  BY DEF UpdateConnection
<1>2. wires \in WireMaps /\ wires[id] \in Wire /\ wires[id].workspace \in Workspaces
  BY <1>1, WireMap, WireEnds DEF WiringInv, WiresInv
<1>3. /\ w \in Wire /\ w.a = wires[id].a /\ w.b = wires[id].b
      /\ w.link = wires[id].link /\ w.workspace = wires[id].workspace
  BY <1>2, UpdatesAssumption DEF Wire
<1>4. wires' = [wires EXCEPT ![id] = w]
  BY <1>1, <1>2, WireMap DEF UpdateConnection
<1> HIDE DEF w
<1>5. /\ DOMAIN wires' = DOMAIN wires /\ wires' = [i \in DOMAIN wires' |-> wires'[i]]
      /\ wires'[id] = w /\ \A i \in DOMAIN wires \ {id} : wires'[i] = wires[i]
  BY <1>1, <1>2, <1>4, WireMap
<1>6. wires' \in WireMaps
  BY <1>2, <1>3, <1>5, WireMap
<1>7. GraphOf(wires') = GraphOf(wires)
  BY <1>3, <1>5, SameEndsSameGraph
<1>8. wires[id].workspace # Default => OfDefault(wires') = OfDefault(wires)
  <2> HAVE wires[id].workspace # Default
  <2>1. \A i : (i \in DOMAIN wires' /\ wires'[i].workspace = Default) <=> (i \in DOMAIN wires /\ wires[i].workspace = Default)
    BY <1>3, <1>5
  <2>2. \A i \in DOMAIN wires' : wires'[i].workspace = Default => wires'[i] = wires[i]
    BY <1>3, <1>5
  <2> QED
    BY <2>1, <2>2, SameDefault
<1>9. DOMAIN wires' \subseteq drawn' /\ drawn \subseteq drawn'
  BY <1>1, <1>5 DEF WiringInv, WiresInv
<1>10. WiresInv' /\ DefaultWiresAreStored'
  BY <1>1, <1>2, <1>6, <1>8, <1>9, StoreIsKept DEF WiringInv, WiresInv
<1>11. NoLinkLeftBehind'
  <2>1. \A i \in DOMAIN wires : wires'[i].link = wires[i].link
    BY <1>3, <1>5
  <2> QED
    BY <1>1, <1>5, <2>1 DEF NoLinkLeftBehind, WiringInv, LinksInv
<1> QED
  BY <1>1, <1>7, <1>10, <1>11 DEF WiringInv, LinksInv, GraphIsLoaded

LEMMA WiringRestartKeepsWiring ==
  ASSUME WiringInv, NEW cut \in BOOLEAN, WiringRestart(cut)
  PROVE  WiringInv'
<1> DEFINE stored == IF cut THEN <<>> ELSE wireFile[Default]
<1>1. /\ wireFile' = [wireFile EXCEPT ![Default] = stored] /\ wires' = stored /\ graph' = GraphOf(stored)
      /\ making' = [t \in Threads |-> NoWire] /\ orphans' = DOMAIN links /\ UNCHANGED <<links, drawn>>
  BY DEF WiringRestart
<1>2. Default \in Workspaces /\ wireFile \in [Workspaces -> WireMaps] /\ drawn \subseteq WireIds
  BY DEF WiringInv, WiresInv, Workspaces
<1>3. stored \in WireMaps /\ DOMAIN stored \subseteq drawn
  BY <1>2, NothingIsAMap DEF WiringInv, WiresInv
<1> HIDE DEF stored
<1>4. /\ wireFile' \in [Workspaces -> WireMaps] /\ wireFile'[Default] = stored
      /\ \A ws \in Workspaces : wireFile'[ws] \in {stored, wireFile[ws]}
  BY <1>1, <1>2, <1>3
<1>5. WiresInv'
  BY <1>1, <1>2, <1>3, <1>4 DEF WiringInv, WiresInv
<1>6. DefaultWiresAreStored' /\ GraphIsLoaded'
  BY <1>1, <1>4 DEF DefaultWiresAreStored, GraphIsLoaded
<1>7. NoLinkLeftBehind'
  BY <1>1 DEF NoLinkLeftBehind
<1> QED
  BY <1>1, <1>5, <1>6, <1>7 DEF WiringInv, LinksInv

LEMMA WiringStarts ==
  ASSUME WiringInit
  PROVE  WiringInv
<1>1. /\ wires = <<>> /\ graph = NoGraph /\ links = <<>> /\ wireFile = [ws \in Workspaces |-> <<>>]
      /\ making = [t \in Threads |-> NoWire] /\ drawn = {}
  BY DEF WiringInit
<1>2. WiresInv
  BY <1>1, NothingIsAMap DEF WiresInv
<1>3. GraphIsLoaded
  <2>1. \A p \in Pins : GraphOf(<<>>).adj[p] = {}
    BY NeighboursAre, NothingIsAMap
  <2>2. GraphOf(<<>>).adj = [p \in Pins |-> {}]
    BY <2>1, NeighboursAre
  <2>3. \A e : Between(<<>>, e) = {}
    BY NothingIsAMap DEF Between
  <2>4. [e \in PinPairs |-> Between(<<>>, e)] = [e \in PinPairs |-> {}]
    BY <2>3
  <2>5. NoGraph = [ids |-> {}, adj |-> [p \in Pins |-> {}], edgeIds |-> [e \in PinPairs |-> {}]]
    BY DEF NoGraph, PinPairs
  <2>6. GraphOf(<<>>) = NoGraph
    BY <2>2, <2>4, <2>5, GraphIs, NothingIsAMap
  <2> QED
    BY <1>1, <2>6 DEF GraphIsLoaded
<1>4. LinksInv
  BY <1>1, NothingIsAMap, FS_EmptySet DEF LinksInv, NoLinkLeftBehind
<1>5. DefaultWiresAreStored
  BY <1>1 DEF DefaultWiresAreStored, Workspaces
<1> QED
  BY <1>2, <1>3, <1>4, <1>5 DEF WiringInv

LEMMA WiringUnchanged ==
  ASSUME WiringInv, UNCHANGED <<wires, graph, links, wireFile, making, drawn, orphans>>
  PROVE  WiringInv'
<1>1. WiresInv' /\ GraphIsLoaded'
  BY DEF WiringInv, WiresInv, GraphIsLoaded, GraphOf
<1>2. LinksInv' /\ DefaultWiresAreStored'
  BY DEF WiringInv, LinksInv, NoLinkLeftBehind, DefaultWiresAreStored, OfDefault
<1> QED
  BY <1>1, <1>2 DEF WiringInv

LEMMA WiringNextStep ==
  ASSUME WiringInv, [WorkspaceNext]_workspaceVars
  PROVE  WiringInv'
<1>1. \/ WiringRequest \/ WiringStep
      \/ UNCHANGED wiringVars
      \/ \E cut \in BOOLEAN : WiringRestart(cut)
  BY DEF WorkspaceNext, workspaceVars, Request, Step, Restart
<1>2. CASE WiringRequest
  <2>1. CASE \E p \in Pins, v \in {"LOW", "HIGH"} : WritePin(p, v)
    BY <2>1, WiringUnchanged DEF WritePin
  <2> QED
    BY <1>2, <2>1, ConnectKeepsWiring, DisconnectKeepsWiring, UpdateKeepsWiring DEF WiringRequest
<1>3. CASE WiringStep
  <2>1. CASE SaveWires
    BY <2>1, WiringUnchanged DEF SaveWires, wiringVars
  <2> QED
    BY <1>3, <2>1, MakeLinkKeepsWiring, RecordWireKeepsWiring DEF WiringStep
<1>4. CASE UNCHANGED wiringVars
  BY <1>4, WiringUnchanged DEF wiringVars
<1> QED
  BY <1>1, <1>2, <1>3, <1>4, WiringRestartKeepsWiring

LEMMA WiringAlways == WorkspaceSpec => []WiringInv
<1>1. WorkspaceInit => WiringInv
  BY WiringStarts DEF WorkspaceInit
<1>2. WiringInv /\ [WorkspaceNext]_workspaceVars => WiringInv'
  BY WiringNextStep
<1> QED
  BY <1>1, <1>2, PTL DEF WorkspaceSpec

\* The graph the manager searches is the one it would load from the wires it
\* has, however wires came and went between the same two pins.
THEOREM GraphStaysLoaded == WorkspaceSpec => []GraphIsLoaded
<1>1. WiringInv => GraphIsLoaded
  BY DEF WiringInv
<1> QED
  BY <1>1, WiringAlways, PTL

\* Every non-empty set of subsets of a finite set has a minimal member.
LEMMA MinimalSubset ==
  ASSUME NEW S, IsFiniteSet(S), NEW T \in SUBSET (SUBSET S), T # {}
  PROVE  \E s \in T : \A t \in T : t \subseteq s => t = s
<1>1. IsWellFoundedOn(StrictSubsetOrdering(S), SUBSET S)
  BY FS_StrictSubsetOrderingWellFounded, FS_FiniteSubsetsOfFinite
<1>2. PICK s \in T : \A t \in T : ~ (<<t, s>> \in StrictSubsetOrdering(S))
  BY <1>1, WFMin
<1> QED
  BY <1>2 DEF StrictSubsetOrdering

\* So what is true of 0, and of n + 1 when of n, is true up to c.
LEMMA UpTo ==
  ASSUME NEW c \in Nat, NEW S, 0 \in S, \A n \in 0 .. c - 1 : n \in S => n + 1 \in S
  PROVE  0 .. c \subseteq S
<1> SUFFICES ASSUME NEW bad \in 0 .. c, bad \notin S PROVE FALSE
  OBVIOUS
<1> DEFINE T == {1 .. n : n \in (0 .. c) \ S}
<1>1. PICK s \in T : \A t \in T : t \subseteq s => t = s
  <2> DEFINE U == 1 .. c
  <2>1. \A n \in 0 .. c : 1 .. n \in SUBSET U
    OBVIOUS
  <2>2. T \in SUBSET (SUBSET U)
    BY <2>1
  <2>3. T # {}
    OBVIOUS
  <2>4. IsFiniteSet(U)
    BY FS_Interval
  <2> HIDE DEF T, U
  <2> QED
    BY <2>2, <2>3, <2>4, MinimalSubset
<1>2. PICK n \in (0 .. c) \ S : s = 1 .. n
  BY <1>1
<1>3. n # 0 /\ n - 1 \in (0 .. c) \ S
  BY <1>2
<1>4. 1 .. n - 1 \in T /\ 1 .. n - 1 \subseteq s
  BY <1>2, <1>3
<1>5. 1 .. n - 1 = 1 .. n
  BY <1>1, <1>2, <1>4
<1> QED
  BY <1>3, <1>5

Grown(adj, S) == S \cup UNION {adj[q] : q \in S}
RoundsTo(adj, p, c, round) == round = [n \in 0 .. c |-> IF n = 0 THEN {p} ELSE Grown(adj, round[n - 1])]

LEMMA RoundsExist ==
  ASSUME NEW adj, NEW p, NEW c \in Nat
  PROVE  \E round : RoundsTo(adj, p, c, round)
<1> DEFINE S == {n \in 0 .. c : \E round : RoundsTo(adj, p, n, round)}
<1>1. 0 \in S
  <2> DEFINE r == [n \in 0 .. 0 |-> {p}]
  <2>1. \A n \in 0 .. 0 : n = 0
    OBVIOUS
  <2>2. RoundsTo(adj, p, 0, r)
    BY <2>1 DEF RoundsTo
  <2> QED
    BY <2>2
<1>2. ASSUME NEW n \in 0 .. c - 1, n \in S PROVE n + 1 \in S
  <2>1. PICK r : RoundsTo(adj, p, n, r)
    BY <1>2
  <2> DEFINE s == [k \in 0 .. n + 1 |-> IF k <= n THEN r[k] ELSE Grown(adj, r[n])]
             t == [k \in 0 .. n + 1 |-> IF k = 0 THEN {p} ELSE Grown(adj, s[k - 1])]
  <2>2. ASSUME NEW k \in 0 .. n + 1 PROVE s[k] = IF k = 0 THEN {p} ELSE Grown(adj, s[k - 1])
    <3>1. CASE k = n + 1
      <4>1. n \in 0 .. n + 1 /\ s[n] = r[n] /\ k - 1 = n /\ k # 0 /\ ~(k <= n)
        BY <3>1
      <4> QED
        BY <4>1
    <3>2. CASE k # n + 1
      <4>1. k \in 0 .. n /\ s[k] = r[k]
        BY <3>2
      <4>2. r[k] = IF k = 0 THEN {p} ELSE Grown(adj, r[k - 1])
        BY <2>1, <4>1 DEF RoundsTo
      <4>3. k # 0 => s[k - 1] = r[k - 1]
        BY <4>1
      <4> QED
        BY <4>1, <4>2, <4>3
    <3> QED
      BY <3>1, <3>2
  <2>3. s = t
    <3>1. DOMAIN s = DOMAIN t /\ \A k \in 0 .. n + 1 : s[k] = t[k]
      BY <2>2
    <3> QED
      BY <3>1
  <2>4. RoundsTo(adj, p, n + 1, s)
    BY <2>3 DEF RoundsTo
  <2> QED
    BY <1>2, <2>4
<1>3. c \in S
  <2> HIDE DEF S
  <2> QED
    BY <1>1, <1>2, UpTo
<1> QED
  BY <1>3

\* A search goes c rounds, as many as there are pins.
SearchIs(g, p, c, round) ==
    /\ Reached(g, p) = round[c] /\ round[0] = {p}
    /\ \A n \in 0 .. c - 1 : round[n + 1] = Grown(g.adj, round[n])

LEMMA ReachedInRounds ==
  ASSUME NEW g, NEW p, NEW c \in Nat, c = Cardinality(Pins)
  PROVE  \E round : SearchIs(g, p, c, round)
<1> DEFINE r == CHOOSE round : RoundsTo(g.adj, p, c, round)
<1>1. Reached(g, p) = r[c]
  BY DEF Reached, RoundsTo, Grown
<1>2. RoundsTo(g.adj, p, c, r)
  BY RoundsExist
<1> HIDE DEF r
<1>3. r[0] = {p} /\ \A n \in 0 .. c - 1 : r[n + 1] = Grown(g.adj, r[n])
  <2>1. \A n \in 0 .. c : r[n] = IF n = 0 THEN {p} ELSE Grown(g.adj, r[n - 1])
    BY <1>2 DEF RoundsTo
  <2>2. ASSUME NEW n \in 0 .. c - 1 PROVE r[n + 1] = Grown(g.adj, r[n])
    <3>1. n + 1 \in 0 .. c /\ n + 1 # 0 /\ (n + 1) - 1 = n
      OBVIOUS
    <3> QED
      BY <2>1, <3>1
  <2> QED
    BY <2>1, <2>2
<1> QED
  BY <1>1, <1>3 DEF SearchIs

\* What a set of pins has for neighbours is in it.
HasNeighbours(adj, S) == \A q \in S : adj[q] \subseteq S

\* After n rounds the search has found more than n pins or all there is to find.
LEMMA SearchFindsAll ==
  ASSUME NEW g, NEW p \in Pins, IsFiniteSet(Pins), \A q \in Pins : g.adj[q] \subseteq Pins
  PROVE  /\ p \in Reached(g, p) /\ Reached(g, p) \subseteq Pins
         /\ HasNeighbours(g.adj, Reached(g, p))
         /\ \A S : p \in S /\ HasNeighbours(g.adj, S) => Reached(g, p) \subseteq S
<1> DEFINE c == Cardinality(Pins)
<1>1. c \in Nat /\ c = Cardinality(Pins)
  BY FS_CardinalityType
<1> HIDE DEF c
<1>r. PICK round : SearchIs(g, p, c, round)
  BY <1>1, ReachedInRounds
<1>2. /\ Reached(g, p) = round[c] /\ round[0] = {p}
      /\ \A n \in 0 .. c - 1 : round[n + 1] = Grown(g.adj, round[n])
  BY <1>r DEF SearchIs
<1>3. 0 .. c \subseteq {n \in 0 .. c : p \in round[n] /\ round[n] \subseteq Pins}
  <2> DEFINE G == {n \in 0 .. c : p \in round[n] /\ round[n] \subseteq Pins}
  <2>1. 0 \in G
    BY <1>1, <1>2
  <2>2. ASSUME NEW n \in 0 .. c - 1, n \in G PROVE n + 1 \in G
    <3>1. n + 1 \in 0 .. c /\ round[n + 1] = Grown(g.adj, round[n])
      BY <1>1, <1>2
    <3> QED
      BY <2>2, <3>1 DEF Grown
  <2> HIDE DEF G
  <2>3. 0 .. c \subseteq G
    BY <1>1, <2>1, <2>2, UpTo
  <2> QED
    BY <2>3 DEF G
<1>4. ASSUME NEW S, p \in S, HasNeighbours(g.adj, S) PROVE round[c] \subseteq S
  <2> DEFINE G == {n \in 0 .. c : round[n] \subseteq S}
  <2>1. 0 \in G
    BY <1>1, <1>2, <1>4
  <2>2. ASSUME NEW n \in 0 .. c - 1, n \in G PROVE n + 1 \in G
    <3>1. n + 1 \in 0 .. c /\ round[n + 1] = Grown(g.adj, round[n])
      BY <1>1, <1>2
    <3> QED
      BY <1>4, <2>2, <3>1 DEF Grown, HasNeighbours
  <2> HIDE DEF G
  <2>3. 0 .. c \subseteq G
    BY <1>1, <2>1, <2>2, UpTo
  <2> QED
    BY <1>1, <2>3 DEF G
<1>5. HasNeighbours(g.adj, round[c])
  <2> DEFINE G == {n \in 0 .. c : HasNeighbours(g.adj, round[n]) \/ Cardinality(round[n]) > n}
  <2>s. ASSUME NEW n \in 0 .. c PROVE IsFiniteSet(round[n]) /\ Cardinality(round[n]) \in Nat /\ Cardinality(round[n]) <= c
    BY <1>3, FS_Subset, FS_CardinalityType DEF c
  <2>1. 0 \in G
    <3>1. Cardinality({p}) = 1
      BY FS_Singleton
    <3>2. Cardinality(round[0]) = 1
      BY <1>2, <3>1
    <3>3. 0 \in 0 .. c /\ Cardinality(round[0]) > 0
      BY <1>1, <3>2
    <3> QED
      BY <3>3
  <2>2. ASSUME NEW n \in 0 .. c - 1, n \in G PROVE n + 1 \in G
    <3>1. n \in 0 .. c /\ n + 1 \in 0 .. c /\ round[n + 1] = Grown(g.adj, round[n])
      BY <1>1, <1>2
    <3>2. CASE HasNeighbours(g.adj, round[n])
      <4>1. round[n + 1] = round[n]
        BY <3>1, <3>2 DEF HasNeighbours, Grown
      <4> QED
        BY <3>1, <3>2, <4>1
    <3>3. CASE ~HasNeighbours(g.adj, round[n])
      <4>1. round[n] \subseteq round[n + 1] /\ round[n] # round[n + 1]
        BY <3>1, <3>3 DEF HasNeighbours, Grown
      <4>2. Cardinality(round[n]) <= Cardinality(round[n + 1]) /\ Cardinality(round[n]) # Cardinality(round[n + 1])
        BY <2>s, <3>1, <4>1, FS_Subset
      <4>3. Cardinality(round[n]) \in Nat /\ Cardinality(round[n + 1]) \in Nat
        BY <2>s, <3>1
      <4>4. Cardinality(round[n]) > n
        BY <2>2, <3>3
      <4> QED
        BY <3>1, <4>2, <4>3, <4>4
    <3> QED
      BY <3>2, <3>3
  <2> HIDE DEF G
  <2>3. 0 .. c \subseteq G
    BY <1>1, <2>1, <2>2, UpTo
  <2>4. c \in 0 .. c /\ c \in G
    BY <1>1, <2>3
  <2>5. ~(Cardinality(round[c]) > c)
    BY <1>1, <2>s, <2>4
  <2> QED
    BY <2>4, <2>5 DEF G
<1> QED
  BY <1>1, <1>2, <1>3, <1>4, <1>5

LEMMA PinsAreFinite == IsFiniteSet(Pins)
<1> DEFINE f == [e \in EndPoints |-> Key(e)]
<1>1. f \in Surjection(EndPoints, Pins)
  BY DEF Pins, Surjection
<1> QED
  BY <1>1, PinsAssumption, FS_Surjection

\* A set of pins is closed under the wires when it has its neighbours in their graph.
LEMMA ClosedHasNeighbours ==
  ASSUME WiringInv, NEW S \in SUBSET Pins
  PROVE  Closed(S) <=> HasNeighbours(graph.adj, S)
<1> DEFINE adj == graph.adj
<1>1. \A p \in Pins : \A q : q \in adj[p] <=> \E i \in DOMAIN wires : Joins(wires[i], p, q)
  BY NeighboursAre DEF WiringInv, GraphIsLoaded
<1>2. \A i \in DOMAIN wires : wires[i].a \in Pins /\ wires[i].b \in Pins
  BY WireMap, WireEnds DEF WiringInv, WiresInv
<1> HIDE DEF adj
<1>3. ASSUME Closed(S) PROVE HasNeighbours(adj, S)
  BY <1>1, <1>3 DEF Closed, HasNeighbours, Joins
<1>4. ASSUME HasNeighbours(adj, S) PROVE Closed(S)
  <2> SUFFICES ASSUME NEW i \in DOMAIN wires PROVE wires[i].a \in S <=> wires[i].b \in S
    BY DEF Closed
  <2>1. wires[i].b \in adj[wires[i].a] /\ wires[i].a \in adj[wires[i].b]
    BY <1>1, <1>2 DEF Joins
  <2> QED
    BY <1>4, <2>1 DEF HasNeighbours
<1> QED
  BY <1>3, <1>4 DEF adj

\* A search of the manager from a pin reaches the pins its wires lead to, all
\* of them and no others, however many pins and wires there are and however
\* wires came and went: the rounds it goes are always enough.
THEOREM SearchesFollowWires == WorkspaceSpec => []GraphIsTheWires
<1>1. WiringInv => GraphIsTheWires
  <2> SUFFICES ASSUME WiringInv PROVE GraphIsTheWires
    OBVIOUS
  <2>1. graph.ids = DOMAIN wires
    BY GraphIs DEF WiringInv, GraphIsLoaded
  <2>2. \A q \in Pins : graph.adj[q] \subseteq Pins
    <3>1. \A p \in Pins : \A q : q \in graph.adj[p] <=> \E i \in DOMAIN wires : Joins(wires[i], p, q)
      BY NeighboursAre DEF WiringInv, GraphIsLoaded
    <3>2. \A i \in DOMAIN wires : wires[i].a \in Pins /\ wires[i].b \in Pins
      BY WireMap, WireEnds DEF WiringInv, WiresInv
    <3> QED
      BY <3>1, <3>2 DEF Joins
  <2>3. ASSUME NEW p \in Pins
        PROVE  /\ Closed(Reached(graph, p))
               /\ \A S \in SUBSET Pins : p \in S /\ Closed(S) => Reached(graph, p) \subseteq S
    <3>1. /\ p \in Reached(graph, p) /\ Reached(graph, p) \subseteq Pins
          /\ HasNeighbours(graph.adj, Reached(graph, p))
          /\ \A S : p \in S /\ HasNeighbours(graph.adj, S) => Reached(graph, p) \subseteq S
      BY <2>2, PinsAreFinite, SearchFindsAll
    <3> QED
      BY <3>1, ClosedHasNeighbours
  <2> QED
    BY <2>1, <2>3 DEF GraphIsTheWires
<1> QED
  BY <1>1, WiringAlways, PTL

\* The store of the default workspace has its wires as they are in memory,
\* at every step a kill may come.
THEOREM DefaultWiresStayStored == WorkspaceSpec => []DefaultWiresAreStored
<1>1. WiringInv => DefaultWiresAreStored
  BY DEF WiringInv
<1> QED
  BY <1>1, WiringAlways, PTL

\* A link of the pin mapper has a wire, or a request that will record one,
\* although links are numbered and made outside the manager's lock.
THEOREM LinksHaveWires == WorkspaceSpec => []NoLinkLeftBehind
<1>1. WiringInv => NoLinkLeftBehind
  BY DEF WiringInv, LinksInv
<1> QED
  BY <1>1, WiringAlways, PTL

\* What a step changes on pins it changes on one, and on those that a sound
\* wire, switched on and not against its direction, joins to it.
LEMMA WriteFollowsWires ==
  ASSUME GraphIsLoaded, NEW p \in Pins, NEW v, WritePin(p, v), NEW q \in Pins,
         pinState'[q] \notin {pinState[q], "unset"}
  PROVE  q = p \/ \E id \in DOMAIN wires : Leads(wires[id], p, q)
<1>1. q \in {p} \cup Propagated(p)
  BY DEF WritePin
<1>2. graph.ids = DOMAIN wires
  BY GraphIs DEF GraphIsLoaded
<1>3. CASE q \in Propagated(p)
  <2>1. PICK id \in DOMAIN wires : /\ p \in {wires[id].a, wires[id].b} /\ Conducts(wires[id], p)
                                 /\ q = IF wires[id].a = p THEN wires[id].b ELSE wires[id].a
    BY <1>2, <1>3 DEF Propagated
  <2>2. Leads(wires[id], p, q)
    BY <2>1 DEF Leads, Conducts
  <2> QED
    BY <2>2
<1> QED
  BY <1>1, <1>3

\* A write to a pin reaches another pin only over a wire that is there,
\* sound, switched on and not against its direction: the graph it is
\* mirrored over is never behind the wires.
THEOREM WritesFollowWires == WorkspaceSpec => SignalsFollowWires
<1> DEFINE Mirrors ==
             \E p \in Pins : \A q \in Pins :
               pinState'[q] \notin {pinState[q], "unset"} => q = p \/ \E id \in DOMAIN wires : Leads(wires[id], p, q)
<1>1. ASSUME WiringInv, [WorkspaceNext]_workspaceVars PROVE [Mirrors]_wiringVars
  <2>1. CASE \E p \in Pins, v \in {"LOW", "HIGH"} : WritePin(p, v)
    <3>1. PICK p \in Pins, v \in {"LOW", "HIGH"} : WritePin(p, v)
      BY <2>1
    <3>2. \A q \in Pins : pinState'[q] \notin {pinState[q], "unset"} => q = p \/ \E id \in DOMAIN wires : Leads(wires[id], p, q)
      BY <1>1, <3>1, WriteFollowsWires DEF WiringInv
    <3> QED
      BY <3>2
  <2>2. CASE UNCHANGED pinState \/ pinState' = [p \in Pins |-> "unset"]
    <3>1. PICK e \in EndPoints : TRUE
      BY PinsAssumption
    <3>2. Key(e) \in Pins
      BY DEF Pins
    <3>3. \A q \in Pins : pinState'[q] \in {pinState[q], "unset"}
      BY <2>2
    <3> QED
      BY <3>2, <3>3
  <2>3. \/ \E p \in Pins, v \in {"LOW", "HIGH"} : WritePin(p, v)
        \/ UNCHANGED pinState
        \/ \E cut \in BOOLEAN : WiringRestart(cut)
    <3>1. \/ WiringRequest \/ WiringStep \/ UNCHANGED wiringVars \/ \E cut \in BOOLEAN : WiringRestart(cut)
      BY <1>1 DEF WorkspaceNext, workspaceVars, Request, Step, Restart
    <3> QED
      BY <3>1 DEF WiringRequest, WiringStep, Connect, Disconnect, UpdateConnection, MakeLink, RecordWire, SaveWires,
                  wiringVars
  <2> QED
    BY <2>1, <2>2, <2>3 DEF WiringRestart
<1>2. [][Mirrors]_wiringVars => SignalsFollowWires
  BY PTL DEF SignalsFollowWires
<1> QED
  BY <1>1, <1>2, WiringAlways, PTL DEF WorkspaceSpec

-----------------------------------------------------------------------------
(* The boards: the invariant                                               *)

NodeMaps == UNION {[S -> Node] : S \in SUBSET Boards}
Layouts == [moved : BOOLEAN, endpoint : Ports]
LayoutMaps == UNION {[S -> Layouts] : S \in SUBSET Boards}

Wholes == [kind : {"whole"}, nodes : LayoutMaps, wires : SUBSET WireIds]
Savings == [phase : {"read", "open"}, content : Wholes, spoiled : BOOLEAN]
Stores == [nodes : NodeMaps, wires : SUBSET WireIds]
Loadings == [step : {"read", "hydrated"}, plugged : Plugged, wires : SUBSET WireIds, nodes : NodeMaps]

\* What project.json may hold and what the services are about to write.
FileInv ==
    /\ project \in {NoFile, Cut} \cup Wholes
    /\ saving \in [Services -> {NotSaving} \cup Savings]

BoardsInv ==
    /\ nodes \in NodeMaps /\ syncWires \subseteq WireIds
    /\ nodeFile \in [Workspaces -> {NoFile} \cup Stores]
    /\ loading \in {NotLoading} \cup Loadings

NodesInv == BoardsInv /\ FileInv /\ DecisionsAreStored

LEMMA NodeMap ==
  \A f : f \in NodeMaps <=> /\ f = [i \in DOMAIN f |-> f[i]] /\ DOMAIN f \subseteq Boards
                            /\ \A i \in DOMAIN f : f[i] \in Node
  BY DEF NodeMaps

LEMMA LayoutMap ==
  \A f : f \in LayoutMaps <=> /\ f = [i \in DOMAIN f |-> f[i]] /\ DOMAIN f \subseteq Boards
                              /\ \A i \in DOMAIN f : f[i] \in Layouts
  BY DEF LayoutMaps

LEMMA NoNodesIsAMap ==
  /\ <<>> \in NodeMaps /\ <<>> \in LayoutMaps
  /\ DOMAIN <<>> = {}
<1>1. DOMAIN <<>> = {} /\ <<>> = [i \in DOMAIN <<>> |-> <<>>[i]]
  OBVIOUS
<1> QED
  BY <1>1, NodeMap, LayoutMap

-----------------------------------------------------------------------------
(* project.json                                                            *)

LEMMA WholeIs ==
  /\ \A f \in LayoutMaps, w \in SUBSET WireIds : Whole(f, w) \in Wholes
  /\ \A c \in Wholes : c.kind = "whole" /\ c.nodes \in LayoutMaps /\ c.wires \in SUBSET WireIds
  BY DEF Whole, Wholes

LEMMA ContentsAreWhole ==
  ASSUME FileInv
  PROVE  Contents \in Wholes
<1>1. CASE project \in Wholes
  BY <1>1, WholeIs DEF Contents
<1>2. CASE project \in {NoFile, Cut}
  BY <1>2, WholeIs, NoNodesIsAMap DEF Contents, NoFile, Cut
<1> QED
  BY <1>1, <1>2 DEF FileInv

LEMMA ReadKeepsFile ==
  ASSUME FileInv, NEW s \in Services, NEW ws, NEW content \in Wholes, ReadForSave(s, ws, content), UNCHANGED project
  PROVE  FileInv'
<1>1. Saving("read", content) \in Savings
  BY DEF Saving, Savings
<1>2. saving' \in [Services -> {NotSaving} \cup Savings]
  BY <1>1 DEF FileInv, ReadForSave
<1> QED
  BY <1>2 DEF FileInv

LEMMA WiresOfFile ==
  ASSUME NEW c \in Wholes, NEW w \in SUBSET WireIds
  PROVE  [c EXCEPT !.wires = w] \in Wholes
  BY DEF Wholes

LEMMA NotSavingHasNoPhase == NotSaving.phase \notin {"read", "open"}
  BY DEF NotSaving

LEMMA SavingIs ==
  ASSUME NEW x \in Savings
  PROVE  x.content \in Wholes /\ [x EXCEPT !.phase = "open"] \in Savings /\ [x EXCEPT !.spoiled = TRUE] \in Savings
  BY DEF Savings

LEMMA OpenKeepsFile ==
  ASSUME FileInv, NEW s \in Services, OpenProject(s)
  PROVE  FileInv'
<1>1. saving[s] \in Savings
  BY NotSavingHasNoPhase DEF FileInv, OpenProject
<1>2. saving' = [saving EXCEPT ![s] = [saving[s] EXCEPT !.phase = "open"]] /\ project' = Cut
  BY <1>1 DEF OpenProject, FileInv
<1>3. [saving[s] EXCEPT !.phase = "open"] \in Savings
  BY <1>1, SavingIs
<1> QED
  BY <1>2, <1>3 DEF FileInv

LEMMA WriteKeepsFile ==
  ASSUME FileInv, NEW s \in Services, WriteProject(s)
  PROVE  FileInv'
<1>1. saving[s] \in Savings
  BY NotSavingHasNoPhase DEF FileInv, WriteProject
<1>2. project' \in {Cut} \cup Wholes
  BY <1>1, SavingIs DEF WriteProject
<1>3. ASSUME NEW r \in Services, saving[r].phase = "open" PROVE [saving[r] EXCEPT !.spoiled = TRUE] \in Savings
  <2>1. saving[r] \in Savings
    BY <1>3, NotSavingHasNoPhase DEF FileInv
  <2> QED
    BY <2>1, SavingIs
<1>4. saving' \in [Services -> {NotSaving} \cup Savings]
  <2>1. saving' = [r \in Services |-> IF r = s THEN NotSaving
                                      ELSE IF saving[r].phase = "open" THEN [saving[r] EXCEPT !.spoiled = TRUE]
                                      ELSE saving[r]]
    BY DEF WriteProject
  <2> QED
    BY <1>3, <2>1 DEF FileInv
<1> QED
  BY <1>2, <1>4 DEF FileInv

LEMMA FileUnchanged ==
  ASSUME FileInv, UNCHANGED projectVars
  PROVE  FileInv'
  BY DEF FileInv, projectVars

\* What the wire manager does to project.json.
LEMMA WiresKeepFile ==
  ASSUME FileInv, WiringInv, WiringInv', NEW ws \in Workspaces, PersistWires(ws), UNCHANGED project
  PROVE  FileInv'
<1>1. DOMAIN wires' \in SUBSET WireIds
  BY DEF WiringInv, WiresInv
<1>2. [Contents EXCEPT !.wires = DOMAIN wires'] \in Wholes
  BY <1>1, ContentsAreWhole, WiresOfFile
<1> QED
  BY <1>2, ReadKeepsFile DEF PersistWires, Services

LEMMA WiringKeepsFile ==
  ASSUME FileInv, WiringInv, WiringInv', WiringRequest \/ WiringStep
  PROVE  FileInv'
<1>1. ASSUME NEW t \in Threads, RecordWire(t) PROVE FileInv'
  <2>1. making[t] \in Makings
    BY <1>1 DEF RecordWire, WiringInv, WiresInv, NoWire
  <2>2. making[t].wire.workspace \in Workspaces
    BY <2>1, MakingsAre, WireEnds
  <2> QED
    BY <1>1, <2>2, WiresKeepFile DEF RecordWire
<1>2. ASSUME NEW id \in DOMAIN wires PROVE wires[id].workspace \in Workspaces
  BY <1>2, WireMap, WireEnds DEF WiringInv, WiresInv
<1>3. ASSUME NEW id, Disconnect(id) PROVE FileInv'
  BY <1>2, <1>3, WiresKeepFile DEF Disconnect
<1>4. ASSUME NEW id, NEW dir, NEW st, UpdateConnection(id, dir, st) PROVE FileInv'
  BY <1>2, <1>4, WiresKeepFile DEF UpdateConnection
<1>5. CASE SaveWires
  BY <1>5, OpenKeepsFile, WriteKeepsFile DEF SaveWires, Services
<1>6. CASE UNCHANGED projectVars
  BY <1>6, FileUnchanged
<1> QED
  BY <1>1, <1>3, <1>4, <1>5, <1>6 DEF WiringRequest, WiringStep, Connect, MakeLink, WritePin

-----------------------------------------------------------------------------
(* The boards: the nodes                                                   *)

LEMMA NodesAre ==
  ASSUME NEW n \in Node
  PROVE  /\ n.workspace \in Workspaces /\ n.endpoint \in Ports /\ n.disabled \in BOOLEAN /\ n.moved \in BOOLEAN
         /\ Waiting(n) \in Node /\ Offline(n) \in Node /\ [n EXCEPT !.moved = TRUE] \in Node
         /\ Touched(n) \in Node /\ Decided(Touched(n)) = Decided(n) /\ Touched(n).workspace = n.workspace
         /\ Reloaded(n) \in Node /\ Decided(Reloaded(n)) = Decided(n) /\ Reloaded(n).workspace = n.workspace
         /\ Layout(n) \in Layouts
  BY DEF Node, Waiting, Offline, Touched, Reloaded, Decided, Layout, Layouts

LEMMA UpsertedIsNode ==
  ASSUME BoardsInv, NEW d \in Boards, NEW port \in Ports
  PROVE  Upserted(d, port) \in Node
<1>1. NewNode(Default, port) \in Node
  BY DEF NewNode, Node, Workspaces
<1>2. ASSUME NEW n \in Node PROVE [n EXCEPT !.status = "online", !.disabled = FALSE, !.endpoint = port] \in Node
  BY <1>2 DEF Node
<1> QED
  BY <1>1, <1>2, NodeMap DEF Upserted, BoardsInv

LEMMA ReconnectedIsNode ==
  ASSUME NEW d \in Boards, NEW n \in Node, NEW plugged \in Plugged
  PROVE  Reconnected(d, n, plugged) \in Node
<1> DEFINE port == MatchedPort(d, n, plugged)
           asked == [n EXCEPT !.disabled = FALSE]
<1>1. asked \in Node
  BY DEF Node
<1>2. port # NoPort => port \in Ports
  BY NodesAre DEF MatchedPort, Plugged
<1> HIDE DEF port, asked
<1>3. port # NoPort => [asked EXCEPT !.status = "online", !.endpoint = port] \in Node
  BY <1>1, <1>2 DEF Node
<1>4. Waiting(asked) \in Node
  BY <1>1, NodesAre
<1> QED
  BY <1>3, <1>4 DEF Reconnected, port, asked

LEMMA SweptAreNodes ==
  ASSUME BoardsInv, NEW plugged \in Plugged
  PROVE  Swept(plugged) \in NodeMaps
<1>1. \A d \in DOMAIN nodes : Reconnected(d, nodes[d], plugged) \in Node /\ nodes[d] \in Node
  BY ReconnectedIsNode, NodeMap DEF BoardsInv
<1> DEFINE f == Swept(plugged)
<1>2. /\ DOMAIN f = DOMAIN nodes /\ f = [d \in DOMAIN f |-> f[d]]
      /\ \A d \in DOMAIN f : f[d] \in Node
  BY <1>1 DEF Swept
<1> HIDE DEF f
<1>3. f \in NodeMaps
  BY <1>2, NodeMap DEF BoardsInv
<1> QED
  BY <1>3 DEF f

LEMMA LayoutsOfNodes ==
  ASSUME NEW f \in NodeMaps
  PROVE  [d \in DOMAIN f |-> Layout(f[d])] \in LayoutMaps
<1> DEFINE g == [d \in DOMAIN f |-> Layout(f[d])]
<1>1. DOMAIN g = DOMAIN f /\ g = [d \in DOMAIN g |-> g[d]] /\ \A d \in DOMAIN g : g[d] \in Layouts
  BY NodeMap, NodesAre
<1> HIDE DEF g
<1>2. g \in LayoutMaps
  BY <1>1, NodeMap, LayoutMap
<1> QED
  BY <1>2 DEF g

\* What is saved: the store and, of a project, its file.
LEMMA NodesAreStored ==
  ASSUME BoardsInv, FileInv, NEW ws \in Workspaces, PersistNodes(ws), nodes' \in NodeMaps, UNCHANGED <<syncWires, project>>
  PROVE  /\ FileInv' /\ nodeFile' \in [Workspaces -> {NoFile} \cup Stores]
         /\ nodeFile'[ws] = [nodes |-> nodes', wires |-> syncWires]
         /\ \A v \in Workspaces : v # ws => nodeFile'[v] = nodeFile[v]
<1> DEFINE store == [nodes |-> nodes', wires |-> syncWires]
<1>1. store \in Stores
  BY DEF Stores, BoardsInv
<1>2. nodeFile' = [nodeFile EXCEPT ![ws] = store]
  BY DEF PersistNodes
<1> HIDE DEF store
<1>3. /\ nodeFile' \in [Workspaces -> {NoFile} \cup Stores] /\ nodeFile'[ws] = store
      /\ \A v \in Workspaces : v # ws => nodeFile'[v] = nodeFile[v]
  BY <1>1, <1>2 DEF BoardsInv
<1>4. Whole([d \in DOMAIN nodes' |-> Layout(nodes'[d])], syncWires) \in Wholes
  BY LayoutsOfNodes, WholeIs DEF BoardsInv
<1>5. FileInv'
  BY <1>4, ReadKeepsFile DEF PersistNodes, Services
<1> QED
  BY <1>3, <1>5 DEF store

LEMMA NoStoreIsNoStore == NoFile \notin Stores
  BY DEF NoFile, Stores

LEMMA StoredAreDecisions ==
  ASSUME nodeFile'[Default] = [nodes |-> nodes', wires |-> syncWires], nodes' \in NodeMaps, syncWires \subseteq WireIds
  PROVE  DecisionsAreStored'
<1>1. nodeFile'[Default] \in Stores /\ nodeFile'[Default].nodes = nodes'
  BY DEF Stores
<1> QED
  BY <1>1, NoStoreIsNoStore DEF DecisionsAreStored

LEMMA AllSavedKeepsNodes ==
  ASSUME BoardsInv, FileInv, PersistNodes(Default), nodes' \in NodeMaps, UNCHANGED <<syncWires, project>>,
         loading' \in {NotLoading} \cup Loadings
  PROVE  NodesInv'
<1>1. Default \in Workspaces
  BY DEF Workspaces
<1>2. FileInv' /\ nodeFile' \in [Workspaces -> {NoFile} \cup Stores] /\ nodeFile'[Default] = [nodes |-> nodes', wires |-> syncWires]
  BY <1>1, NodesAreStored
<1>3. DecisionsAreStored'
  BY <1>2, StoredAreDecisions DEF BoardsInv
<1> QED
  BY <1>2, <1>3 DEF NodesInv, BoardsInv

\* One node changes; those of the default workspace go to its store.
LEMMA ChangeKeepsNodes ==
  ASSUME NodesInv, NEW d \in Boards, NEW n \in Node, ChangeNode(d, n)
  PROVE  NodesInv'
<1>1. nodes' = WithNode(nodes, d, n) /\ PersistNodes(n.workspace) /\ UNCHANGED <<syncWires, loading, project>>
  BY DEF ChangeNode
<1>2. /\ DOMAIN nodes' = DOMAIN nodes \cup {d} /\ nodes' = [e \in DOMAIN nodes' |-> nodes'[e]]
      /\ nodes'[d] = n /\ \A e \in DOMAIN nodes \ {d} : nodes'[e] = nodes[e]
  BY <1>1 DEF WithNode
<1>3. nodes' \in NodeMaps
  BY <1>2, NodeMap DEF NodesInv, BoardsInv
<1>4. n.workspace \in Workspaces /\ Default \in Workspaces
  BY NodesAre DEF Workspaces
<1>5. CASE n.workspace = Default
  BY <1>1, <1>3, <1>5, AllSavedKeepsNodes DEF NodesInv, BoardsInv
<1>6. CASE n.workspace # Default
  <2>1. /\ FileInv' /\ nodeFile' \in [Workspaces -> {NoFile} \cup Stores] /\ nodeFile'[Default] = nodeFile[Default]
    BY <1>1, <1>3, <1>4, <1>6, NodesAreStored DEF NodesInv
  <2>2. ASSUME loading.step # "hydrated", NEW e \in DOMAIN nodes', nodes'[e].workspace = Default
        PROVE  /\ nodeFile[Default] # NoFile /\ e \in DOMAIN nodeFile[Default].nodes
               /\ Decided(nodeFile[Default].nodes[e]) = Decided(nodes'[e])
    <3>1. e \in DOMAIN nodes /\ nodes'[e] = nodes[e]
      BY <1>2, <1>6, <2>2
    <3> QED
      BY <2>2, <3>1 DEF NodesInv, DecisionsAreStored
  <2>3. DecisionsAreStored'
    BY <1>1, <2>1, <2>2 DEF DecisionsAreStored, Decided
  <2> QED
    BY <1>1, <1>3, <2>1, <2>3 DEF NodesInv, BoardsInv
<1> QED
  BY <1>5, <1>6

\* A heartbeat saves nothing, and decides nothing either.
LEMMA HeartbeatKeepsNodes ==
  ASSUME NodesInv, NEW d, Heartbeat(d)
  PROVE  NodesInv'
<1>1. /\ d \in DOMAIN nodes /\ nodes' = [nodes EXCEPT ![d] = Touched(nodes[d])]
      /\ UNCHANGED <<syncWires, nodeFile, loading, projectVars>>
  BY DEF Heartbeat
<1>2. nodes \in NodeMaps /\ nodes[d] \in Node
  BY <1>1, NodeMap DEF NodesInv, BoardsInv
<1>3. /\ DOMAIN nodes' = DOMAIN nodes /\ nodes' = [e \in DOMAIN nodes' |-> nodes'[e]]
      /\ nodes'[d] = Touched(nodes[d]) /\ \A e \in DOMAIN nodes \ {d} : nodes'[e] = nodes[e]
  BY <1>1, <1>2, NodeMap
<1>4. nodes' \in NodeMaps
  <2>1. \A e \in DOMAIN nodes : e \in Boards /\ nodes[e] \in Node
    BY <1>2, NodeMap
  <2>2. Touched(nodes[d]) \in Node
    BY <1>2, NodesAre
  <2>3. DOMAIN nodes' \subseteq Boards /\ \A e \in DOMAIN nodes' : nodes'[e] \in Node
    BY <1>1, <1>3, <2>1, <2>2
  <2> QED
    BY <1>3, <2>3, NodeMap
<1>5. \A e \in DOMAIN nodes : Decided(nodes'[e]) = Decided(nodes[e]) /\ nodes'[e].workspace = nodes[e].workspace
  <2>1. Decided(nodes'[d]) = Decided(nodes[d]) /\ nodes'[d].workspace = nodes[d].workspace
    BY <1>2, <1>3, NodesAre
  <2>2. ASSUME NEW e \in DOMAIN nodes \ {d}
        PROVE  Decided(nodes'[e]) = Decided(nodes[e]) /\ nodes'[e].workspace = nodes[e].workspace
    BY <1>3, <2>2 DEF Decided
  <2> QED
    BY <2>1, <2>2
<1>6. DecisionsAreStored'
  BY <1>1, <1>3, <1>5 DEF NodesInv, DecisionsAreStored
<1> QED
  BY <1>1, <1>4, <1>6, FileUnchanged DEF NodesInv, BoardsInv

LEMMA LoadKeepsNodes ==
  ASSUME NodesInv, NEW plugged \in Plugged, LoadProject(plugged)
  PROVE  NodesInv'
<1>1. UNCHANGED <<nodes, syncWires, nodeFile, projectVars>> /\ loading = NotLoading
  BY DEF LoadProject
<1>2. ASSUME project \in Wholes PROVE [d \in DOMAIN project.nodes |-> FromProject(d)] \in NodeMaps
  <2> DEFINE f == [d \in DOMAIN project.nodes |-> FromProject(d)]
  <2>1. \A d \in DOMAIN project.nodes : d \in Boards /\ project.nodes[d] \in Layouts
    BY <1>2, WholeIs, LayoutMap
  <2>2. \A d \in DOMAIN project.nodes : FromProject(d) \in Node
    BY <2>1 DEF FromProject, Node, Layouts, Workspaces
  <2>3. DOMAIN f = DOMAIN project.nodes /\ f = [d \in DOMAIN f |-> f[d]] /\ \A d \in DOMAIN f : f[d] \in Node
    BY <2>2
  <2> HIDE DEF f
  <2>4. f \in NodeMaps
    BY <2>1, <2>3, NodeMap
  <2> QED
    BY <2>4 DEF f
<1>3. ASSUME NEW w \in SUBSET WireIds, NEW f \in NodeMaps
      PROVE  [step |-> "read", plugged |-> plugged, wires |-> w, nodes |-> f] \in Loadings
  BY DEF Loadings
<1>4. loading' \in Loadings /\ loading'.step = "read"
  <2>1. CASE /\ project.kind = "whole"
             /\ loading' = [step |-> "read", plugged |-> plugged, wires |-> project.wires,
                            nodes |-> [d \in DOMAIN project.nodes |-> FromProject(d)]]
    <3>1. project \in Wholes
      BY <2>1 DEF NodesInv, FileInv, NoFile, Cut
    <3> QED
      BY <1>2, <1>3, <2>1, <3>1, WholeIs
  <2>2. CASE /\ nodeFile[Project] # NoFile
             /\ loading' = [step |-> "read", plugged |-> plugged, wires |-> nodeFile[Project].wires,
                            nodes |-> nodeFile[Project].nodes]
    <3>1. nodeFile[Project] \in Stores
      BY <2>2 DEF NodesInv, BoardsInv, Workspaces
    <3>2. nodeFile[Project].nodes \in NodeMaps /\ nodeFile[Project].wires \in SUBSET WireIds
      BY <3>1 DEF Stores
    <3> QED
      BY <1>3, <2>2, <3>2
  <2> QED
    BY <2>1, <2>2 DEF LoadProject
<1>5. DecisionsAreStored'
  BY <1>1, <1>4 DEF NodesInv, DecisionsAreStored, NotLoading
<1> QED
  BY <1>1, <1>4, <1>5, FileUnchanged DEF NodesInv, BoardsInv

LEMMA HydrateKeepsNodes ==
  ASSUME NodesInv, Hydrate
  PROVE  NodesInv'
<1>1. loading \in Loadings
  BY DEF NodesInv, BoardsInv, Hydrate, NotLoading
<1>2. /\ nodes' = [d \in DOMAIN nodes \cup DOMAIN loading.nodes |->
                     IF d \in DOMAIN loading.nodes THEN loading.nodes[d] ELSE nodes[d]]
      /\ syncWires' = loading.wires /\ loading' = [loading EXCEPT !.step = "hydrated"]
      /\ UNCHANGED <<nodeFile, projectVars>>
  BY DEF Hydrate
<1>3. loading.nodes \in NodeMaps /\ loading.wires \subseteq WireIds
  BY <1>1 DEF Loadings
<1>4. loading' \in Loadings /\ loading'.step = "hydrated"
  BY <1>1, <1>2 DEF Loadings
<1>5. /\ DOMAIN nodes' \subseteq Boards /\ nodes' = [d \in DOMAIN nodes' |-> nodes'[d]]
      /\ \A d \in DOMAIN nodes' : nodes'[d] \in Node
  BY <1>2, <1>3, NodeMap DEF NodesInv, BoardsInv
<1>6. nodes' \in NodeMaps
  BY <1>5, NodeMap
<1> QED
  BY <1>2, <1>3, <1>4, <1>6, FileUnchanged DEF NodesInv, BoardsInv, DecisionsAreStored

LEMMA NodesRestartKeepsNodes ==
  ASSUME NodesInv, NEW cut \in BOOLEAN, NodesRestart(cut), UNCHANGED project, saving' = [s \in Services |-> NotSaving]
  PROVE  NodesInv'
<1> DEFINE known == ~cut /\ nodeFile[Default] # NoFile
           stored == nodeFile[Default].nodes
<1>1. /\ nodes' = IF known THEN [d \in DOMAIN stored |-> Reloaded(stored[d])] ELSE <<>>
      /\ syncWires' = IF known THEN nodeFile[Default].wires ELSE {}
      /\ nodeFile' = IF known THEN nodeFile ELSE [nodeFile EXCEPT ![Default] = NoFile]
      /\ loading' = NotLoading
  BY DEF NodesRestart
<1>2. Default \in Workspaces /\ nodeFile \in [Workspaces -> {NoFile} \cup Stores]
  BY DEF NodesInv, BoardsInv, Workspaces
<1>3. FileInv'
  BY DEF NodesInv, FileInv
<1>4. CASE known
  <2>1. nodeFile[Default] \in Stores /\ nodeFile' = nodeFile /\ nodeFile[Default] # NoFile
    BY <1>1, <1>2, <1>4
  <2>2. stored \in NodeMaps /\ nodeFile[Default].wires \subseteq WireIds
    BY <2>1 DEF Stores
  <2>3. nodes' = [d \in DOMAIN stored |-> Reloaded(stored[d])] /\ syncWires' = nodeFile[Default].wires
    BY <1>1, <1>4
  <2>4. nodeFile'[Default].nodes = stored
    BY <2>1
  <2> HIDE DEF known, stored
  <2>5. /\ DOMAIN nodes' = DOMAIN stored /\ nodes' = [d \in DOMAIN nodes' |-> nodes'[d]]
        /\ \A d \in DOMAIN stored : nodes'[d] \in Node /\ Decided(nodes'[d]) = Decided(stored[d])
    BY <2>2, <2>3, NodeMap, NodesAre
  <2>6. nodes' \in NodeMaps
    BY <2>2, <2>5, NodeMap
  <2>7. DecisionsAreStored'
    BY <2>1, <2>4, <2>5 DEF DecisionsAreStored
  <2> QED
    BY <1>1, <1>2, <1>3, <2>1, <2>2, <2>3, <2>6, <2>7 DEF NodesInv, BoardsInv
<1>5. CASE ~known
  <2>1. nodes' = <<>> /\ syncWires' = {} /\ nodeFile' = [nodeFile EXCEPT ![Default] = NoFile]
    BY <1>1, <1>5
  <2>2. DecisionsAreStored'
    BY <2>1, NoNodesIsAMap DEF DecisionsAreStored
  <2> QED
    BY <1>1, <1>2, <1>3, <2>1, <2>2, NoNodesIsAMap DEF NodesInv, BoardsInv
<1> QED
  BY <1>4, <1>5

LEMMA BoardsKeepNodes ==
  ASSUME NodesInv, BoardEvent \/ UserRequest \/ NodesStep
  PROVE  NodesInv'
<1>1. BoardsInv /\ FileInv /\ nodes \in NodeMaps
  BY DEF NodesInv, BoardsInv
<1>2. \A d \in DOMAIN nodes : d \in Boards /\ nodes[d] \in Node
  BY <1>1, NodeMap
<1>3. ASSUME NEW d \in Boards, NEW port \in Ports, BoardReports(d, port) PROVE NodesInv'
  BY <1>1, <1>3, UpsertedIsNode, ChangeKeepsNodes DEF BoardReports
<1>4. ASSUME NEW d \in Boards, BoardLost(d) \/ UserDisconnects(d) \/ UserMoves(d) \/ PinReports(d) PROVE NodesInv'
  <2>1. d \in DOMAIN nodes /\ nodes[d] \in Node
    BY <1>2, <1>4 DEF BoardLost, UserDisconnects, UserMoves, PinReports
  <2>2. \E n \in Node : ChangeNode(d, n)
    BY <1>4, <2>1, NodesAre DEF BoardLost, UserDisconnects, UserMoves, PinReports
  <2> QED
    BY <2>2, ChangeKeepsNodes
<1>5. ASSUME NEW plugged \in Plugged, Sweep(plugged) PROVE NodesInv'
  BY <1>1, <1>5, SweptAreNodes, AllSavedKeepsNodes DEF Sweep, BoardsInv
<1>6. ASSUME NEW d \in Boards, NEW plugged \in Plugged, UserReconnects(d, plugged) PROVE NodesInv'
  <2> DEFINE n == Reconnected(d, nodes[d], plugged)
  <2>1. /\ d \in DOMAIN nodes /\ nodes' = [nodes EXCEPT ![d] = n]
        /\ PersistNodes(Default) /\ UNCHANGED <<syncWires, loading, project>>
    BY <1>6 DEF UserReconnects
  <2>2. n \in Node
    BY <1>2, <2>1, ReconnectedIsNode
  <2> HIDE DEF n
  <2>3. DOMAIN nodes' = DOMAIN nodes /\ nodes' = [e \in DOMAIN nodes' |-> nodes'[e]] /\ \A e \in DOMAIN nodes' : nodes'[e] \in Node
    BY <1>1, <1>2, <2>1, <2>2, NodeMap
  <2>4. nodes' \in NodeMaps
    BY <1>1, <2>3, NodeMap
  <2> QED
    BY <1>1, <2>1, <2>4, AllSavedKeepsNodes DEF BoardsInv
<1>7. CASE ReconnectLoaded
  <2>1. loading \in Loadings
    BY <1>1, <1>7 DEF ReconnectLoaded, BoardsInv, NotLoading
  <2>2. loading.plugged \in Plugged
    BY <2>1 DEF Loadings
  <2> QED
    BY <1>1, <1>7, <2>2, SweptAreNodes, AllSavedKeepsNodes DEF ReconnectLoaded
<1>8. CASE SaveNodes
  <2>1. FileInv'
    BY <1>1, <1>8, OpenKeepsFile, WriteKeepsFile DEF SaveNodes, Services
  <2> QED
    BY <1>8, <2>1 DEF SaveNodes, nodesVars, NodesInv, BoardsInv, DecisionsAreStored
<1> QED
  BY <1>3, <1>4, <1>5, <1>6, <1>7, <1>8, HeartbeatKeepsNodes, LoadKeepsNodes, HydrateKeepsNodes
     DEF BoardEvent, UserRequest, NodesStep

LEMMA NodesUnchanged ==
  ASSUME NodesInv, UNCHANGED nodesVars, FileInv'
  PROVE  NodesInv'
  BY DEF NodesInv, BoardsInv, nodesVars, DecisionsAreStored

LEMMA NodesStart ==
  ASSUME NodesInit, ProjectInit
  PROVE  NodesInv
<1>1. FileInv
  BY DEF ProjectInit, FileInv
<1> QED
  BY <1>1, NoNodesIsAMap DEF NodesInit, NodesInv, BoardsInv, DecisionsAreStored

LEMMA NodesNextStep ==
  ASSUME NodesInv, WiringInv, WiringInv', [WorkspaceNext]_workspaceVars
  PROVE  NodesInv'
<1>1. FileInv
  BY DEF NodesInv
<1>2. \/ BoardEvent \/ UserRequest \/ NodesStep
      \/ (WiringRequest \/ WiringStep) /\ UNCHANGED nodesVars
      \/ UNCHANGED <<nodesVars, projectVars>>
      \/ /\ \E cut \in BOOLEAN : NodesRestart(cut)
         /\ UNCHANGED project /\ saving' = [s \in Services |-> NotSaving]
  BY DEF WorkspaceNext, workspaceVars, Request, Step, Restart
<1>3. CASE (WiringRequest \/ WiringStep) /\ UNCHANGED nodesVars
  BY <1>1, <1>3, WiringKeepsFile, NodesUnchanged
<1>4. CASE UNCHANGED <<nodesVars, projectVars>>
  BY <1>1, <1>4, FileUnchanged, NodesUnchanged
<1> QED
  BY <1>2, <1>3, <1>4, BoardsKeepNodes, NodesRestartKeepsNodes

LEMMA NodesAlways == WorkspaceSpec => []NodesInv
<1>1. WorkspaceInit => NodesInv
  BY NodesStart DEF WorkspaceInit
<1>2. NodesInv /\ WiringInv /\ WiringInv' /\ [WorkspaceNext]_workspaceVars => NodesInv'
  BY NodesNextStep
<1> QED
  BY <1>1, <1>2, WiringAlways, PTL DEF WorkspaceSpec

\* That the user switched a board of the default workspace off, or moved it,
\* is in the store at every step but while a project is being loaded, although
\* heartbeats change nodes without saving them.
THEOREM DecisionsStayStored == WorkspaceSpec => []DecisionsAreStored
<1>1. NodesInv => DecisionsAreStored
  BY DEF NodesInv
<1> QED
  BY <1>1, NodesAlways, PTL

-----------------------------------------------------------------------------
(* The types                                                               *)

PinsInv ==
    /\ \A n \in DOMAIN links : links[n] \subseteq Pins
    /\ pinState \in [Pins -> {"unset", "LOW", "HIGH"}]

LEMMA PinsStep ==
  ASSUME PinsInv, WiringInv, [WorkspaceNext]_workspaceVars
  PROVE  PinsInv'
<1>1. CASE UNCHANGED <<links, pinState>>
  BY <1>1 DEF PinsInv
<1>2. ASSUME NEW t \in Threads, MakeLink(t) PROVE PinsInv'
  <2> DEFINE m == making[t]
  <2>1. /\ m.step = "numbered" /\ links' = WithWire(links, m.number, {m.wire.a, m.wire.b}) /\ UNCHANGED pinState
    BY <1>2 DEF MakeLink
  <2>2. m \in Makings
    BY <2>1 DEF WiringInv, WiresInv, NoWire
  <2>3. m.wire.a \in Pins /\ m.wire.b \in Pins
    BY <2>2, MakingsAre, WireEnds
  <2> HIDE DEF m
  <2>4. \A n \in DOMAIN links' : links'[n] \subseteq Pins
    BY <2>1, <2>3 DEF WithWire, PinsInv
  <2> QED
    BY <2>1, <2>4 DEF PinsInv
<1>3. ASSUME NEW id, Disconnect(id) PROVE PinsInv'
  BY <1>3 DEF Disconnect, LinksWithout, WithoutWire, PinsInv
<1>4. ASSUME NEW p \in Pins, NEW v \in {"LOW", "HIGH"}, WritePin(p, v) PROVE PinsInv'
  BY <1>4 DEF WritePin, PinsInv
<1>5. ASSUME NEW cut \in BOOLEAN, WiringRestart(cut) PROVE PinsInv'
  BY <1>5 DEF WiringRestart, PinsInv
<1>6. \/ WiringRequest \/ WiringStep \/ UNCHANGED wiringVars \/ \E cut \in BOOLEAN : WiringRestart(cut)
  BY DEF WorkspaceNext, workspaceVars, Request, Step, Restart
<1>7. CASE WiringRequest
  BY <1>1, <1>3, <1>4, <1>7 DEF WiringRequest, Connect, UpdateConnection
<1>8. CASE WiringStep
  BY <1>1, <1>2, <1>8 DEF WiringStep, RecordWire, SaveWires, wiringVars
<1> QED
  BY <1>1, <1>5, <1>6, <1>7, <1>8 DEF wiringVars

LEMMA WiringTypes ==
  ASSUME WiringInv, PinsInv
  PROVE  WiringTypeOK
<1>1. ASSUME NEW f \in WireMaps PROVE IsWires(f)
  BY WireMap DEF IsWires
<1>2. graph.adj \in [Pins -> SUBSET Pins]
  <2>1. graph = GraphOf(wires) /\ wires \in WireMaps
    BY DEF WiringInv, GraphIsLoaded, WiresInv
  <2>2. \A i \in DOMAIN wires : wires[i].a \in Pins /\ wires[i].b \in Pins
    BY <2>1, WireMap, WireEnds
  <2>3. ASSUME NEW p \in Pins PROVE graph.adj[p] \subseteq Pins
    BY <2>1, <2>2, NeighboursAre DEF Joins
  <2>4. graph.adj = [p \in Pins |-> graph.adj[p]]
    BY <2>1, NeighboursAre
  <2> QED
    BY <2>3, <2>4
<1>3. graph.ids = DOMAIN wires
  BY GraphIs DEF WiringInv, GraphIsLoaded
<1>4. ASSUME NEW t \in Threads PROVE making[t] = NoWire \/ making[t].wire \in Wire
  BY MakingsAre DEF WiringInv, WiresInv
<1>5. \A n \in DOMAIN links : n \in Nat /\ links[n] \subseteq Pins
  BY DEF WiringInv, LinksInv, PinsInv
<1>6. IsWires(wires) /\ \A ws \in Workspaces : IsWires(wireFile[ws])
  BY <1>1 DEF WiringInv, WiresInv
<1>7. graph.ids \subseteq WireIds /\ drawn \subseteq WireIds
  BY <1>3 DEF WiringInv, WiresInv
<1> QED
  BY <1>2, <1>4, <1>5, <1>6, <1>7 DEF WiringTypeOK, PinsInv

LEMMA NodesTypes ==
  ASSUME NodesInv
  PROVE  NodesTypeOK
<1>1. ASSUME NEW f \in NodeMaps PROVE IsNodes(f)
  BY NodeMap DEF IsNodes
<1>2. ASSUME NEW ws \in Workspaces PROVE nodeFile[ws] = NoFile \/ IsNodes(nodeFile[ws].nodes)
  BY <1>1 DEF NodesInv, BoardsInv, Stores
<1>3. loading = NotLoading \/ IsNodes(loading.nodes)
  BY <1>1 DEF NodesInv, BoardsInv, Loadings
<1> QED
  BY <1>1, <1>2, <1>3 DEF NodesTypeOK, NodesInv, BoardsInv

LEMMA CanvasTypes ==
  ASSUME CanvasInv
  PROVE  CanvasTypeOK
<1>1. ASSUME NEW s, s.parts \in PartMaps, s.edges \in EdgeMaps PROVE IsPicture(s)
  BY <1>1, PartMap, EdgeMap DEF IsPicture
<1>2. ASSUME NEW stack \in Seq(Pictures), NEW i \in DOMAIN stack PROVE IsPicture(stack[i])
  <2>1. stack[i] \in Pictures
    OBVIOUS
  <2> QED
    BY <1>1, <2>1 DEF Pictures
<1>3. canvas = NoCanvas \/ (canvas.status \in CanvasStatuses /\ IsPicture(canvas))
  BY <1>1, CanvasParts DEF CanvasInv
<1> QED
  BY <1>2, <1>3 DEF CanvasInv, CanvasTypeOK

\* Wires, links, nodes and pictures of the canvas stay what the code takes
\* them for, in memory and in the stores a restart reads.
THEOREM WorkspaceTypeCorrect == WorkspaceSpec => []WorkspaceTypeOK
<1>1. WorkspaceInit => PinsInv
  BY DEF WorkspaceInit, WiringInit, PinsInv
<1>2. PinsInv /\ WiringInv /\ [WorkspaceNext]_workspaceVars => PinsInv'
  BY PinsStep
<1>3. WiringInv /\ PinsInv /\ NodesInv /\ CanvasInv => WorkspaceTypeOK
  BY WiringTypes, NodesTypes, CanvasTypes DEF WorkspaceTypeOK
<1> QED
  BY <1>1, <1>2, <1>3, WiringAlways, NodesAlways, CanvasAlways, PTL DEF WorkspaceSpec
=============================================================================
