--------------------------- MODULE MetadataProofs ---------------------------
(***************************************************************************)
(* Proofs about Metadata, for every set of launches, editors, wallets and  *)
(* kinds of content: content belongs to the creator of its launch, and     *)
(* every accepted edit takes effect once, on what its editor had read.     *)
(***************************************************************************)
EXTENDS Metadata, TLAPS

-----------------------------------------------------------------------------
(* The inductive invariant.                                                *)

Contents == [by : Editors \cup {"nobody"}, number : Nat]
Row == [content : Contents, revision : Nat]

EditorStates ==
  [pc : {"idle", "read", "authorized", "unanswered"}, kind : Kinds \cup {"none"}, base : Row,
   of : Launches \cup {NoLaunch}, sent : Nat]

Edits ==
  [request : Contents, base : Contents, replaced : Contents, revision : Nat,
   read : Launches \cup {NoLaunch}, wrote : Launches]

TypeOK ==
  /\ launch \in Launches \cup {NoLaunch}
  /\ rows \in [Kinds -> [Launches -> Row]]
  /\ editor \in [Editors -> EditorStates]
  /\ applied \subseteq Edits
  /\ \A e \in Editors : editor[e].pc # "idle" => editor[e].kind \in Kinds

\* While an editor is authorized the launch stays, and is its creator's.
AuthorizedStays == \A e \in Editors : editor[e].pc = "authorized" => Authorized(e)

\* A row belongs to the creator of its launch.
RowsOwned ==
  \A k \in Kinds, l \in Launches :
    rows[k][l] # NoRow => l.creator \in Wallets[rows[k][l].content.by]

\* A revision names one content: a row that still has the revision that an editor read
\* still has the content it read.
RevisionsName ==
  \A e \in Editors :
    editor[e].pc # "idle" /\ editor[e].of # NoLaunch =>
      LET row == rows[editor[e].kind][editor[e].of] IN
      /\ editor[e].base.revision <= row.revision
      /\ editor[e].base.revision = row.revision => editor[e].base = row

\* Edits carry numbers that their editors have used, and a launch to which the request
\* under way was already applied has moved past the revision that the request expects.
Underway(e) == editor[e].pc \in {"authorized", "unanswered"}

NumbersUsed ==
  \A w \in applied, e \in Editors :
    w.request.by = e =>
      /\ w.request.number <= editor[e].sent
      /\ Underway(e) /\ w.request.number = editor[e].sent =>
           editor[e].base.revision < rows[editor[e].kind][w.wrote].revision

IInv ==
  /\ TypeOK
  /\ AuthorizedStays
  /\ RowsOwned
  /\ RevisionsName
  /\ NumbersUsed
  /\ EditsSerial

-----------------------------------------------------------------------------
(* Steps of one editor that leave the rows alone.                          *)

\* me is a state that editor e can go to by itself.
Allowed(e, me) ==
  /\ me \in EditorStates
  /\ me.pc # "idle" => me.kind \in Kinds
  /\ me.pc = "authorized" => Authorized(e)
  /\ me.pc # "idle" /\ me.of # NoLaunch =>
       /\ me.base.revision <= rows[me.kind][me.of].revision
       /\ me.base.revision = rows[me.kind][me.of].revision => me.base = rows[me.kind][me.of]
  /\ me.sent >= editor[e].sent
  /\ me.pc \in {"authorized", "unanswered"} =>
       \/ me.sent > editor[e].sent
       \/ Underway(e) /\ me.base = editor[e].base /\ me.kind = editor[e].kind

\* An editor that goes to an allowed state keeps the invariant.
LEMMA EditorStep ==
  ASSUME IInv, NEW e \in Editors, NEW me, Allowed(e, me),
         editor' = [editor EXCEPT ![e] = me], UNCHANGED <<launch, rows, applied>>
  PROVE  IInv'
  <1>1. \A f \in Editors : editor'[f] = IF f = e THEN me ELSE editor[f]
    BY DEF IInv, TypeOK
  <1>2. TypeOK'
    BY <1>1 DEF IInv, TypeOK, Allowed
  <1>3. AuthorizedStays'
    BY <1>1 DEF IInv, AuthorizedStays, Authorized, Allowed
  <1>4. RowsOwned' /\ EditsSerial'
    BY DEF IInv, RowsOwned, EditsSerial, NoLostEdit, AppliedOnce
  <1>5. RevisionsName'
    BY <1>1 DEF IInv, RevisionsName, Allowed
  <1>6. NumbersUsed'
    <2> SUFFICES ASSUME NEW w \in applied, NEW f \in Editors, w.request.by = f
                 PROVE  /\ w.request.number <= editor'[f].sent
                        /\ Underway(f)' /\ w.request.number = editor'[f].sent =>
                             editor'[f].base.revision < rows[editor'[f].kind][w.wrote].revision
      BY DEF NumbersUsed
    <2>1. /\ w.request.number \in Nat /\ editor[f].sent \in Nat
          /\ w.request.number <= editor[f].sent
      BY DEF IInv, TypeOK, NumbersUsed, Edits, Contents, EditorStates
    <2>2. CASE f # e
      BY <1>1, <2>2 DEF IInv, NumbersUsed, Underway
    <2>3. CASE f = e
      <3>1. me.sent \in Nat /\ me.sent >= editor[f].sent
        BY <2>3 DEF Allowed, EditorStates
      <3>2. editor'[f] = me
        BY <1>1, <2>3
      <3>3. w.request.number <= editor'[f].sent
        BY <2>1, <3>1, <3>2
      <3>4. ASSUME Underway(f)', w.request.number = editor'[f].sent
            PROVE  editor'[f].base.revision < rows[editor'[f].kind][w.wrote].revision
        <4>1. ~(me.sent > editor[f].sent) /\ me.sent = editor[f].sent
          BY <2>1, <3>1, <3>2, <3>4
        <4>2. Underway(f) /\ me.base = editor[f].base /\ me.kind = editor[f].kind
          BY <2>3, <3>2, <3>4, <4>1 DEF Allowed, Underway
        <4> QED BY <3>2, <3>4, <4>1, <4>2 DEF IInv, NumbersUsed
      <3> QED BY <3>3, <3>4
    <2> QED BY <2>2, <2>3
  <1> QED BY <1>2, <1>3, <1>4, <1>5, <1>6 DEF IInv

\* An editor reads the content that is shown.
LEMMA GetStep == ASSUME IInv, NEW e \in Editors, NEW k \in Kinds, Get(e, k) PROVE IInv'
  <1> DEFINE me == [editor[e] EXCEPT !.pc = "read", !.kind = k, !.base = Shown(k), !.of = launch]
  <1>1. editor[e] \in EditorStates /\ launch \in Launches \cup {NoLaunch}
    BY DEF IInv, TypeOK
  <1>2. Shown(k) \in Row
    <2>1. NoRow \in Row
      BY DEF NoRow, Row, NoContent, Contents
    <2> QED BY <1>1, <2>1 DEF IInv, TypeOK, Shown
  <1>3. launch # NoLaunch => Shown(k) = rows[k][launch]
    BY DEF Shown
  <1>4. /\ me \in EditorStates /\ me.pc = "read" /\ me.kind = k /\ me.base = Shown(k)
        /\ me.of = launch /\ me.sent = editor[e].sent
    BY <1>1, <1>2 DEF EditorStates
  <1>5. editor' = [editor EXCEPT ![e] = me] /\ UNCHANGED <<launch, rows, applied>>
    BY DEF Get
  <1> HIDE DEF me
  <1>6. Allowed(e, me)
    BY <1>1, <1>2, <1>3, <1>4 DEF Allowed, EditorStates, Row
  <1> QED BY <1>5, <1>6, EditorStep

\* A write is authorized, or refused and forgotten.
LEMMA PutStep == ASSUME IInv, NEW e \in Editors, Put(e) PROVE IInv'
  <1> DEFINE sent == IF editor[e].pc = "read" THEN editor[e].sent + 1 ELSE editor[e].sent
  <1>1. /\ editor[e] \in EditorStates /\ editor[e].pc \in {"read", "unanswered"}
        /\ editor[e].kind \in Kinds
        /\ UNCHANGED <<launch, rows, applied>>
    BY DEF IInv, TypeOK, Put
  <1>2. /\ sent \in Nat /\ sent >= editor[e].sent
        /\ editor[e].pc = "read" => sent > editor[e].sent
    BY <1>1 DEF EditorStates
  <1>3. CASE Authorized(e)
    <2> DEFINE me == [editor[e] EXCEPT !.pc = "authorized", !.sent = sent]
    <2>1. editor' = [editor EXCEPT ![e] = me]
      BY <1>1, <1>3 DEF Put, EditorStates, IInv, TypeOK
    <2> HIDE DEF sent
    <2>2. /\ me \in EditorStates /\ me.pc = "authorized" /\ me.kind = editor[e].kind
          /\ me.base = editor[e].base /\ me.of = editor[e].of /\ me.sent = sent
      BY <1>1, <1>2 DEF EditorStates
    <2> HIDE DEF me
    <2>3. Allowed(e, me)
      BY <1>1, <1>2, <1>3, <2>2 DEF Allowed, IInv, RevisionsName, Underway
    <2> QED BY <1>1, <2>1, <2>3, EditorStep
  <1>4. CASE ~Authorized(e)
    <2> DEFINE me == [editor[e] EXCEPT !.pc = "idle", !.of = NoLaunch, !.base = NoRow,
                                       !.sent = sent]
    <2>1. editor' = [editor EXCEPT ![e] = me]
      BY <1>1, <1>4 DEF Put, EditorStates, IInv, TypeOK
    <2> HIDE DEF sent
    <2>2. NoRow \in Row
      BY DEF NoRow, Row, NoContent, Contents
    <2>3. me \in EditorStates /\ me.pc = "idle" /\ me.sent = sent
      BY <1>1, <1>2, <2>2 DEF EditorStates
    <2> HIDE DEF me
    <2>4. Allowed(e, me)
      BY <1>2, <2>3 DEF Allowed
    <2> QED BY <1>1, <2>1, <2>4, EditorStep
  <1> QED BY <1>3, <1>4

\* A write that ends without an effect may be sent again.
LEMMA AbortStep == ASSUME IInv, NEW e \in Editors, Abort(e) PROVE IInv'
  <1> DEFINE me == [editor[e] EXCEPT !.pc = "unanswered"]
  <1>1. /\ editor[e] \in EditorStates /\ editor[e].pc = "authorized"
        /\ editor[e].kind \in Kinds
    BY DEF IInv, TypeOK, Abort
  <1>2. /\ me \in EditorStates /\ me.pc = "unanswered" /\ me.kind = editor[e].kind
        /\ me.base = editor[e].base /\ me.of = editor[e].of /\ me.sent = editor[e].sent
        /\ me.sent \in Nat
    BY <1>1 DEF EditorStates
  <1>3. editor' = [editor EXCEPT ![e] = me] /\ UNCHANGED <<launch, rows, applied>>
    BY DEF Abort
  <1> HIDE DEF me
  <1>4. Allowed(e, me)
    BY <1>1, <1>2 DEF Allowed, IInv, RevisionsName, Underway
  <1> QED BY <1>3, <1>4, EditorStep

\* The editor closes the page.
LEMMA GiveUpStep == ASSUME IInv, NEW e \in Editors, GiveUp(e) PROVE IInv'
  <1> DEFINE me == [editor[e] EXCEPT !.pc = "idle", !.kind = "none", !.base = NoRow,
                                     !.of = NoLaunch]
  <1>1. NoRow \in Row
    BY DEF NoRow, Row, NoContent, Contents
  <1>2. me \in EditorStates /\ me.pc = "idle" /\ me.sent = editor[e].sent /\ me.sent \in Nat
    BY <1>1 DEF IInv, TypeOK, EditorStates
  <1>3. editor' = [editor EXCEPT ![e] = me] /\ UNCHANGED <<launch, rows, applied>>
    BY DEF GiveUp
  <1> HIDE DEF me
  <1>4. Allowed(e, me)
    BY <1>2 DEF Allowed
  <1> QED BY <1>3, <1>4, EditorStep

\* A reorg waits until no editor is authorized.
LEMMA ReorgStep == ASSUME IInv, Reorg PROVE IInv'
  <1>1. TypeOK'
    BY DEF IInv, TypeOK, Reorg
  <1>2. AuthorizedStays'
    BY DEF AuthorizedStays, Reorg, Locked
  <1>3. RowsOwned' /\ RevisionsName' /\ NumbersUsed' /\ EditsSerial'
    BY DEF IInv, RowsOwned, RevisionsName, NumbersUsed, Underway, EditsSerial, NoLostEdit,
           AppliedOnce, Reorg
  <1> QED BY <1>1, <1>2, <1>3 DEF IInv

\* The conditional upsert: a write that is accepted moves the row past every revision that
\* anybody has read.
LEMMA ReplaceStep == ASSUME IInv, NEW e \in Editors, Replace(e) PROVE IInv'
  <1> DEFINE k == editor[e].kind
             l == launch
             old == rows[k][l]
             base == editor[e].base
             new == [content |-> Draft(e), revision |-> old.revision + 1]
             edit == [request |-> Draft(e), base |-> base.content, replaced |-> old.content,
                      revision |-> new.revision, read |-> editor[e].of, wrote |-> l]
  <1>1. /\ editor[e] \in EditorStates /\ editor[e].pc = "authorized" /\ k \in Kinds
        /\ l \in Launches /\ l # NoLaunch /\ l.creator \in Wallets[e] /\ old \in Row
        /\ base \in Row /\ launch' = l
    BY DEF IInv, TypeOK, AuthorizedStays, Authorized, Replace, EditorStates
  <1>2. CASE ~Accepts(old, base.revision)
    <2> DEFINE me == [editor[e] EXCEPT !.pc = "idle", !.base = NoRow, !.of = NoLaunch]
    <2>1. NoRow \in Row
      BY DEF NoRow, Row, NoContent, Contents
    <2>2. me \in EditorStates /\ me.pc = "idle" /\ me.sent = editor[e].sent /\ me.sent \in Nat
      BY <1>1, <2>1 DEF EditorStates
    <2>3. editor' = [editor EXCEPT ![e] = me] /\ UNCHANGED <<launch, rows, applied>>
      BY <1>2 DEF Replace
    <2> HIDE DEF me
    <2>4. Allowed(e, me)
      BY <2>2 DEF Allowed
    <2> QED BY <2>3, <2>4, EditorStep
  <1>3. CASE Accepts(old, base.revision)
    <2>1. /\ rows' = [rows EXCEPT ![k][l] = new]
          /\ applied' = applied \cup {edit}
          /\ \/ editor' = [editor EXCEPT ![e].pc = "read", ![e].base = new, ![e].of = l]
             \/ editor' = [editor EXCEPT ![e].pc = "unanswered"]
      BY <1>3 DEF Replace
    <2>2. /\ Draft(e) \in Contents /\ Draft(e).by = e /\ Draft(e).number = editor[e].sent
          /\ editor[e].sent \in Nat
      BY <1>1 DEF Draft, Contents, EditorStates
    <2>3. /\ new \in Row /\ new # NoRow /\ new.content = Draft(e)
          /\ new.revision = old.revision + 1 /\ old.revision \in Nat
          /\ old.revision = base.revision
      BY <1>1, <1>3, <2>2 DEF Row, NoRow, Accepts
    <2>4. /\ edit \in Edits /\ edit.request = Draft(e) /\ edit.base = base.content
          /\ edit.replaced = old.content /\ edit.read = editor[e].of /\ edit.wrote = l
      BY <1>1, <2>2, <2>3 DEF Edits, Row, EditorStates
    <2> HIDE DEF new, edit
    <2>5. \A j \in Kinds, m \in Launches :
            rows'[j][m] = IF j = k /\ m = l THEN new ELSE rows[j][m]
      BY <1>1, <2>1 DEF IInv, TypeOK
    <2>6. PICK me \in EditorStates :
            /\ me.sent = editor[e].sent /\ me.kind = k
            /\ \/ me.pc = "read" /\ me.base = new /\ me.of = l
               \/ me.pc = "unanswered" /\ me.base = base /\ me.of = editor[e].of
            /\ editor' = [editor EXCEPT ![e] = me]
      <3>1. CASE editor' = [editor EXCEPT ![e].pc = "read", ![e].base = new, ![e].of = l]
        <4> DEFINE me == [editor[e] EXCEPT !.pc = "read", !.base = new, !.of = l]
        <4>1. /\ me \in EditorStates /\ me.sent = editor[e].sent /\ me.kind = k
              /\ me.pc = "read" /\ me.base = new /\ me.of = l
          BY <1>1, <2>3 DEF EditorStates
        <4>2. editor' = [editor EXCEPT ![e] = me]
          BY <3>1
        <4> QED BY <4>1, <4>2
      <3>2. CASE editor' = [editor EXCEPT ![e].pc = "unanswered"]
        <4> DEFINE me == [editor[e] EXCEPT !.pc = "unanswered"]
        <4>1. /\ me \in EditorStates /\ me.sent = editor[e].sent /\ me.kind = k
              /\ me.pc = "unanswered" /\ me.base = base /\ me.of = editor[e].of
          BY <1>1 DEF EditorStates
        <4>2. editor' = [editor EXCEPT ![e] = me]
          BY <3>2
        <4> QED BY <4>1, <4>2
      <3> QED BY <2>1, <3>1, <3>2
    <2>7. \A f \in Editors : editor'[f] = IF f = e THEN me ELSE editor[f]
      BY <2>6 DEF IInv, TypeOK
    <2>8. TypeOK'
      <3>1. rows' \in [Kinds -> [Launches -> Row]]
        BY <1>1, <2>1, <2>3 DEF IInv, TypeOK
      <3>2. \A f \in Editors : editor'[f].pc # "idle" => editor'[f].kind \in Kinds
        BY <1>1, <2>6, <2>7 DEF IInv, TypeOK
      <3>3. applied' \subseteq Edits
        BY <2>1, <2>4 DEF IInv, TypeOK
      <3> QED BY <1>1, <2>6, <3>1, <3>2, <3>3 DEF IInv, TypeOK
    <2>9. AuthorizedStays'
      BY <1>1, <2>6, <2>7 DEF IInv, AuthorizedStays, Authorized
    <2>10. RowsOwned'
      BY <1>1, <2>2, <2>3, <2>5 DEF IInv, RowsOwned
    <2>11. RevisionsName'
      <3> SUFFICES ASSUME NEW f \in Editors, editor'[f].pc # "idle", editor'[f].of # NoLaunch
                   PROVE  LET row == rows'[editor'[f].kind][editor'[f].of] IN
                          /\ editor'[f].base.revision <= row.revision
                          /\ editor'[f].base.revision = row.revision => editor'[f].base = row
        BY DEF RevisionsName
      <3>1. /\ editor'[f].kind \in Kinds /\ editor'[f].of \in Launches
            /\ editor'[f].base \in Row
        BY <2>8 DEF TypeOK, EditorStates
      <3>2. CASE f # e
        <4>1. editor'[f] = editor[f]
          BY <2>7, <3>2
        <4>2. LET row == rows[editor[f].kind][editor[f].of] IN
              /\ editor[f].base.revision <= row.revision
              /\ editor[f].base.revision = row.revision => editor[f].base = row
          BY <4>1 DEF IInv, RevisionsName
        <4> QED BY <2>3, <2>5, <3>1, <4>1, <4>2 DEF Row
      <3>3. CASE f = e /\ me.pc = "read"
        BY <1>1, <2>3, <2>5, <2>6, <2>7, <3>3 DEF Row
      <3>4. CASE f = e /\ me.pc = "unanswered"
        <4>1. editor'[f].base = base /\ editor'[f].of = editor[e].of /\ editor'[f].kind = k
          BY <2>6, <2>7, <3>4
        <4>2. CASE editor[e].of = l
          BY <1>1, <2>3, <2>5, <4>1, <4>2 DEF Row
        <4>3. CASE editor[e].of # l
          <5>1. rows'[k][editor[e].of] = rows[k][editor[e].of]
            BY <1>1, <2>5, <3>1, <4>1, <4>3
          <5> QED BY <1>1, <4>1, <5>1 DEF IInv, RevisionsName
        <4> QED BY <4>2, <4>3
      <3> QED BY <2>6, <3>2, <3>3, <3>4
    <2>12. NumbersUsed'
      <3> SUFFICES ASSUME NEW w \in applied', NEW f \in Editors, w.request.by = f
                   PROVE  /\ w.request.number <= editor'[f].sent
                          /\ Underway(f)' /\ w.request.number = editor'[f].sent =>
                               editor'[f].base.revision < rows'[editor'[f].kind][w.wrote].revision
        BY DEF NumbersUsed
      <3>1. CASE w = edit
        <4>1. f = e /\ w.request.number = editor[e].sent /\ w.wrote = l /\ editor'[f] = me
          BY <2>2, <2>4, <2>7, <3>1
        <4>2. rows'[k][l] = new
          BY <1>1, <2>5
        <4> QED BY <2>2, <2>3, <2>6, <4>1, <4>2 DEF Underway
      <3>2. CASE w \in applied
        <4>1. /\ w.wrote \in Launches /\ w.request.number \in Nat
              /\ editor[f].base \in Row /\ editor[f] \in EditorStates
          BY <3>2 DEF IInv, TypeOK, Edits, Contents, EditorStates
        <4>2. /\ w.request.number <= editor[f].sent
              /\ Underway(f) /\ w.request.number = editor[f].sent =>
                   editor[f].base.revision < rows[editor[f].kind][w.wrote].revision
          BY <3>2 DEF IInv, NumbersUsed
        <4>3. /\ editor'[f].sent = editor[f].sent
              /\ Underway(f)' => Underway(f) /\ editor'[f].base = editor[f].base
                                             /\ editor'[f].kind = editor[f].kind
          BY <1>1, <2>6, <2>7 DEF Underway
        <4>4. ASSUME Underway(f)
              PROVE  /\ rows[editor[f].kind][w.wrote].revision
                          <= rows'[editor[f].kind][w.wrote].revision
                     /\ rows[editor[f].kind][w.wrote].revision \in Nat
                     /\ rows'[editor[f].kind][w.wrote].revision \in Nat
          <5>1. editor[f].kind \in Kinds
            BY <4>4 DEF IInv, TypeOK, Underway
          <5>2. rows[editor[f].kind][w.wrote] \in Row
            BY <4>1, <5>1 DEF IInv, TypeOK
          <5>3. rows[editor[f].kind][w.wrote].revision \in Nat
            BY <5>2 DEF Row
          <5> QED BY <2>3, <2>5, <4>1, <5>1, <5>3
        <4>5. editor[f].base.revision \in Nat
          BY <4>1 DEF Row
        <4> QED BY <4>2, <4>3, <4>4, <4>5
      <3> QED BY <2>1, <3>1, <3>2
    <2>13. NoLostEdit'
      <3>1. editor[e].of = l => base.content = old.content
        BY <1>1, <2>3 DEF IInv, RevisionsName
      <3> QED BY <2>1, <2>4, <3>1 DEF IInv, EditsSerial, NoLostEdit
    <2>14. AppliedOnce'
      <3>1. \A v \in applied : ~(v.request = edit.request /\ v.wrote = edit.wrote)
        <4> SUFFICES ASSUME NEW v \in applied, v.request = edit.request, v.wrote = edit.wrote
                     PROVE  FALSE
          OBVIOUS
        <4>1. base.revision < rows[k][v.wrote].revision
          BY <1>1, <2>2, <2>4 DEF IInv, NumbersUsed, Underway
        <4> QED BY <2>3, <2>4, <4>1
      <3> QED BY <2>1, <3>1 DEF IInv, EditsSerial, AppliedOnce
    <2> QED BY <2>8, <2>9, <2>10, <2>11, <2>12, <2>13, <2>14 DEF IInv, EditsSerial
  <1> QED BY <1>2, <1>3

-----------------------------------------------------------------------------
(* The theorems. *)

\* The inductive invariant holds initially.
LEMMA InitInvariant == Init => IInv
  <1> SUFFICES ASSUME Init PROVE IInv
    OBVIOUS
  <1>1. TypeOK
    <2>1. NoRow \in Row
      BY DEF NoRow, Row, NoContent, Contents
    <2>2. Idle \in EditorStates
      BY <2>1 DEF Idle, EditorStates
    <2>3. Idle.pc = "idle"
      BY DEF Idle
    <2> QED BY <2>1, <2>2, <2>3 DEF Init, TypeOK
  <1>2. AuthorizedStays /\ RowsOwned /\ RevisionsName
    BY DEF Init, AuthorizedStays, RowsOwned, RevisionsName, Idle
  <1>3. NumbersUsed /\ EditsSerial
    BY DEF Init, NumbersUsed, EditsSerial, NoLostEdit, AppliedOnce
  <1> QED BY <1>1, <1>2, <1>3 DEF IInv

\* Every step keeps it.
LEMMA StepInvariant == IInv /\ [Next]_vars => IInv'
  <1> SUFFICES ASSUME IInv, [Next]_vars PROVE IInv'
    OBVIOUS
  <1>1. ASSUME NEW e \in Editors, NEW k \in Kinds, Get(e, k) PROVE IInv'
    BY <1>1, GetStep
  <1>2. ASSUME NEW e \in Editors, Put(e) \/ Replace(e) \/ Abort(e) \/ GiveUp(e) PROVE IInv'
    BY <1>2, PutStep, ReplaceStep, AbortStep, GiveUpStep
  <1>3. CASE Reorg
    BY <1>3, ReorgStep
  <1>4. CASE UNCHANGED vars
    BY <1>4 DEF vars, IInv, TypeOK, AuthorizedStays, Authorized, RowsOwned, RevisionsName,
                NumbersUsed, Underway, EditsSerial, NoLostEdit, AppliedOnce
  <1> QED BY <1>1, <1>2, <1>3, <1>4 DEF Next

\* A revision names one content of a row, a launch that was written for stays until the
\* write is done, and a repeated request finds that its launch has moved on
\* (metadata.go, metadata_routes.go).
THEOREM MetadataInvariant == Spec => []IInv
  BY InitInvariant, StepInvariant, PTL DEF Spec

\* Content shown for a launch was written by its creator, also when the address is used
\* again after a reorg (rows are keyed by transaction and log index).
THEOREM ContentIsCreators == Spec => []OwnContent
  <1>1. IInv => OwnContent
    BY DEF IInv, TypeOK, RowsOwned, OwnContent, Shown
  <1> QED BY <1>1, MetadataInvariant, PTL

\* An accepted edit replaces what its editor had read, and a repeated one takes effect once
\* (the conditional upsert on the revision).
THEOREM EditsAreSerial == Spec => []EditsSerial
  <1>1. IInv => EditsSerial
    BY DEF IInv
  <1> QED BY <1>1, MetadataInvariant, PTL
=============================================================================
