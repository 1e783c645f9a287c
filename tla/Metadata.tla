------------------------------ MODULE Metadata ------------------------------
(***************************************************************************)
(* The creator's content of one token address: descriptive metadata and an *)
(* image (apiserver/metadata_routes.go, store/postgres/metadata.go).       *)
(*                                                                         *)
(* Content is stored per launch, identified by transaction and log index,  *)
(* and survives the launch when a reorg removes it.  A write carries the   *)
(* revision it was based on; it is accepted if the caller owns the wallet  *)
(* of the current launch's creator and the revision still stands.          *)
(* Reorgs, concurrent editors and lost answers interleave with the two     *)
(* statements of a write.                                                  *)
(***************************************************************************)
EXTENDS Integers, FiniteSets

CONSTANTS
  Launches,    \* launches that may be canonical: [tx, log, creator]
  Editors,     \* callers of the API
  Wallets,     \* Wallets[e]: linked wallets that the identity token of e proves
  Kinds,       \* "metadata", "image"
  MaxRequests  \* MaxRequests[e]: bound on the writes that e sends

\* A transaction that is mined again launches for the same creator: the key of a row, its
\* transaction and log index, stands for the launch.
ASSUME MetadataAssumption ==
  /\ MaxRequests \in [Editors -> Nat]
  /\ \A l, m \in Launches : l.tx = m.tx /\ l.log = m.log => l = m

VARIABLES
  launch,      \* the canonical launch at the address, or none
  rows,        \* rows[k][l]: content of kind k stored for launch l
  editor,      \* editor[e]: what e has read and the request it has under way
  applied      \* accepted writes: request, and the row each one replaced

vars == <<launch, rows, editor, applied>>

NoLaunch == [tx |-> 0, log |-> 0, creator |-> "nobody"]

\* Content is named by the request that wrote it: editor and number.
NoContent == [by |-> "nobody", number |-> 0]
NoRow == [content |-> NoContent, revision |-> 0]

\* What an editor knows before it has read anything, and a fresh page.
Idle == [pc |-> "idle", kind |-> "none", base |-> NoRow, of |-> NoLaunch, sent |-> 0]

Init ==
  /\ launch \in Launches
  /\ rows = [k \in Kinds |-> [l \in Launches |-> NoRow]]
  /\ editor = [e \in Editors |-> Idle]
  /\ applied = {}

\* Mutant: rows are looked up by the address of the token alone.
ShownByAddress(k) ==
  IF launch = NoLaunch THEN NoRow
  ELSE CHOOSE r \in {rows[k][l] : l \in Launches} :
         r # NoRow \/ \A l \in Launches : rows[k][l] = NoRow

\* Content that a reader is shown: the row of the canonical launch, or none (404).
Shown(k) == IF launch = NoLaunch THEN NoRow ELSE rows[k][launch]

\* GET: the content and its revision.  Without a row an editor starts from revision 0.
Get(e, k) ==
  /\ editor[e].pc = "idle"
  /\ editor' = [editor EXCEPT ![e].pc = "read", ![e].kind = k, ![e].base = Shown(k),
                             ![e].of = launch]
  /\ UNCHANGED <<launch, rows, applied>>

\* GetTokenCreatorForUpdate: a launch that is being written for is locked FOR SHARE.
Locked == \E e \in Editors : editor[e].pc = "authorized"

\* authorizedCreator.
Authorized(e) == launch # NoLaunch /\ launch.creator \in Wallets[e]

\* PUT, up to the check of the creator.  404 and 403 end the request.
Put(e) ==
  /\ editor[e].pc \in {"read", "unanswered"}
  /\ editor[e].pc = "read" => editor[e].sent < MaxRequests[e]
  /\ editor' = [editor EXCEPT
       ![e].pc   = IF Authorized(e) THEN "authorized" ELSE "idle",
       ![e].of   = IF Authorized(e) THEN @ ELSE NoLaunch,
       ![e].base = IF Authorized(e) THEN @ ELSE NoRow,
       ![e].sent = IF editor[e].pc = "read" THEN @ + 1 ELSE @]
  /\ UNCHANGED <<launch, rows, applied>>

\* Content that the request under way of e writes.
Draft(e) == [by |-> e, number |-> editor[e].sent]

\* Mutant: revision 0 is taken for "do not compare".
AcceptsZero(row, expected) == expected = 0 \/ row.revision = expected

\* The conditional upsert: the first write expects revision 0, a later one the revision
\* of the row.
Accepts(row, expected) == row.revision = expected

\* Replace and commit.  A refusal is 412; the answer to a success may be lost, and the
\* editor then repeats the same request or gives it up.
Replace(e) ==
  LET k == editor[e].kind
      old == rows[k][launch]
      new == [content |-> Draft(e), revision |-> old.revision + 1] IN
  /\ editor[e].pc = "authorized"
  /\ IF Accepts(old, editor[e].base.revision)
     THEN /\ rows' = [rows EXCEPT ![k][launch] = new]
          /\ applied' = applied \cup {[request |-> Draft(e), base |-> editor[e].base.content,
                                       replaced |-> old.content, revision |-> new.revision,
                                       read |-> editor[e].of, wrote |-> launch]}
          /\ \/ editor' = [editor EXCEPT ![e].pc = "read", ![e].base = new,
                                        ![e].of = launch]
             \/ editor' = [editor EXCEPT ![e].pc = "unanswered"]
     ELSE /\ editor' = [editor EXCEPT ![e].pc = "idle", ![e].base = NoRow, ![e].of = NoLaunch]
          /\ UNCHANGED <<rows, applied>>
  /\ UNCHANGED launch

\* The transaction ends without an effect, and without a verdict: a statement fails, or the
\* COMMIT whose outcome is unknown was not applied.
Abort(e) ==
  /\ editor[e].pc = "authorized"
  /\ editor' = [editor EXCEPT ![e].pc = "unanswered"]
  /\ UNCHANGED <<launch, rows, applied>>

\* The editor closes the page.
GiveUp(e) ==
  /\ editor[e].pc \in {"read", "unanswered"}
  /\ editor' = [editor EXCEPT ![e].pc = "idle", ![e].kind = "none", ![e].base = NoRow,
                             ![e].of = NoLaunch]
  /\ UNCHANGED <<launch, rows, applied>>

\* The indexer removes the launch, or replaces it; the delete waits for the lock.
Reorg ==
  /\ ~Locked
  /\ launch' \in (Launches \cup {NoLaunch}) \ {launch}
  /\ UNCHANGED <<rows, editor, applied>>

Next ==
  \/ \E e \in Editors :
       \/ \E k \in Kinds : Get(e, k)
       \/ Put(e) \/ Replace(e) \/ Abort(e) \/ GiveUp(e)
  \/ Reorg

Spec == Init /\ [][Next]_vars

-----------------------------------------------------------------------------
(* Properties.                                                             *)

\* Content shown for a launch was written by its creator, even when the address is used
\* again by the launch of somebody else after a reorg.  (Content of a launch that comes back
\* at another log index is not shown again, which this does not speak about.)
OwnContent ==
  \A k \in Kinds :
    Shown(k) # NoRow => launch.creator \in Wallets[Shown(k).content.by]

\* An accepted write for the launch that its author was looking at replaces exactly the
\* content it was looking at, whatever other editors, lost answers and reorgs to and fro
\* have done in between.  (A revision is compared, not a launch: with read # wrote, content of
\* another launch of the same creator that happens to have the same revision is replaced
\* unseen.)
NoLostEdit == \A w \in applied : w.read = w.wrote => w.replaced = w.base

\* A write that is repeated because its answer was lost is not applied to the same launch
\* a second time.
AppliedOnce ==
  \A v, w \in applied : v.request = w.request /\ v.wrote = w.wrote => v = w

\* Each accepted edit takes effect once on a launch, and on the content its editor had read
\* there; an edit read from one launch and applied to another of the same creator, at an
\* equal revision, is left out.
EditsSerial ==
  /\ NoLostEdit
  /\ AppliedOnce
=============================================================================
