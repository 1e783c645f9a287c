--------------------------- MODULE OwnershipProofs ---------------------------
(***************************************************************************)
(* Proofs about Ownership, for every number of processes, sessions,        *)
(* commits and blocks: the commits form one chain, a shutdown ends and is  *)
(* honest, and the processes implement SingleWriter.                       *)
(***************************************************************************)
EXTENDS Ownership, FiniteSetTheorems, TLAPS

-----------------------------------------------------------------------------
(* The inductive invariant.                                                *)

Commands == [kind : {"none", "applied", "chunk", "recovery"}, block : 0..MaxBlock, read : Nat]

ProcStates ==
  [pc : {"down", "step", "observed", "writing", "committing", "wait", "returned", "closing"},
   conn : 0..MaxSessions, dead : Errors, read : Nat, write : Commands,
   stopped : BOOLEAN, watching : BOOLEAN, working : BOOLEAN, listening : BOOLEAN,
   errs : [watch : Errors, worker : Errors, engine : Errors],
   unknown : BOOLEAN, code : {0, 1}]

TypeOK ==
  /\ lock \in 0..MaxSessions
  /\ opened \in 0..MaxSessions
  /\ alive \subseteq 1..opened
  /\ request \in [Sessions -> Commands]
  /\ commits \in Seq([by : Sessions, read : Nat, rows : SUBSET (1..MaxBlock)])
  /\ proc \in [Procs -> ProcStates]

\* The session that holds the lock is the only one open at the server.
LockedSession ==
  /\ lock # NoSession => alive = {lock}
  /\ lock = NoSession => alive = {}

\* Every running process has a session of its own; nobody has used one not yet opened.
OwnSessions ==
  /\ \A p \in Procs : proc[p].pc # "down" => proc[p].conn \in 1..opened
  /\ \A p, q \in Procs :
       proc[p].pc # "down" /\ proc[q].pc # "down" /\ proc[p].conn = proc[q].conn => p = q
  /\ \A s \in Sessions : s > opened => request[s] = NoWrite

\* w is a write that Step derives from the ledger with the first w.read commits.
Derived(w) ==
  /\ w.read = Len(commits)
  /\ w.kind = "chunk" => w.block = Height(Current) + 1
  /\ Pending(w)

\* What a process with a live session has read is the ledger as it is.
ReadsCurrent ==
  \A p \in Procs : HasSession(p) =>
    /\ proc[p].pc = "observed" => proc[p].read = Len(commits)
    /\ proc[p].pc = "writing" => Derived(proc[p].write)

\* A COMMIT that waits at the server fits the ledger as it is, its session is alive, and
\* its sender, if it is still there, has not gone on to anything else.
RequestsFit ==
  \A s \in Sessions : Pending(request[s]) =>
    /\ s \in alive
    /\ Derived(request[s])
    /\ \A p \in Procs : proc[p].conn = s =>
         proc[p].pc \in {"down", "committing", "returned", "closing"}

\* Every commit builds on the one before it and leaves the blocks 1..h.
Chained ==
  \A n \in 1..Len(commits) :
    /\ commits[n].read = n - 1
    /\ \E h \in 0..MaxBlock : commits[n].rows = 1..h

\* What the errors of a process tell: a dead session is a lost one, a session given up
\* for a cancellation and a watchdog that ended have a cancelled context, and an unknown
\* outcome reaches the exit code.
Tells(me) ==
  /\ me.dead # {} => Lost \in me.dead
  /\ Canceled \in me.dead => me.stopped
  /\ me.pc # "down" /\ ~me.watching => me.stopped
  /\ me.errs.watch # {} => Lost \in me.errs.watch
  /\ me.errs.worker # {} => me.errs.worker = {Other}
  /\ me.unknown => me.pc \in {"returned", "closing"}
  /\ me.unknown /\ me.pc = "returned" => Unknown \in me.errs.engine
  /\ me.unknown /\ me.pc = "closing" => me.code # 0
  /\ me.pc = "closing" => me.dead # {}

ErrorsTell == \A p \in Procs : Tells(proc[p])

IInv ==
  /\ TypeOK
  /\ LockedSession
  /\ OwnSessions
  /\ ReadsCurrent
  /\ RequestsFit
  /\ Chained
  /\ ErrorsTell

-----------------------------------------------------------------------------
(* Steps of one process that leave the server and the ledger alone.        *)

Gone == {"down", "committing", "returned", "closing"}

\* me is a state that process p can go to by itself.
Allowed(p, me) ==
  /\ me \in ProcStates
  /\ Tells(me)
  /\ me.pc # "down" => proc[p].pc # "down" /\ me.conn = proc[p].conn
  /\ me.pc \in Gone \/ proc[p].pc \notin Gone
  /\ me.conn \in alive =>
       /\ me.pc = "observed" => me.read = Len(commits)
       /\ me.pc = "writing" => Derived(me.write)

\* A process that goes to an allowed state keeps the invariant.
LEMMA LocalStep ==
  ASSUME IInv, NEW p \in Procs, NEW me, Allowed(p, me),
         proc' = [proc EXCEPT ![p] = me],
         UNCHANGED <<lock, alive, opened, request, commits>>
  PROVE  IInv'
  <1>1. TypeOK'
    BY DEF IInv, TypeOK, Allowed
  <1>2. LockedSession'
    BY DEF IInv, LockedSession
  <1>3. \A q \in Procs : proc'[q] = IF q = p THEN me ELSE proc[q]
    BY DEF IInv, TypeOK
  <1>4. OwnSessions'
    BY <1>3 DEF IInv, OwnSessions, Allowed
  <1>5. ReadsCurrent'
    BY <1>3 DEF IInv, ReadsCurrent, HasSession, Session, Allowed, Derived, Pending, Current, Rows
  <1>6. RequestsFit'
    BY <1>3 DEF IInv, RequestsFit, Allowed, Derived, Pending, Current, Rows, Gone, OwnSessions, TypeOK
  <1>7. Chained'
    BY DEF IInv, Chained
  <1>8. ErrorsTell'
    BY <1>3 DEF IInv, ErrorsTell, Allowed
  <1> QED BY <1>1, <1>2, <1>4, <1>5, <1>6, <1>7, <1>8 DEF IInv

\* The record of a process whose Step returned err.
LEMMA FailedState ==
  ASSUME IInv, NEW p \in Procs, proc[p].pc \in {"step", "observed", "writing", "committing", "wait"},
         NEW err \in Errors, NEW gone \in Errors,
         gone # {} => Lost \in gone, Canceled \in gone => proc[p].stopped
  PROVE  Allowed(p, Failed(p, err, gone))
  <1> DEFINE me == Failed(p, err, gone)
  <1>1. proc[p] \in ProcStates /\ Tells(proc[p])
    BY DEF IInv, TypeOK, ErrorsTell
  <1>2. /\ me.pc = "returned" /\ me.conn = proc[p].conn /\ me.dead = gone
        /\ me.errs.watch = proc[p].errs.watch /\ me.errs.worker = proc[p].errs.worker
        /\ me.errs.engine = err /\ me.watching = proc[p].watching
        /\ me.stopped = proc[p].stopped /\ me.unknown = (proc[p].unknown \/ Unknown \in err)
    BY <1>1 DEF Failed, ProcStates
  <1>3. me \in ProcStates
    <2>1. (proc[p].unknown \/ Unknown \in err) \in BOOLEAN
      OBVIOUS
    <2>2. NoWrite \in Commands
      BY OwnershipAssumption DEF NoWrite, Commands
    <2> QED BY <1>1, <2>1, <2>2 DEF Failed, ProcStates
  <1>4. Tells(me)
    BY <1>1, <1>2 DEF Tells
  <1> QED BY <1>2, <1>3, <1>4 DEF Allowed, Gone

\* What the errors of a call, and what a dead session after it, can be.
LEMMA CallFails ==
  ASSUME IInv, NEW p \in Procs, NEW err \in CallErrors(p) \cup CommitErrors(p),
         NEW gone \in DeadAfter(p, err) \cup {proc[p].dead, {Lost} \cup err}
  PROVE  /\ err \in Errors /\ gone \in Errors
         /\ gone # {} => Lost \in gone
         /\ Canceled \in gone => proc[p].stopped
  <1>1. proc[p].dead \in Errors /\ Tells(proc[p])
    BY DEF IInv, TypeOK, ErrorsTell, ProcStates
  <1>2. PICK e \in CallErrors(p) : err = e \/ err = {Unknown} \cup e
    BY DEF CommitErrors
  <1>3. e = {Other} \/ (e = {Canceled} /\ proc[p].stopped)
    BY DEF CallErrors
  <1>4. gone \in {proc[p].dead, {Lost} \cup err}
    BY DEF DeadAfter
  <1> QED BY <1>1, <1>2, <1>3, <1>4 DEF Errors, Tells, Lost, Canceled, Other, Unknown

\* An engine that failed: Run returns.
LEMMA EngineFails ==
  ASSUME IInv, NEW p \in Procs,
         proc[p].pc \in {"step", "observed", "writing", "committing", "wait"},
         NEW err \in CallErrors(p) \cup CommitErrors(p),
         NEW gone \in DeadAfter(p, err) \cup {proc[p].dead, {Lost} \cup err},
         proc' = [proc EXCEPT ![p] = Failed(p, err, gone)],
         UNCHANGED <<lock, alive, opened, request, commits>>
  PROVE  IInv'
  BY CallFails, FailedState, LocalStep

\* The same when the session was already known to be gone.
LEMMA EngineStops ==
  ASSUME IInv, NEW p \in Procs, proc[p].pc \in {"step", "observed"},
         proc' = [proc EXCEPT ![p] = Failed(p, proc[p].dead, proc[p].dead)],
         UNCHANGED <<lock, alive, opened, request, commits>>
  PROVE  IInv'
  <1>1. proc[p].dead \in Errors /\ Tells(proc[p])
    BY DEF IInv, TypeOK, ErrorsTell, ProcStates
  <1>2. Allowed(p, Failed(p, proc[p].dead, proc[p].dead))
    BY <1>1, FailedState DEF Tells
  <1> QED BY <1>2, LocalStep

\* The first transaction of Step.
LEMMA ObserveStep == ASSUME IInv, NEW p \in Procs, Observe(p) PROVE IInv'
  <1>1. CASE proc[p].dead # {}
    BY <1>1, EngineStops DEF Observe
  <1>2. CASE /\ HasSession(p)
             /\ proc' = [proc EXCEPT ![p].pc = "observed", ![p].read = Len(commits)]
    <2> DEFINE me == [proc[p] EXCEPT !.pc = "observed", !.read = Len(commits)]
    <2>1. proc[p] \in ProcStates /\ Tells(proc[p]) /\ Len(commits) \in Nat
      BY DEF IInv, TypeOK, ErrorsTell
    <2>2. Allowed(p, me)
      BY <2>1 DEF Allowed, ProcStates, Tells, Observe, Gone
    <2>3. proc' = [proc EXCEPT ![p] = me]
      BY <1>2
    <2> QED BY <2>2, <2>3, LocalStep DEF Observe
  <1>3. CASE \E err \in CallErrors(p) \cup CommitErrors(p) : \E gone \in DeadAfter(p, err) :
               proc' = [proc EXCEPT ![p] = Failed(p, err, gone)]
    BY <1>3, EngineFails DEF Observe
  <1> QED BY <1>1, <1>2, <1>3 DEF Observe

\* The calls to the provider.
LEMMA InspectStep == ASSUME IInv, NEW p \in Procs, Inspect(p) PROVE IInv'
  <1>1. CASE \E err \in CallErrors(p) : proc' = [proc EXCEPT ![p] = Failed(p, err, proc[p].dead)]
    BY <1>1, EngineFails DEF Inspect
  <1>2. CASE proc' = [proc EXCEPT ![p].pc = "wait", ![p].read = 0]
    <2> DEFINE me == [proc[p] EXCEPT !.pc = "wait", !.read = 0]
    <2>1. proc[p] \in ProcStates /\ Tells(proc[p])
      BY DEF IInv, TypeOK, ErrorsTell
    <2>2. Allowed(p, me)
      BY <2>1 DEF Allowed, ProcStates, Tells, Inspect, Gone
    <2>3. proc' = [proc EXCEPT ![p] = me]
      BY <1>2
    <2> QED BY <2>2, <2>3, LocalStep DEF Inspect
  <1> QED BY <1>1, <1>2 DEF Inspect

\* The rows of the ledger are the blocks 1..h, and h is their height.
LEMMA RowsAreInterval ==
  ASSUME IInv
  PROVE  /\ Height(Current) \in 0..MaxBlock
         /\ Current = 1..Height(Current)
  <1>1. Len(commits) \in Nat
    BY DEF IInv, TypeOK
  <1>2. PICK h \in 0..MaxBlock : Current = 1..h
    <2>1. CASE Len(commits) = 0
      <3>1. Current = 1..0
        BY <2>1 DEF Current, Rows
      <3> QED BY <3>1, OwnershipAssumption
    <2>2. CASE Len(commits) # 0
      BY <1>1, <2>2 DEF IInv, Chained, Current, Rows
    <2> QED BY <2>1, <2>2
  <1>3. Cardinality(1..h) = h
    BY FS_Interval, OwnershipAssumption
  <1> QED BY <1>2, <1>3, OwnershipAssumption DEF Height

\* The second transaction of Step, up to its COMMIT.
LEMMA WriteStep == ASSUME IInv, NEW p \in Procs, Write(p) PROVE IInv'
  <1>1. CASE proc[p].dead # {}
    BY <1>1, EngineStops DEF Write
  <1>2. CASE /\ HasSession(p)
             /\ \E w \in {w \in Writes(p) : w.block <= MaxBlock} :
                  proc' = [proc EXCEPT ![p].pc = "writing", ![p].write = w]
    <2>1. PICK w \in Writes(p) :
            /\ w.block <= MaxBlock
            /\ proc' = [proc EXCEPT ![p].pc = "writing", ![p].write = w]
      BY <1>2
    <2> DEFINE me == [proc[p] EXCEPT !.pc = "writing", !.write = w]
    <2>2. proc[p] \in ProcStates /\ Tells(proc[p]) /\ proc[p].pc = "observed"
      BY DEF IInv, TypeOK, ErrorsTell, Write
    <2>3. proc[p].read = Len(commits) /\ Len(commits) \in Nat
      BY <1>2, <2>2 DEF IInv, ReadsCurrent, TypeOK
    <2>4. w \in Commands /\ Derived(w)
      <3>1. Rows(proc[p].read) = Current
        BY <2>3 DEF Current
      <3> DEFINE height == Height(Current)
      <3>2. height \in Nat
        BY RowsAreInterval, OwnershipAssumption
      <3>3. \/ w = [kind |-> "chunk", block |-> height + 1, read |-> Len(commits)]
            \/ \E b \in 0..(height - 1) : w = [kind |-> "recovery", block |-> b, read |-> Len(commits)]
        BY <2>3, <3>1 DEF Writes
      <3> HIDE DEF height
      <3>4. w \in Commands
        BY <2>1, <2>3, <3>2, <3>3, OwnershipAssumption DEF Commands
      <3>5. Derived(w)
        BY <3>3 DEF Derived, Pending, height
      <3> QED BY <3>4, <3>5
    <2>5. Allowed(p, me)
      BY <2>2, <2>4 DEF Allowed, ProcStates, Tells, Gone
    <2>6. proc' = [proc EXCEPT ![p] = me]
      BY <2>1
    <2> QED BY <2>5, <2>6, LocalStep DEF Write
  <1>3. CASE \E err \in CallErrors(p) : \E gone \in DeadAfter(p, err) :
               proc' = [proc EXCEPT ![p] = Failed(p, err, gone)]
    BY <1>3, EngineFails DEF Write
  <1> QED BY <1>1, <1>2, <1>3 DEF Write

\* The COMMIT leaves, or the callback fails.
LEMMA SendCommitStep == ASSUME IInv, NEW p \in Procs, SendCommit(p) PROVE IInv'
  <1> DEFINE w == proc[p].write
  <1>1. CASE /\ HasSession(p)
             /\ request' = [request EXCEPT ![Session(p)] = w]
             /\ proc' = [proc EXCEPT ![p].pc = "committing"]
    <2>1. /\ proc[p] \in ProcStates /\ Tells(proc[p]) /\ proc[p].pc = "writing"
          /\ w \in Commands /\ Derived(w)
      BY <1>1 DEF IInv, TypeOK, ErrorsTell, SendCommit, ProcStates, ReadsCurrent
    <2> DEFINE me == [proc[p] EXCEPT !.pc = "committing"]
    <2>2. /\ me \in ProcStates /\ Tells(me)
          /\ me.pc = "committing" /\ me.conn = proc[p].conn
      BY <2>1 DEF ProcStates, Tells
    <2>3. \A q \in Procs : proc'[q] = IF q = p THEN me ELSE proc[q]
      BY <1>1 DEF IInv, TypeOK
    <2>4. Session(p) \in 1..opened /\ Session(p) \in Sessions /\ opened \in Nat
      BY <2>1, OwnershipAssumption DEF IInv, OwnSessions, TypeOK, Session, Sessions
    <2>5. \A s \in Sessions : request'[s] = IF s = Session(p) THEN w ELSE request[s]
      BY <1>1, <2>4 DEF IInv, TypeOK
    <2>6. UNCHANGED <<lock, alive, opened, commits>>
      BY DEF SendCommit
    <2> HIDE DEF w, me
    <2>7. TypeOK'
      BY <1>1, <2>1, <2>2, <2>3, <2>6 DEF IInv, TypeOK, me
    <2>8. OwnSessions'
      BY <2>1, <2>2, <2>3, <2>4, <2>5, <2>6 DEF IInv, OwnSessions
    <2>9. ReadsCurrent'
      BY <2>2, <2>3, <2>6 DEF IInv, ReadsCurrent, HasSession, Session, Derived, Pending, Current, Rows
    <2>10. RequestsFit'
      BY <1>1, <2>1, <2>2, <2>3, <2>4, <2>5, <2>6
      DEF IInv, RequestsFit, OwnSessions, HasSession, Session, Derived, Pending, Current, Rows
    <2>11. LockedSession' /\ Chained' /\ ErrorsTell'
      BY <2>2, <2>3, <2>6 DEF IInv, LockedSession, Chained, ErrorsTell
    <2> QED BY <2>7, <2>8, <2>9, <2>10, <2>11 DEF IInv
  <1>2. CASE \E err \in CallErrors(p) : \E gone \in DeadAfter(p, err) :
               /\ proc' = [proc EXCEPT ![p] = Failed(p, err, gone)]
               /\ UNCHANGED request
    BY <1>2, EngineFails DEF SendCommit
  <1> QED BY <1>1, <1>2 DEF SendCommit

\* The server applies a COMMIT.
LEMMA ApplyStep == ASSUME IInv, NEW s \in Sessions, Apply(s) PROVE IInv'
  <1> DEFINE w == request[s]
             new == Written(Current, w)
             height == Height(Current)
             n == Len(commits)
  <1>1. /\ s \in alive /\ Derived(w) /\ w \in Commands /\ lock = s /\ alive = {s}
        /\ \A p \in Procs : proc[p].conn = s => proc[p].pc \in Gone
    BY DEF IInv, TypeOK, RequestsFit, LockedSession, Apply, Gone, Derived, Sessions
  <1>2. height \in 0..MaxBlock /\ Current = 1..height
    BY RowsAreInterval
  <1>3. \E h \in 0..MaxBlock : new = 1..h
    <2> HIDE DEF height, w
    <2>1. CASE w.kind = "chunk"
      <3>1. w.block = height + 1 /\ w.block \in 0..MaxBlock
        BY <1>1, <2>1 DEF Derived, Commands, height
      <3>2. (1..height) \cup {height + 1} = 1..(height + 1)
        BY <1>2, OwnershipAssumption
      <3> QED BY <1>2, <2>1, <3>1, <3>2 DEF Written
    <2>2. CASE w.kind # "chunk"
      <3>1. w.block \in Nat /\ height \in 0..MaxBlock
        BY <1>1, <1>2 DEF Commands
      <3>2. new = {b \in 1..height : b <= w.block}
        BY <1>2, <2>2 DEF Written
      <3>3. CASE w.block <= height
        <4>1. new = 1..w.block
          BY <3>1, <3>2, <3>3
        <4> QED BY <3>1, <3>3, <4>1, OwnershipAssumption
      <3>4. CASE w.block > height
        <4>1. new = 1..height
          BY <3>1, <3>2, <3>4
        <4> QED BY <3>1, <4>1
      <3> QED BY <3>1, <3>3, <3>4, OwnershipAssumption
    <2> QED BY <2>1, <2>2
  <1> HIDE DEF new, height
  <1> DEFINE row == [by |-> s, read |-> w.read, rows |-> new]
  <1>4. /\ commits' = Append(commits, row)
        /\ request' = [request EXCEPT ![s] = Applied]
        /\ UNCHANGED <<lock, alive, opened, proc>>
    BY DEF Apply, new
  <1>5. row \in [by : Sessions, read : Nat, rows : SUBSET (1..MaxBlock)]
    <2>1. new \in SUBSET (1..MaxBlock)
      BY <1>3, OwnershipAssumption
    <2> QED BY <1>1, <2>1 DEF Commands
  <1>6. row.read = n /\ row.rows = new /\ n \in Nat
    BY <1>1 DEF Derived, IInv, TypeOK
  <1> HIDE DEF row
  <1>7. /\ commits' \in Seq([by : Sessions, read : Nat, rows : SUBSET (1..MaxBlock)])
        /\ Len(commits') = n + 1
        /\ \A i \in 1..(n + 1) : commits'[i] = IF i = n + 1 THEN row ELSE commits[i]
    BY <1>4, <1>5 DEF IInv, TypeOK
  <1>8. TypeOK'
    <2>1. Applied \in Commands
      BY OwnershipAssumption DEF Applied, NoWrite, Commands
    <2> QED BY <1>4, <1>7, <2>1 DEF IInv, TypeOK
  <1>9. \A t \in Sessions : request'[t] = IF t = s THEN Applied ELSE request[t]
    BY <1>4 DEF IInv, TypeOK
  <1>10. OwnSessions'
    <2>1. s <= opened
      BY <1>1 DEF IInv, TypeOK
    <2>2. opened \in Nat /\ s \in Nat
      BY DEF IInv, TypeOK, Sessions
    <2> QED BY <1>4, <1>9, <2>1, <2>2 DEF IInv, OwnSessions
  <1>11. ReadsCurrent'
    BY <1>1, <1>4 DEF ReadsCurrent, HasSession, Session, Gone
  <1>12. RequestsFit'
    <2>1. \A t \in Sessions : ~Pending(request'[t])
      BY <1>1, <1>9 DEF IInv, RequestsFit, Pending, Applied, NoWrite
    <2> QED BY <2>1 DEF RequestsFit
  <1>13. Chained'
    <2> SUFFICES ASSUME NEW i \in 1..(n + 1)
                 PROVE  commits'[i].read = i - 1 /\ \E h \in 0..MaxBlock : commits'[i].rows = 1..h
      BY <1>7 DEF Chained
    <2>1. CASE i = n + 1
      BY <1>3, <1>6, <1>7, <2>1
    <2>2. CASE i # n + 1
      <3>1. i \in 1..n /\ commits'[i] = commits[i]
        BY <1>6, <1>7, <2>2
      <3> QED BY <3>1 DEF IInv, Chained
    <2> QED BY <2>1, <2>2
  <1>14. LockedSession' /\ ErrorsTell'
    BY <1>4 DEF IInv, LockedSession, ErrorsTell
  <1> QED BY <1>8, <1>10, <1>11, <1>12, <1>13, <1>14 DEF IInv

\* The acknowledgement arrives.
LEMMA AcknowledgedStep == ASSUME IInv, NEW p \in Procs, Acknowledged(p) PROVE IInv'
  <1> DEFINE me == [proc[p] EXCEPT !.pc = "step", !.read = 0, !.write = NoWrite]
  <1>1. proc[p] \in ProcStates /\ Tells(proc[p]) /\ proc[p].pc = "committing"
    BY DEF IInv, TypeOK, ErrorsTell, Acknowledged
  <1>2. NoWrite \in Commands
    BY OwnershipAssumption DEF NoWrite, Commands
  <1>3. /\ me \in ProcStates /\ Tells(me)
        /\ me.pc = "step" /\ me.conn = proc[p].conn
    BY <1>1, <1>2 DEF ProcStates, Tells
  <1>4. \A q \in Procs : proc'[q] = IF q = p THEN me ELSE proc[q]
    BY DEF IInv, TypeOK, Acknowledged
  <1>5. Session(p) \in Sessions
    BY <1>1, OwnershipAssumption DEF IInv, OwnSessions, TypeOK, Session, Sessions
  <1>6. \A s \in Sessions : request'[s] = IF s = Session(p) THEN NoWrite ELSE request[s]
    BY <1>5 DEF IInv, TypeOK, Acknowledged
  <1>7. UNCHANGED <<lock, alive, opened, commits>>
    BY DEF Acknowledged
  <1>8. TypeOK'
    BY <1>2, <1>3, <1>7 DEF IInv, TypeOK, Acknowledged
  <1> HIDE DEF me
  <1>9. OwnSessions'
    BY <1>1, <1>3, <1>4, <1>6, <1>7 DEF IInv, OwnSessions
  <1>10. ReadsCurrent'
    BY <1>3, <1>4, <1>7 DEF IInv, ReadsCurrent, HasSession, Session, Derived, Pending, Current, Rows
  <1>11. RequestsFit'
    BY <1>3, <1>4, <1>6, <1>7
    DEF IInv, RequestsFit, Session, Derived, Pending, Current, Rows, NoWrite
  <1>12. LockedSession' /\ Chained' /\ ErrorsTell'
    BY <1>3, <1>4, <1>7 DEF IInv, LockedSession, Chained, ErrorsTell
  <1> QED BY <1>8, <1>9, <1>10, <1>11, <1>12 DEF IInv

\* The acknowledgement does not arrive.
LEMMA UnacknowledgedStep == ASSUME IInv, NEW p \in Procs, Unacknowledged(p) PROVE IInv'
  BY EngineFails DEF Unacknowledged

\* Run waits for the next poll.
LEMMA WaitStep == ASSUME IInv, NEW p \in Procs, Wait(p) PROVE IInv'
  <1>1. CASE proc' = [proc EXCEPT ![p].pc = "step"]
    <2> DEFINE me == [proc[p] EXCEPT !.pc = "step"]
    <2>1. proc[p] \in ProcStates /\ Tells(proc[p])
      BY DEF IInv, TypeOK, ErrorsTell
    <2>2. Allowed(p, me)
      BY <2>1 DEF Allowed, ProcStates, Tells, Wait, Gone
    <2>3. proc' = [proc EXCEPT ![p] = me]
      BY <1>1
    <2> QED BY <2>2, <2>3, LocalStep DEF Wait
  <1>2. CASE proc[p].stopped /\ proc' = [proc EXCEPT ![p] = Failed(p, {Canceled}, proc[p].dead)]
    <2>1. {Canceled} \in CallErrors(p)
      BY <1>2 DEF CallErrors
    <2> QED BY <1>2, <2>1, EngineFails DEF Wait
  <1> QED BY <1>1, <1>2 DEF Wait

\* A tick of the watchdog.
LEMMA WatchStep == ASSUME IInv, NEW p \in Procs, Watch(p) PROVE IInv'
  <1> DEFINE me == proc[p]
  <1>1. me \in ProcStates /\ Tells(me) /\ Running(p) /\ me.watching
    BY DEF IInv, TypeOK, ErrorsTell, Watch
  <1>2. PICK gone :
          /\ \/ me.dead # {} /\ gone = me.dead
             \/ me.dead = {} /\ gone = {Lost, Other}
             \/ me.dead = {} /\ me.stopped /\ gone \in {{Lost, Canceled}, {}}
          /\ proc' = [proc EXCEPT ![p] =
               IF gone = {} \/ Canceled \in gone
               THEN [me EXCEPT !.watching = FALSE, !.dead = gone]
               ELSE [me EXCEPT !.watching = FALSE, !.dead = gone, !.stopped = TRUE,
                               !.errs.watch = gone]]
    BY DEF Watch
  <1>3. /\ gone \in Errors
        /\ gone # {} => Lost \in gone
        /\ gone = {} \/ Canceled \in gone => me.stopped
        /\ me.pc = "closing" => gone # {}
    BY <1>1, <1>2 DEF Errors, ProcStates, Tells, Lost, Other, Canceled
  <1>4. CASE gone = {} \/ Canceled \in gone
    <2> DEFINE new == [me EXCEPT !.watching = FALSE, !.dead = gone]
    <2>1. Allowed(p, new)
      BY <1>1, <1>3, <1>4 DEF Allowed, IInv, ReadsCurrent, HasSession, Session, ProcStates,
                             Tells, Running
    <2>2. proc' = [proc EXCEPT ![p] = new]
      BY <1>2, <1>4
    <2> QED BY <2>1, <2>2, LocalStep DEF Watch
  <1>5. CASE ~(gone = {} \/ Canceled \in gone)
    <2> DEFINE new == [me EXCEPT !.watching = FALSE, !.dead = gone, !.stopped = TRUE,
                                 !.errs.watch = gone]
    <2>1. Allowed(p, new)
      BY <1>1, <1>3, <1>5 DEF Allowed, IInv, ReadsCurrent, HasSession, Session, ProcStates,
                             Tells, Running
    <2>2. proc' = [proc EXCEPT ![p] = new]
      BY <1>2, <1>5
    <2> QED BY <2>1, <2>2, LocalStep DEF Watch
  <1> QED BY <1>4, <1>5

\* A statement of the worker fails.
LEMMA DrainFailsStep == ASSUME IInv, NEW p \in Procs, DrainFails(p) PROVE IInv'
  <1>1. proc[p] \in ProcStates /\ Tells(proc[p]) /\ Running(p)
    BY DEF IInv, TypeOK, ErrorsTell, DrainFails
  <1>2. CASE proc' = [proc EXCEPT ![p].working = FALSE]
    <2> DEFINE me == [proc[p] EXCEPT !.working = FALSE]
    <2>1. Allowed(p, me)
      BY <1>1 DEF Allowed, IInv, ReadsCurrent, HasSession, Session, ProcStates, Tells, Running
    <2>2. proc' = [proc EXCEPT ![p] = me]
      BY <1>2
    <2> QED BY <2>1, <2>2, LocalStep DEF DrainFails
  <1>3. CASE proc' = [proc EXCEPT ![p].working = FALSE, ![p].stopped = TRUE,
                                  ![p].errs.worker = {Other}]
    <2> DEFINE me == [proc[p] EXCEPT !.working = FALSE, !.stopped = TRUE,
                                     !.errs.worker = {Other}]
    <2>1. Allowed(p, me)
      BY <1>1 DEF Allowed, IInv, ReadsCurrent, HasSession, Session, ProcStates, Tells, Running,
                  Errors
    <2>2. proc' = [proc EXCEPT ![p] = me]
      BY <1>3
    <2> QED BY <2>1, <2>2, LocalStep DEF DrainFails
  <1> QED BY <1>2, <1>3 DEF DrainFails

\* The listener gives its connection back.
LEMMA StopListeningStep == ASSUME IInv, NEW p \in Procs, StopListening(p) PROVE IInv'
  <1> DEFINE me == [proc[p] EXCEPT !.listening = FALSE]
  <1>1. proc[p] \in ProcStates /\ Tells(proc[p])
    BY DEF IInv, TypeOK, ErrorsTell
  <1>2. Allowed(p, me)
    BY <1>1 DEF Allowed, ProcStates, Tells, StopListening, Gone, Running, IInv, ReadsCurrent, HasSession, Session
  <1>3. proc' = [proc EXCEPT ![p] = me]
    BY DEF StopListening
  <1> QED BY <1>2, <1>3, LocalStep DEF StopListening

\* The process is told to stop.
LEMMA SignalStep == ASSUME IInv, NEW p \in Procs, Signal(p) PROVE IInv'
  <1> DEFINE me == [proc[p] EXCEPT !.stopped = TRUE]
  <1>1. proc[p] \in ProcStates /\ Tells(proc[p])
    BY DEF IInv, TypeOK, ErrorsTell
  <1>2. Allowed(p, me)
    BY <1>1 DEF Allowed, ProcStates, Tells, Signal, Gone, Running, IInv, ReadsCurrent, HasSession, Session
  <1>3. proc' = [proc EXCEPT ![p] = me]
    BY DEF Signal
  <1> QED BY <1>2, <1>3, LocalStep DEF Signal

\* run returns: its exit code says what the engine knows.
LEMMA CloseStep == ASSUME IInv, NEW p \in Procs, Close(p) PROVE IInv'
  <1> DEFINE code == ExitCode(RunError(proc[p].errs))
             me == [proc[p] EXCEPT !.pc = "closing", !.dead = {Lost}, !.errs = NoErrors,
                                   !.code = code]
  <1>1. proc[p] \in ProcStates /\ Tells(proc[p]) /\ proc[p].pc = "returned"
    BY DEF IInv, TypeOK, ErrorsTell, Close
  <1>2. code \in {0, 1}
    BY DEF ExitCode
  <1>3. proc[p].unknown => code = 1
    BY <1>1 DEF Tells, ExitCode, RunError, Lost, Unknown, Canceled, Other
  <1>4. me \in ProcStates
    BY <1>1, <1>2 DEF ProcStates, NoErrors, Errors
  <1>5. Tells(me)
    BY <1>1, <1>3 DEF Tells, NoErrors, ProcStates, Lost, Canceled
  <1>6. Allowed(p, me)
    BY <1>1, <1>4, <1>5 DEF Allowed, Gone, ProcStates
  <1>7. proc' = [proc EXCEPT ![p] = me]
    BY DEF Close
  <1> QED BY <1>6, <1>7, LocalStep DEF Close

\* A process that is down is allowed, whatever its code.
LEMMA DownAllowed ==
  ASSUME IInv, NEW p \in Procs, NEW code \in {0, 1}
  PROVE  Allowed(p, [Down EXCEPT !.code = code]) /\ Allowed(p, Down)
  <1>1. NoWrite \in Commands
    BY OwnershipAssumption DEF NoWrite, Commands
  <1>2. Down \in ProcStates /\ [Down EXCEPT !.code = code] \in ProcStates
    <2>1. NoErrors \in [watch : Errors, worker : Errors, engine : Errors] /\ {} \in Errors
      BY DEF NoErrors, Errors
    <2>2. NoSession \in 0..MaxSessions
      BY OwnershipAssumption DEF NoSession
    <2> QED BY <1>1, <2>1, <2>2 DEF Down, ProcStates
  <1>3. Tells(Down) /\ Tells([Down EXCEPT !.code = code])
    BY DEF Tells, Down, NoErrors
  <1> QED BY <1>2, <1>3 DEF Allowed, Gone, Down

\* The process ends.
LEMMA ExitStep == ASSUME IInv, NEW p \in Procs, Exit(p) PROVE IInv'
  <1>1. proc[p].code \in {0, 1}
    BY DEF IInv, TypeOK, ProcStates
  <1> QED BY <1>1, DownAllowed, LocalStep DEF Exit

\* The process is killed.
LEMMA CrashStep == ASSUME IInv, NEW p \in Procs, Crash(p) PROVE IInv'
  BY DownAllowed, LocalStep DEF Crash

\* The server ends a session.
LEMMA EndSessionStep == ASSUME IInv, NEW s \in Sessions, EndSession(s) PROVE IInv'
  <1>1. lock = s /\ alive = {s} /\ lock' = NoSession /\ alive' = {}
    BY DEF IInv, LockedSession, EndSession
  <1>2. \A t \in Sessions : request'[t] = IF t = s /\ Pending(request[s]) THEN NoWrite ELSE request[t]
    BY DEF IInv, TypeOK, EndSession
  <1>3. TypeOK'
    <2>1. NoWrite \in Commands
      BY OwnershipAssumption DEF NoWrite, Commands
    <2> QED BY <1>1, <2>1, OwnershipAssumption DEF IInv, TypeOK, EndSession, NoSession
  <1>4. LockedSession' /\ Chained' /\ ErrorsTell'
    BY <1>1 DEF IInv, LockedSession, Chained, ErrorsTell, EndSession
  <1>5. OwnSessions'
    BY <1>2 DEF IInv, OwnSessions, EndSession
  <1>6. ReadsCurrent'
    BY <1>1 DEF ReadsCurrent, HasSession
  <1>7. RequestsFit'
    <2>1. \A t \in Sessions : ~Pending(request'[t])
      BY <1>1, <1>2 DEF IInv, RequestsFit, Pending, NoWrite
    <2> QED BY <2>1 DEF RequestsFit
  <1> QED BY <1>3, <1>4, <1>5, <1>6, <1>7 DEF IInv

\* A process starts.
LEMMA AcquireStep == ASSUME IInv, NEW p \in Procs, AcquireOwnership(p) PROVE IInv'
  <1> DEFINE s == opened + 1
  <1>1. CASE lock # NoSession
    <2>1. ExitCode({Other}) \in {0, 1}
      BY DEF ExitCode
    <2> QED BY <1>1, <2>1, DownAllowed, LocalStep DEF AcquireOwnership
  <1>2. CASE lock = NoSession
    <2>1. /\ alive = {} /\ lock' = s /\ alive' = {s} /\ opened' = s
          /\ UNCHANGED <<request, commits>>
      BY <1>2 DEF IInv, LockedSession, AcquireOwnership
    <2>2. opened \in Nat /\ s \in Sessions
      BY OwnershipAssumption DEF IInv, TypeOK, AcquireOwnership, Sessions
    <2>3. Started(s) \in ProcStates /\ Tells(Started(s))
      <3>1. NoWrite \in Commands
        BY OwnershipAssumption DEF NoWrite, Commands
      <3>2. Started(s) \in ProcStates
        <4>1. NoErrors \in [watch : Errors, worker : Errors, engine : Errors] /\ {} \in Errors
          BY DEF NoErrors, Errors
        <4>2. s \in 0..MaxSessions
          BY <2>2 DEF Sessions
        <4> QED BY <3>1, <4>1, <4>2 DEF Started, Down, ProcStates
      <3>3. Tells(Started(s))
        BY DEF Tells, Started, Down, NoErrors
      <3> QED BY <3>2, <3>3
    <2>4. Started(s).pc = "step" /\ Started(s).conn = s
      BY DEF Started, Down
    <2>5. \A q \in Procs : proc'[q] = IF q = p THEN Started(s) ELSE proc[q]
      BY <1>2 DEF IInv, TypeOK, AcquireOwnership
    <2>6. TypeOK'
      BY <1>2, <2>1, <2>2, <2>3 DEF IInv, TypeOK, AcquireOwnership, Sessions
    <2>7. LockedSession'
      BY <2>1, <2>2 DEF LockedSession, NoSession, Sessions
    <2>8. Chained' /\ ErrorsTell'
      BY <2>1, <2>3, <2>5 DEF IInv, Chained, ErrorsTell
    <2>9. OwnSessions'
      BY <2>1, <2>2, <2>4, <2>5 DEF IInv, OwnSessions, Sessions
    <2>10. ReadsCurrent'
      BY <2>1, <2>2, <2>4, <2>5 DEF IInv, OwnSessions, ReadsCurrent, HasSession, Session
    <2>11. RequestsFit'
      BY <2>1 DEF IInv, RequestsFit
    <2> QED BY <2>6, <2>7, <2>8, <2>9, <2>10, <2>11 DEF IInv
  <1> QED BY <1>1, <1>2

-----------------------------------------------------------------------------
(* The theorems. *)

\* The inductive invariant holds initially.
LEMMA InitInvariant == Init => IInv
  <1> SUFFICES ASSUME Init PROVE IInv
    OBVIOUS
  <1>1. TypeOK
    <2>1. NoErrors \in [watch : Errors, worker : Errors, engine : Errors] /\ {} \in Errors
      BY DEF NoErrors, Errors
    <2>2. NoSession \in 0..MaxSessions /\ 0 \in 0..MaxSessions
      BY OwnershipAssumption DEF NoSession
    <2>3. NoWrite \in Commands
      BY OwnershipAssumption DEF NoWrite, Commands
    <2>4. Down \in ProcStates
      BY <2>1, <2>2, <2>3 DEF Down, ProcStates
    <2> QED BY <2>2, <2>3, <2>4 DEF Init, TypeOK
  <1>2. LockedSession /\ OwnSessions
    BY DEF Init, LockedSession, OwnSessions, Down
  <1>3. ReadsCurrent /\ RequestsFit /\ Chained
    BY DEF Init, ReadsCurrent, RequestsFit, Chained, HasSession, Session, Pending, NoWrite
  <1>4. ErrorsTell
    BY DEF Init, ErrorsTell, Tells, Down, NoErrors
  <1> QED BY <1>1, <1>2, <1>3, <1>4 DEF IInv

\* Every step keeps it.
LEMMA StepInvariant == IInv /\ [Next]_vars => IInv'
  <1> SUFFICES ASSUME IInv, [Next]_vars PROVE IInv'
    OBVIOUS
  <1>1. ASSUME NEW p \in Procs, AcquireOwnership(p) PROVE IInv'
    BY <1>1, AcquireStep
  <1>2. ASSUME NEW p \in Procs, Engine(p) PROVE IInv'
    BY <1>2, ObserveStep, InspectStep, WriteStep, SendCommitStep, AcknowledgedStep,
       UnacknowledgedStep, WaitStep DEF Engine
  <1>3. ASSUME NEW p \in Procs,
               Watch(p) \/ DrainFails(p) \/ StopListening(p) \/ Signal(p) PROVE IInv'
    BY <1>3, WatchStep, DrainFailsStep, StopListeningStep, SignalStep
  <1>4. ASSUME NEW p \in Procs, Close(p) \/ Exit(p) \/ Crash(p) PROVE IInv'
    BY <1>4, CloseStep, ExitStep, CrashStep
  <1>5. ASSUME NEW s \in Sessions, Apply(s) \/ EndSession(s) PROVE IInv'
    BY <1>5, ApplyStep, EndSessionStep
  <1>6. CASE UNCHANGED vars
    <2> USE <1>6
    <2>1. TypeOK' /\ LockedSession' /\ OwnSessions' /\ Chained' /\ ErrorsTell'
      BY DEF IInv, vars, TypeOK, LockedSession, OwnSessions, Chained, ErrorsTell
    <2>2. ReadsCurrent' /\ RequestsFit'
      BY DEF IInv, vars, ReadsCurrent, RequestsFit, HasSession, Session, Derived, Pending,
             Current, Rows
    <2> QED BY <2>1, <2>2 DEF IInv
  <1> QED BY <1>1, <1>2, <1>3, <1>4, <1>5, <1>6 DEF Next

\* The locked session is the only open one, every process has a session of its own, what a
\* live session has read or sent fits the ledger, and errors tell what happened
\* (ownership.go, tx.go, cmd/indexer/main.go).
THEOREM OwnershipInvariant == Spec => []IInv
  BY InitInvariant, StepInvariant, PTL DEF Spec

\* Every commit was derived from the ledger that the commit before it left, and the ledger
\* has no hole, whatever sessions are lost, processes killed and acknowledgements missed
\* (withOwnedTransaction, commit).
THEOREM CommitsAreChained == Spec => []CommitsChain
  <1>1. IInv => CommitsChain
    <2> SUFFICES ASSUME IInv, NEW n \in DOMAIN commits
                 PROVE  commits[n].read = n - 1 /\ commits[n].rows = 1..Height(commits[n].rows)
      BY DEF CommitsChain
    <2>1. n \in 1..Len(commits)
      BY DEF IInv, TypeOK
    <2>2. PICK h \in 0..MaxBlock : commits[n].rows = 1..h
      BY <2>1 DEF IInv, Chained
    <2>3. Cardinality(1..h) = h
      BY FS_Interval, OwnershipAssumption
    <2> QED BY <2>1, <2>2, <2>3 DEF IInv, Chained, Height
  <1> QED BY <1>1, OwnershipInvariant, PTL

\* A process that does not know whether its commit was applied exits with an error, and
\* pool.Close never waits for a listener that nothing will stop (main.go, run).
THEOREM ShutdownIsHonest == Spec => []EndsHonestly
  <1>1. IInv => EndsHonestly
    <2> SUFFICES ASSUME IInv PROVE EndsHonestly
      OBVIOUS
    <2>1. \A p \in Procs : Tells(proc[p]) /\ proc[p] \in ProcStates
      BY DEF IInv, ErrorsTell, TypeOK
    <2>2. ExitHonest
      BY <2>1 DEF ExitHonest, Tells
    <2>3. CloseReturns
      BY <2>1 DEF CloseReturns, Tells
    <2> QED BY <2>2, <2>3 DEF EndsHonestly
  <1> QED BY <1>1, OwnershipInvariant, PTL

\* The processes implement SingleWriter: the lock is the writer, taking it is Acquire, an
\* applied COMMIT is Commit and the end of the locked session is Release.
THEOREM ProcessesAreFenced == Spec => Fenced
  <1>1. Init => OneWriter!Init
    BY DEF Init, OneWriter!Init
  <1>2. IInv /\ [Next]_vars => [OneWriter!Next]_OneWriter!vars
    <2> SUFFICES ASSUME IInv, Next PROVE OneWriter!Next \/ UNCHANGED OneWriter!vars
      BY DEF vars, OneWriter!vars
    <2>1. ASSUME NEW p \in Procs, AcquireOwnership(p)
          PROVE  OneWriter!Next \/ UNCHANGED OneWriter!vars
      <3>1. CASE lock = NoSession
        <4>1. lock' \in Sessions
          BY <2>1, <3>1, OwnershipAssumption DEF AcquireOwnership, IInv, TypeOK, Sessions
        <4> QED BY <2>1, <3>1, <4>1 DEF AcquireOwnership, OneWriter!Next, OneWriter!Acquire
      <3>2. CASE lock # NoSession
        BY <2>1, <3>2 DEF AcquireOwnership, OneWriter!vars
      <3> QED BY <3>1, <3>2
    <2>2. ASSUME NEW p \in Procs,
                 \/ Engine(p) \/ Watch(p) \/ DrainFails(p) \/ StopListening(p)
                 \/ Signal(p) \/ Close(p) \/ Exit(p) \/ Crash(p)
          PROVE  UNCHANGED OneWriter!vars
      BY <2>2 DEF Engine, Observe, Inspect, Write, SendCommit, Acknowledged, Unacknowledged,
                  Wait, Watch, DrainFails, StopListening, Signal, Close, Exit, Crash,
                  OneWriter!vars
    <2>3. ASSUME NEW s \in Sessions, Apply(s) PROVE OneWriter!Commit
      <3>a. IInv'
        BY <2>3, ApplyStep
      <3>1. lock = s /\ lock # NoSession /\ Len(commits) \in Nat
        BY <2>3 DEF Apply, IInv, LockedSession, RequestsFit, TypeOK, NoSession, Sessions
      <3> DEFINE rows == Written(Current, request[s])
      <3>2. commits' = Append(commits, [by |-> lock, read |-> Len(commits), rows |-> rows])
        BY <2>3, <3>1 DEF Apply, IInv, RequestsFit, Derived
      <3> HIDE DEF rows
      <3>3. \E h \in 0..MaxBlock : rows = 1..h
        <4>1. /\ Len(commits') = Len(commits) + 1
              /\ commits'[Len(commits) + 1] =
                   [by |-> lock, read |-> Len(commits), rows |-> rows]
          BY <3>1, <3>2 DEF IInv, TypeOK
        <4>2. Len(commits) + 1 \in 1..Len(commits')
          BY <3>1, <4>1
        <4> QED BY <3>a, <4>1, <4>2 DEF IInv, Chained
      <3> QED BY <2>3, <3>1, <3>2, <3>3 DEF OneWriter!Commit, Apply
    <2>4. ASSUME NEW s \in Sessions, EndSession(s) PROVE OneWriter!Release
      BY <2>4 DEF EndSession, IInv, LockedSession, OneWriter!Release
    <2> QED BY <2>1, <2>2, <2>3, <2>4 DEF Next, OneWriter!Next
  <1> QED BY <1>1, <1>2, OwnershipInvariant, PTL DEF Spec, Fenced, OneWriter!Spec
=============================================================================
